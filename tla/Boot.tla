-------------------------------- MODULE Boot --------------------------------
(***************************************************************************)
(* The start of the bootstrap processor (processor::init in                *)
(* src/kernel/processor/core.cc) with its timer (processor/pit.cc) and the *)
(* calibration of the local APIC (processor/lapic.cc), against the devices *)
(* that interrupt it: the timer ticks and interrupts arrive whenever they  *)
(* can.  It composes the controllers and their table (Apic, Madt) with the *)
(* descriptor table (Idt).                                                 *)
(*                                                                         *)
(* Up to the first sti nothing can interrupt the processor, and a step of  *)
(* init is an action.  From then on, every access to what an interrupt     *)
(* handler or the timer reads or writes is one.  Handlers run with         *)
(* interrupts off: the delivery of an interrupt and its handler are one    *)
(* action.  The other processors are never started by this code.           *)
(*                                                                         *)
(* After init ("done") the kernel registers and releases handlers, routes  *)
(* ISA interrupts to them, and uses the timers and interprocessor          *)
(* interrupts: calls of the kinds that the machine's workload allows.      *)
(***************************************************************************)
EXTENDS Madt, Idt

CONSTANTS
  Machines,   \* what the firmware presents: see MachineOK
  Drivers,    \* registrants after init
  Line,       \* the ISA interrupt of a driver's device
  FirmwareLvt,\* the local vector table as the firmware left it
  Targets     \* APIC ids that interprocessor interrupts are sent to

VARIABLES
  mach,   \* the machine
  pc,     \* where the processor is in init
  on,     \* the interrupt flag
  plat,   \* irqs, lapics, ioapics, lapic_base: see Madt; pic; at: the parser's iterator
  irr,    \* vectors that wait in the local APIC
  isr,    \* vectors in service: delivered, without an end of interrupt
  pit,    \* the timer: device mode, and the handlers
  cal,    \* _calibrated
  icr,    \* the interrupt command register
  seen,   \* history: what the properties look back at
  calls   \* calls since the end of init

bvars == <<mach, pc, on, plat, irr, isr, pit, cal, icr, seen, calls>>
vars  == <<ivars, bvars>>

\* madt: the table; regions: what mmio grants; live: interrupts whose pins the
\* firmware left unmasked and whose devices are active; has8259: the flag.
\* ops, calls (bound): the kinds of calls after init, and how many there are.
MachineOK(m) ==
  /\ m.madt # NoTable =>
       m.madt \in Seq(Range(m.madt)) /\ \A j \in DOMAIN m.madt : EntryOK(m.madt[j])
  /\ m.regions \subseteq {"LAPIC", "IOAPIC", "PIT"}
  /\ m.live \subseteq Nat /\ m.has8259 \in BOOLEAN
  /\ m.ops \subseteq {"driver", "system", "timer", "ipi", "lapic"} /\ m.calls \in Nat

ASSUME BootAssumption ==
  /\ \A m \in Machines : MachineOK(m)
  /\ Drivers \cup {"pit", "spurious"} \subseteq Registrants
  /\ Registrants \cap {"none", "default", "wild", "fault"} = {}
  /\ Line \in [Drivers -> Sources \ {0}]
  /\ FirmwareLvt \in [LvtNames -> Entry]
  /\ Targets \subseteq Nat

-----------------------------------------------------------------------------
(* Interrupts *)

Lines == Byte

\* The last of some places in a table, 0 if there are none, and what the table says
\* of a source: the interrupt of its last override.
LastOf(J) == Max({0} \cup J)
Target(madt, s) ==
  LET i == LastOf({j \in Entries(madt, "override") : madt[j].source = s})
  IN  IF i = 0 THEN s ELSE madt[i].global

\* How a machine is wired: the IO APIC that has a pin for interrupt g, 0 if none
\* has, and the interrupt of the timer.
Wires == [m \in Machines |-> [g \in Lines |->
  LastOf({i \in Entries(m.madt, "ioapic") : g - m.madt[i].base \in DOMAIN m.madt[i].pins})]]
Timers == [m \in Machines |-> Target(m.madt, 0)]

WiredTo(g) == Wires[mach][g]
TimerLine  == Timers[mach]
Pin(g) == plat.ioapics[WiredTo(g)].pins[g - mach.madt[WiredTo(g)].base]

\* An edge on line g: it is latched if the pin lets it through.
Latched(g) == IF WiredTo(g) = 0 \/ Masked(Pin(g)) THEN {} ELSE {Pin(g).vector}

\* The timer: its output changes when the count ends, once or again and again.
\* late: the one-shot ends while the processor is on its way to the hlt.
pit_tick ==
  /\ pit.mode \in {"armed", "periodic"}
  /\ irr' = irr \cup Latched(TimerLine)
  /\ pit' = [pit EXCEPT !.mode = IF @ = "armed" THEN "expired" ELSE @,
                        !.source = IF Latched(TimerLine) \subseteq irr THEN @ ELSE pit.set]
  /\ seen' = [seen EXCEPT !.late = @ \/ (pit.mode = "armed" /\ pc \in
                                           {"warm_hlt", "cal_check", "cal_hlt"})]
  /\ UNCHANGED <<ivars, mach, pc, on, plat, isr, cal, icr, calls>>

\* The local APIC's timer, once the kernel has set it.
lapic_tick ==
  /\ pc = "done" /\ plat.lapics[0].timer # "stopped"
  /\ irr' = irr \cup IF Masked(plat.lapics[0].lvt["Timer"]) THEN {}
                     ELSE {plat.lapics[0].lvt["Timer"].vector}
  /\ plat' = [plat EXCEPT !.lapics[0].timer = IF @ = "once" THEN "stopped" ELSE @]
  /\ UNCHANGED <<ivars, mach, pc, on, isr, pit, cal, icr, seen, calls>>

\* Another device: one that the firmware left active, or a driver's.
device_edge(g) ==
  /\ \/ g \in mach.live
     \/ pc = "done" /\ \E d \in Drivers : g = plat.irqs[Line[d]].target
  /\ irr' = irr \cup Latched(g)
  /\ irr' # irr
  /\ UNCHANGED <<ivars, mach, pc, on, plat, isr, pit, cal, icr, seen, calls>>

\* The one-shot handler "calibrate" sets _calibrated; "chain" calls one_shot.
Called(p) == IF p.one_shot = "chain"
             THEN [p EXCEPT !.one_shot = "second", !.periodic = "none",
                            !.mode = "armed", !.set = "chained"]
             ELSE p
Noted == [seen EXCEPT !.by = IF pit.one_shot = "calibrate" THEN pit.source ELSE @,
                      !.woken = IF pc = "warm_wait" THEN pit.source ELSE @,
                      !.ran = @ \cup {IF pit.one_shot # "none" THEN pit.one_shot
                                      ELSE pit.periodic}]

\* Mutation: no end of interrupt.
trigger_no_eoi(v) ==
  /\ pit' = [Called(pit) EXCEPT !.one_shot = "none"]
  /\ cal' = (cal \/ pit.one_shot = "calibrate")
  /\ seen' = Noted
  /\ isr' = {v}

\* pit::_trigger: the one-shot handler is called and then cleared, or else the
\* periodic one is called; then the end of interrupt.
trigger(v) ==
  /\ pit' = [Called(pit) EXCEPT !.one_shot = "none"]
  /\ cal' = (cal \/ pit.one_shot = "calibrate")
  /\ seen' = Noted
  /\ isr' = {}

\* Where the processor goes on after an interrupt: behind the hlt it waits in.
Resume == CASE pc = "warm_wait" -> "warm_end"
            [] pc = "cal_wait"  -> "cal_check"
            [] OTHER            -> pc

\* The highest vector is delivered, and its handler runs.  An exception, and an
\* interrupt nobody asked for, end in _default_irq_stub, which halts.
deliver(v) ==
  /\ on /\ pc \notin {"panic", "fault", "corrupt"}
  /\ v \in irr /\ isr = {} /\ \A w \in irr : w <= v
  /\ irr' = irr \ {v}
  /\ pc' = IF Dispatch(v).fn \in Registrants THEN Resume ELSE "fault"
  /\ on' = (on /\ pc' # "fault")
  /\ IF Dispatch(v).fn = "pit" /\ Dispatch(v).ctx = "pit"
     THEN trigger(v)
     ELSE UNCHANGED <<pit, cal, isr, seen>>
  /\ UNCHANGED <<ivars, mach, plat, icr, calls>>

-----------------------------------------------------------------------------
(* processor::init *)

Go(from, to) == pc = from /\ pc' = to

start_idt ==
  /\ Go("start", "parse") /\ idt_init
  /\ UNCHANGED <<mach, on, plat, irr, isr, pit, cal, icr, seen, calls>>

\* parse_madt: the 8259 is masked when the table says that there is one.
parse ==
  /\ Go("parse", IF mach.madt = NoTable THEN "panic" ELSE "first_run")
  /\ plat' = [plat EXCEPT !.pic = IF mach.madt # NoTable /\ mach.has8259 THEN "masked" ELSE @]
  /\ UNCHANGED <<ivars, mach, on, irr, isr, pit, cal, icr, seen, calls>>

\* A run of parse_madt over the table, entry by entry; one that does not get over an
\* entry is a fault.
parse_entry ==
  LET e == mach.madt[plat.at]  granted == "IOAPIC" \in mach.regions IN
  /\ pc \in {"first_run", "second_run", "third_run"} /\ plat.at \in DOMAIN mach.madt
  /\ pc' = IF \/ pc = "second_run" /\ second_run_faults(mach.madt, e)
              \/ pc = "third_run" /\ third_run_faults(mach.madt, granted, plat, e)
           THEN "fault" ELSE pc
  /\ plat' = IF pc' = "fault" THEN plat
             ELSE [(CASE pc = "first_run"  -> first_run(plat, e)
                      [] pc = "second_run" ->
                           second_run(mach.madt, FirmwareLvt, granted, plat, plat.at)
                      [] pc = "third_run"  -> third_run(mach.madt, plat, e))
                    EXCEPT !.at = @ + 1]
  /\ UNCHANGED <<ivars, mach, on, irr, isr, pit, cal, icr, seen, calls>>

\* The end of a run.  It panics without a processor or an IO APIC.
parse_next ==
  /\ pc \in {"first_run", "second_run", "third_run"} /\ plat.at \notin DOMAIN mach.madt
  /\ \/ Go("first_run", IF {} \in {Entries(mach.madt, "lapic"), Entries(mach.madt, "ioapic")}
                         THEN "panic" ELSE "second_run")
     \/ Go("second_run", "third_run") \/ Go("third_run", "lapic")
  /\ plat' = [plat EXCEPT !.at = 1,
                          !.lapics = IF pc = "first_run" THEN NewLapics(mach.madt) ELSE @]
  /\ UNCHANGED <<ivars, mach, on, irr, isr, pit, cal, icr, seen, calls>>

\* lapic::init: without its region the end of interrupt is written to address
\* 0xb0, which is not mapped.
lapic_fails ==
  /\ Go("lapic", IF plat.lapics[0] = NoLapic THEN "panic" ELSE "fault")
  /\ plat.lapics[0] = NoLapic \/ "LAPIC" \notin mach.regions
  /\ UNCHANGED <<ivars, mach, on, plat, irr, isr, pit, cal, icr, seen, calls>>

lapic_init ==
  /\ Go("lapic", "enable")
  /\ plat.lapics[0] # NoLapic /\ "LAPIC" \in mach.regions
  /\ plat' = [plat EXCEPT !.lapics[0] = lapic_map(@)]
  /\ register_irq_handler("spurious")
  /\ UNCHANGED <<mach, on, irr, isr, pit, cal, icr, seen, calls>>

VectorHeldBy(who) == Lowest({v \in Vectors : owner[v] = who})

lapic_on ==
  /\ Go("enable", "pit") /\ edit = Idle
  /\ plat' = [plat EXCEPT !.lapics[0] = lapic_enable(@, VectorHeldBy("spurious"))]
  /\ isr' = {}
  /\ UNCHANGED <<ivars, mach, on, irr, pit, cal, icr, seen, calls>>

\* pit::init
pit_refused ==
  /\ Go("pit", "sti") /\ "PIT" \notin mach.regions
  /\ UNCHANGED <<ivars, mach, on, plat, irr, isr, pit, cal, icr, seen, calls>>

pit_init ==
  /\ Go("pit", "route") /\ "PIT" \in mach.regions
  /\ register_irq_handler("pit")
  /\ UNCHANGED <<mach, on, plat, irr, isr, pit, cal, icr, seen, calls>>

pit_route ==
  /\ edit = Idle
  /\ Go("route", IF Routable(plat, 0) /\ "IOAPIC" \notin mach.regions THEN "fault" ELSE "warm")
  /\ plat' = IF Routable(plat, 0) /\ pc' = "warm"
             THEN route_isa_irq(plat, 0, VectorHeldBy("pit")) ELSE plat
  /\ on' = (pc' = "warm")
  /\ UNCHANGED <<ivars, mach, irr, isr, pit, cal, icr, seen, calls>>

\* pit::one_shot and pit::periodic: the handlers, then the command, which stops
\* the count, then the count, which starts it.
set_handlers(from, to, one_shot, periodic) ==
  /\ Go(from, to)
  /\ pit' = [pit EXCEPT !.one_shot = one_shot, !.periodic = periodic]
  /\ UNCHANGED <<ivars, mach, on, plat, irr, isr, icr, seen>>

set_mode(from, to) ==
  /\ Go(from, to)
  /\ pit' = [pit EXCEPT !.mode = "loading"]
  /\ UNCHANGED <<ivars, mach, on, plat, irr, isr, cal, icr, seen, calls>>

set_count(from, to, mode, by) ==
  /\ Go(from, to)
  /\ pit' = [pit EXCEPT !.mode = mode, !.set = by]
  /\ UNCHANGED <<ivars, mach, on, plat, irr, isr, cal, icr, seen, calls>>

\* A step that only moves on.
walk(from, to) ==
  /\ Go(from, to)
  /\ UNCHANGED <<ivars, mach, on, plat, irr, isr, pit, cal, icr, seen, calls>>

\* Mutation: the first wait is left out.
warm_up_no_wait ==
  \/ set_handlers("warm", "warm_mode", "none", "none") /\ UNCHANGED <<cal, calls>>
  \/ set_mode("warm_mode", "warm_load")
  \/ set_count("warm_load", "warm_hlt", "armed", "warm")
  \/ walk("warm_hlt", "warm_end")

\* The first one-shot, and the hlt that waits for it.
warm_up ==
  \/ set_handlers("warm", "warm_mode", "none", "none") /\ UNCHANGED <<cal, calls>>
  \/ set_mode("warm_mode", "warm_load")
  \/ set_count("warm_load", "warm_hlt", "armed", "warm")
  \/ walk("warm_hlt", "warm_wait")

set_flag(from, to, flag) ==
  /\ Go(from, to)
  /\ on' = flag
  /\ UNCHANGED <<ivars, mach, plat, irr, isr, pit, cal, icr, seen, calls>>

\* cli at the end of pit::init; sti in processor::init.
flags == set_flag("warm_end", "sti", FALSE) \/ set_flag("sti", "cal", TRUE)

\* lapic::calibrate.  The loop tests the flag and halts in two steps.
calibrate ==
  \/ /\ set_handlers("cal", "cal_mode", "calibrate", "none")
     /\ cal' = FALSE /\ UNCHANGED calls
  \/ set_mode("cal_mode", "cal_load")
  \/ set_count("cal_load", "cal_check", "armed", "cal")
  \/ walk("cal_check", "cal_hlt") /\ ~cal
  \/ walk("cal_hlt", "cal_wait")

\* Mutation: the flag is not looked at.
calibrated_unchecked ==
  /\ Go("cal_check", "done")
  /\ plat' = [plat EXCEPT !.lapics[0] = lapic_set_mask(@, "Timer", FALSE)]
  /\ UNCHANGED <<ivars, mach, on, irr, isr, pit, cal, icr, seen, calls>>

calibrated ==
  /\ Go("cal_check", "done") /\ cal
  /\ plat' = [plat EXCEPT !.lapics[0] = lapic_set_mask(@, "Timer", FALSE)]
  /\ UNCHANGED <<ivars, mach, on, irr, isr, pit, cal, icr, seen, calls>>

-----------------------------------------------------------------------------
(* After init *)

Call(op) ==
  /\ pc = "done" /\ edit = Idle
  /\ op \in mach.ops /\ calls < mach.calls
  /\ calls' = calls + 1

driver_register(d) ==
  /\ Call("driver") /\ (register_irq_handler(d) \/ register_full(d))
  /\ UNCHANGED <<mach, pc, on, plat, irr, isr, pit, cal, icr, seen>>

driver_route(d, v) ==
  /\ Call("driver") /\ owner[v] = d /\ Routable(plat, Line[d])
  /\ plat' = route_isa_irq(plat, Line[d], v)
  /\ UNCHANGED <<ivars, mach, pc, on, irr, isr, pit, cal, icr, seen>>

driver_release(v) ==
  /\ Call("driver") /\ owner[v] \in Drivers
  /\ release_irq_handler(v)
  /\ UNCHANGED <<mach, pc, on, plat, irr, isr, pit, cal, icr, seen>>

\* A release of one of the last vectors writes behind the stubs; nothing is
\* known of the kernel from there on.
driver_release_wild(v) ==
  /\ Call("driver") /\ owner[v] \in Drivers /\ ReleasedStub(v) \notin Stubs
  /\ pc' = "corrupt"
  /\ UNCHANGED <<ivars, mach, on, plat, irr, isr, pit, cal, icr, seen>>

\* A system handler for a vector that is not taken.
kernel_system_handler(v, d) ==
  /\ Call("system") /\ register_system_handler(v, d)
  /\ UNCHANGED <<mach, pc, on, plat, irr, isr, pit, cal, icr, seen>>

\* The kernel's own use of the timer: one handler that arms the timer again, and
\* a periodic one.
kernel_timer ==
  \/ /\ Call("timer")
     /\ \/ set_handlers("done", "one_mode", "chain", "none")
        \/ set_handlers("done", "per_mode", "none", "tick")
     /\ UNCHANGED cal
  \/ set_mode("one_mode", "one_load") \/ set_count("one_load", "done", "armed", "kernel")
  \/ set_mode("per_mode", "per_load") \/ set_count("per_load", "done", "periodic", "kernel")

\* lapic::send_ipi and broadcast_ipi.  ipi: the target asked for last, -1 for a
\* broadcast; other: whether another than 0 was asked for before.
kernel_ipi(target, mode) ==
  /\ Call("ipi")
  /\ icr' = send_ipi(icr, target, mode, "fixed", 1)
  /\ seen' = [seen EXCEPT !.ipi = IF mode = "none" THEN target ELSE -1,
                          !.other = @ \/ seen.ipi > 0]
  /\ UNCHANGED <<ivars, mach, pc, on, plat, irr, isr, pit, cal>>

\* The local APIC's timer, routed to a driver's vector.
kernel_lapic_timer(v) ==
  /\ Call("lapic") /\ owner[v] \in Drivers
  /\ \/ \E msec \in {10, 10000}, repeat \in BOOLEAN :
          plat' = [plat EXCEPT !.lapics[0] = lapic_set_timer(
                     lapic_set_route(@, "Timer", v, "conform", "conform"), msec, repeat)]
     \/ plat' = [plat EXCEPT !.lapics[0] = lapic_clr_timer(@)]
  /\ UNCHANGED <<ivars, mach, pc, on, irr, isr, pit, cal, icr, seen>>

-----------------------------------------------------------------------------
Init ==
  /\ IdtInit
  /\ mach \in Machines
  /\ pc = "start" /\ on = FALSE
  /\ plat = [irqs |-> [s \in Sources |-> Fresh(s)], lapics |-> <<>>, lapic_base |-> 0,
             ioapics |-> NewIoapics(mach.madt), pic |-> "firmware", at |-> 1]
  /\ irr = {} /\ isr = {}
  /\ pit = [mode |-> "periodic", set |-> "firmware", source |-> "none",
            one_shot |-> "none", periodic |-> "none"]
  /\ cal = FALSE
  /\ icr = [hi |-> 0, lo |-> [mode |-> "none", delivery |-> "fixed", vector |-> 0]]
  /\ seen = [late |-> FALSE, woken |-> "none", by |-> "none", ran |-> {},
             ipi |-> -1, other |-> FALSE]
  /\ calls = 0

edit_step == EditStep /\ UNCHANGED bvars

\* What the processor does on its own account.
cpu ==
  \/ start_idt \/ parse \/ parse_entry \/ parse_next
  \/ lapic_fails \/ lapic_init \/ lapic_on
  \/ pit_refused \/ pit_init \/ pit_route
  \/ warm_up \/ flags \/ calibrate \/ calibrated
  \/ edit_step

kernel ==
  \/ \E d \in Drivers : driver_register(d)
  \/ \E d \in Drivers, v \in Vectors : driver_route(d, v)
  \/ \E v \in Vectors : driver_release(v) \/ driver_release_wild(v)
  \/ \E d \in Drivers, v \in Vectors : kernel_system_handler(v, d)
  \/ kernel_timer
  \/ \E target \in Targets : kernel_ipi(target, "none")
  \/ kernel_ipi(0, "all")
  \/ \E v \in Vectors : kernel_lapic_timer(v)

Next ==
  \/ cpu
  \/ kernel
  \/ pit_tick
  \/ lapic_tick
  \/ \E g \in Lines : device_edge(g)
  \/ \E v \in Vectors : deliver(v)

\* The processor executes, the controller delivers and the timer counts.
Fairness ==
  /\ WF_vars(cpu)
  /\ WF_vars(\E v \in Vectors : deliver(v))
  /\ WF_vars(pit_tick)

Spec == Init /\ [][Next]_vars /\ Fairness

-----------------------------------------------------------------------------
(* Properties *)

\* What a machine needs for the timer to reach the processor: processor ids
\* without a gap, no local NMI for the processor behind the last (acpi.cc:287),
\* all regions, and the timer's line on an IO APIC whose interrupts count from 0,
\* as ioapic::set_route (ioapic.cc:119) takes the number of the interrupt for
\* that of the pin.
Bootable(m) ==
  LET lapic == Entries(m.madt, "lapic")  ioapic == Entries(m.madt, "ioapic")
      past  == core_base(m.madt) + Cardinality(lapic)
  IN  /\ lapic # {} /\ ioapic # {}
      /\ \A j \in lapic : m.madt[j].processor < past
      /\ \A j \in Entries(m.madt, "lapicnmi") : m.madt[j].processor \notin {past} \ {255}
      /\ m.regions = {"LAPIC", "IOAPIC", "PIT"}
      /\ \E i \in ioapic : m.madt[i].base = 0 /\ Target(m.madt, 0) \in DOMAIN m.madt[i].pins

BootableMachines == {m \in Machines : Bootable(m)}

\* On such a machine, if no device that the firmware left active interferes and
\* no one-shot ends before the processor has got to its hlt, init runs to its
\* end: the timer is routed, wakes the processor twice, and each interrupt is
\* acknowledged so that the next can come.
BootCompletes ==
  (mach \in BootableMachines /\ mach.live = {} /\ []~seen.late) => <>(pc = "done")

\* No device uses what is meant for the timer: the firmware left no pin unmasked
\* with one of the first two vectors that the kernel gives away, those of the
\* spurious interrupt and the timer, and no device active on a pin that
\* ioapic::set_route may take for the timer's.
Undisturbed(m) ==
  \A i \in Entries(m.madt, "ioapic") :
    /\ m.madt[i].base + Target(m.madt, 0) \notin m.live
    /\ \A r \in DOMAIN m.madt[i].pins :
         Masked(m.madt[i].pins[r]) \/ m.madt[i].pins[r].vector \notin {VectorOf(0), VectorOf(1)}

\* On any other machine init does not get to its end: it panics, faults, or
\* halts for good in one of the two hlt; unless a device stands in for the timer.
OnlyBootable == pc = "done" /\ Undisturbed(mach) => mach \in BootableMachines

\* On a machine that is Undisturbed, the tick that ends the calibration is that of
\* the calibration's own one-shot.
\* The one exception: a tick of the firmware's programming, on its way while the
\* timer is programmed anew, ends the first hlt (pit.cc:54), the first one-shot
\* is still running, and ends the calibration before its time (lapic.cc:174).
\* And a one-shot that a one-shot handler starts has a tick, but no handler: the
\* one it set is dropped when the handler returns (pit.cc:100).
OwnTick ==
  /\ Undisturbed(mach) =>
       seen.by \in {"none", "cal"} \/ (seen.by = "warm" /\ seen.woken = "firmware")
  /\ "second" \notin seen.ran

\* A vector that the kernel has given to someone, even if it was taken back.
Given(v) == v \in Vectors /\ gate[v].to = "stub"

\* With interrupts on, every pin that lets interrupts through, and the local
\* timer, has a vector that was given to a handler before it was unmasked.  Only
\* the last pin of an IO APIC (ioapic.cc:79), and those of one whose registers
\* were not mapped, may let through what the firmware wanted.
SourcesHandled ==
  on =>
    /\ \A i \in DOMAIN plat.ioapics : \A r \in DOMAIN plat.ioapics[i].pins :
         LET pin == plat.ioapics[i].pins[r]  firmware == mach.madt[i].pins[r]
         IN  \/ Masked(pin)
             \/ Given(pin.vector)
             \/ /\ pin.vector = firmware.vector /\ ~Masked(firmware)
                /\ r + 1 \notin DOMAIN plat.ioapics[i].pins \/ "IOAPIC" \notin mach.regions
    /\ \A n \in LvtNames :
         \/ Masked(plat.lapics[0].lvt[n])
         \/ n = "Timer" /\ (plat.lapics[0].timer = "stopped"
                             \/ Given(plat.lapics[0].lvt[n].vector))

\* An interprocessor interrupt goes to the processor it is sent to, but for one
\* to APIC id 0 after one to another, which goes to that one (lapic.cc:432).
IpiReaches ==
  seen.ipi # -1 => icr.hi = seen.ipi \/ (seen.ipi = 0 /\ seen.other)

\* In whatever order the firmware lists its entries, the parser knows the global
\* interrupt of every source, and each local APIC the pin of its NMI.  A pin that
\* the tables name as an NMI source is set up as one and stays masked, if its IO
\* APIC counts from 0 and is the first that claims the interrupt; but for the last
\* pin, which is as open as the firmware left it.
PlatformAsListed ==
  pc \in {"lapic", "enable", "pit", "route"} =>
    /\ \A s \in Sources : plat.irqs[s].target = Target(mach.madt, s)
    /\ \A c \in DOMAIN plat.lapics : plat.lapics[c] # NoLapic =>
         LET i == LastOf({j \in Entries(mach.madt, "lapicnmi") :
                            mach.madt[j].processor \in {255, c + core_base(mach.madt)}})
         IN  plat.lapics[c].nmi = IF i = 0 THEN 255 ELSE mach.madt[i].lint
    /\ \A j \in Entries(mach.madt, "nmi") :
         LET g == mach.madt[j].global
         IN  (/\ g \in Sources /\ plat.irqs[g].target = g
              /\ WiredTo(g) # 0 /\ mach.madt[WiredTo(g)].base = 0
              /\ FirstServing(plat.ioapics, g) = WiredTo(g)) =>
                /\ NMI \subseteq Pin(g).bits
                /\ Masked(Pin(g)) \/ g + 1 \notin DOMAIN mach.madt[WiredTo(g)].pins
=============================================================================
