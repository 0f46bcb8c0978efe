------------------------------- MODULE LogRing ------------------------------
(***************************************************************************)
(* The kernel log, src/kernel/log/printk.cc: a ring buffer that all CPUs   *)
(* write through printk, under a spin lock (src/kernel/include/hotarubi/   *)
(* lock.h).  Nobody reads the ring yet; what a reader would find between   *)
(* "out" and "in" is Contents.                                             *)
(*                                                                         *)
(* A message is the number of characters that _vcbprintf passes to the     *)
(* callback; each character is represented by the CPU that printed it.     *)
(***************************************************************************)
EXTENDS Integers, Sequences

CONSTANTS
  CPUs,
  Size,     \* logring.len
  MaxMsg,   \* bound: the longest message
  Nobody,   \* an open lock
  Zero      \* the character init_printk fills the buffer with

ASSUME SizeAssumption == Size \in Nat /\ Size >= 2
ASSUME MsgAssumption  == MaxMsg \in Nat
ASSUME NobodyAssumption == Nobody \notin CPUs

VARIABLES
  data, in, out,  \* logring.data, logring.in, logring.out
  lock,           \* logring.lock: its holder
  callback,       \* "emit" or "emit_early_debug"
  busy,           \* the CPUs between lock() and unlock() of printk
  left,           \* per CPU: characters of its message still to come
  sent,           \* per CPU: characters of its message in the ring
  port            \* per CPU: characters of its message sent to port 0xe9

vars == <<data, in, out, lock, callback, busy, left, sent, port>>

Char == CPUs \cup {Zero}

-----------------------------------------------------------------------------
(* The ring *)

\* Mutation: the index is reset one character late.
WrapLate(i) == IF i > Size THEN 0 ELSE i

\* The index updates of emit start over at the end of the buffer.
Wrap(i) == IF i >= Size THEN 0 ELSE i

\* Mutation: the oldest character is not dropped when the ring is full.
StoreNoDrop(ch) ==
  /\ data' = [data EXCEPT ![in] = ch]
  /\ in' = Wrap(in + 1)
  /\ out' = out

\* The body of emit's loop.
Store(ch) ==
  /\ data' = [data EXCEPT ![in] = ch]
  /\ in' = Wrap(in + 1)
  /\ out' = IF out = in' THEN Wrap(out + 1) ELSE out

\* What lies between out and in.
Count    == IF in >= out THEN in - out ELSE in - out + Size
Slot(k)  == IF out + k - 1 < Size THEN out + k - 1 ELSE out + k - 1 - Size
Contents == [k \in 1 .. Count |-> data[Slot(k)]]

-----------------------------------------------------------------------------
(* printk *)

\* Mutation: printk does not wait for the lock.
TakeLockUnguarded(cpu) == lock' = cpu

\* spin_lock::lock: the CPU spins until test_and_set finds the flag clear.
TakeLock(cpu) == lock = Nobody /\ lock' = cpu

\* The lock is taken and a message of n characters is formatted.
printk(cpu, n) ==
  /\ cpu \notin busy
  /\ TakeLock(cpu)
  /\ busy' = busy \cup {cpu}
  /\ left' = [left EXCEPT ![cpu] = n]
  /\ sent' = [sent EXCEPT ![cpu] = 0]
  /\ port' = [port EXCEPT ![cpu] = 0]
  /\ UNCHANGED <<data, in, out, callback>>

\* Mutation: emit waits for room instead of dropping the oldest character.
emit_waits(cpu) ==
  /\ cpu \in busy /\ left[cpu] > 0
  /\ IF Wrap(in + 1) = out
     THEN UNCHANGED vars
     ELSE /\ Store(cpu)
          /\ left' = [left EXCEPT ![cpu] = @ - 1]
          /\ sent' = [sent EXCEPT ![cpu] = @ + 1]
          /\ port' = [port EXCEPT ![cpu] = IF callback = "emit_early_debug" THEN @ + 1 ELSE @]
          /\ UNCHANGED <<lock, callback, busy>>

\* One character of the message: emit, or emit_early_debug, which copies it to
\* the debug port first.
emit(cpu) ==
  /\ cpu \in busy /\ left[cpu] > 0
  /\ Store(cpu)
  /\ left' = [left EXCEPT ![cpu] = @ - 1]
  /\ sent' = [sent EXCEPT ![cpu] = @ + 1]
  /\ port' = [port EXCEPT ![cpu] = IF callback = "emit_early_debug" THEN @ + 1 ELSE @]
  /\ UNCHANGED <<lock, callback, busy>>

\* The message is complete: the lock is opened and printk returns.
printk_return(cpu) ==
  /\ cpu \in busy /\ left[cpu] = 0
  /\ busy' = busy \ {cpu}
  /\ lock' = Nobody
  /\ UNCHANGED <<data, in, out, callback, left, sent, port>>

\* Mutation: the callback is switched without taking the lock.
set_callback_unlocked(cpu, cb) ==
  /\ cpu \notin busy
  /\ callback' = cb
  /\ UNCHANGED <<data, in, out, lock, busy, left, sent, port>>

\* register_debug_output and unregister_debug_output lock, set and unlock.
set_callback(cpu, cb) ==
  /\ cpu \notin busy /\ lock = Nobody
  /\ callback' = cb
  /\ UNCHANGED <<data, in, out, lock, busy, left, sent, port>>

-----------------------------------------------------------------------------
\* init_printk.
Init ==
  /\ data = [i \in 0 .. Size - 1 |-> Zero]
  /\ in = 0 /\ out = 0
  /\ lock = Nobody
  /\ callback = "emit"
  /\ busy = {}
  /\ left = [cpu \in CPUs |-> 0]
  /\ sent = [cpu \in CPUs |-> 0]
  /\ port = [cpu \in CPUs |-> 0]

Next ==
  \E cpu \in CPUs :
    \/ \E n \in 0 .. MaxMsg : printk(cpu, n)
    \/ emit(cpu)
    \/ printk_return(cpu)
    \/ set_callback(cpu, "emit_early_debug")
    \/ set_callback(cpu, "emit")

Spec == Init /\ [][Next]_vars

\* A CPU inside of printk keeps running.
FairSpec == Spec /\ \A cpu \in CPUs : WF_vars(emit(cpu) \/ printk_return(cpu))

-----------------------------------------------------------------------------
(* Properties *)

\* Every variable has its type; emit leaves both indices inside of the buffer.
TypeOK ==
  /\ data \in [0 .. Size - 1 -> Char]
  /\ in \in 0 .. Size - 1 /\ out \in 0 .. Size - 1
  /\ lock \in CPUs \cup {Nobody}
  /\ callback \in {"emit", "emit_early_debug"}
  /\ busy \subseteq CPUs
  /\ left \in [CPUs -> 0 .. MaxMsg]
  /\ sent \in [CPUs -> Nat]
  /\ port \in [CPUs -> Nat]

\* The ring implements the bounded log: it always holds the newest Size - 1
\* characters in order, across every wrap of the two indices.
Log == INSTANCE BoundedLog WITH tail <- Contents, Bound <- Size - 1
ImplementsLog == Log!Spec

\* Messages of different CPUs do not mix: while a CPU prints, the newest
\* characters of the log are those it has printed so far.
MessageUnbroken ==
  \A cpu \in busy :
    \A k \in 1 .. Count : k > Count - sent[cpu] => Contents[k] = cpu

\* The debug port gets a message as a whole or not at all: the callback does
\* not change under a message that is being printed.
PortAllOrNothing ==
  \A cpu \in busy : port[cpu] = IF callback = "emit_early_debug" THEN sent[cpu] ELSE 0

\* printk gives the lock back: no CPU keeps the others from logging for good.
LockReleased == \A cpu \in CPUs : lock = cpu ~> lock # cpu
=============================================================================
