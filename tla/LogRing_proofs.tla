--------------------------- MODULE LogRing_proofs ---------------------------
(***************************************************************************)
(* Proofs about the kernel log for every ring size of at least two and any *)
(* number of CPUs.                                                         *)
(***************************************************************************)
EXTENDS LogRing, TLAPS

\* Only the holder of the lock is inside of printk.
LockHeld ==
  /\ \A cpu \in busy : lock = cpu
  /\ lock # Nobody => lock \in busy

\* The inductive invariant.
IInv == TypeOK /\ LockHeld /\ MessageUnbroken /\ PortAllOrNothing

\* The indices stay in the buffer, which never counts as full by accident.
LEMMA CountType ==
  ASSUME TypeOK
  PROVE  /\ Count \in 0 .. Size - 1
         /\ \A k \in 1 .. Count : Slot(k) \in 0 .. Size - 1 /\ Slot(k) # in
BY SizeAssumption DEF TypeOK, Count, Slot

\* The same arithmetic, for any two indices.
LEMMA RingArith ==
  ASSUME NEW i \in 0 .. Size - 1, NEW o \in 0 .. Size - 1
  PROVE  /\ (IF i >= o THEN i - o ELSE i - o + Size) \in 0 .. Size - 1
         /\ \A k \in 1 .. Size - 1 :
              (IF o + k - 1 < Size THEN o + k - 1 ELSE o + k - 1 - Size) \in 0 .. Size - 1
BY SizeAssumption

\* CountType for the indices after a step.
LEMMA CountTypeNext ==
  ASSUME TypeOK'
  PROVE  /\ Count' \in 0 .. Size - 1
         /\ \A k \in 1 .. Count' : Slot(k)' \in 0 .. Size - 1
<1>1. in' \in 0 .. Size - 1 /\ out' \in 0 .. Size - 1
  BY DEF TypeOK
<1>2. Count' \in 0 .. Size - 1
  BY <1>1, RingArith DEF Count
<1>3. ASSUME NEW k \in 1 .. Count' PROVE Slot(k)' \in 0 .. Size - 1
  <2>1. k \in 1 .. Size - 1
    BY <1>2, SizeAssumption
  <2>2. QED
    BY <1>1, <2>1, RingArith DEF Slot
<1>4. QED
  BY <1>2, <1>3

\* What one character does to the ring.  A ring with room grows by one; a full
\* ring shifts by one.
LEMMA StoreStep ==
  ASSUME TypeOK, NEW ch \in Char, Store(ch)
  PROVE  /\ in' \in 0 .. Size - 1 /\ out' \in 0 .. Size - 1
         /\ data' \in [0 .. Size - 1 -> Char]
         /\ Count < Size - 1 =>
              /\ Count' = Count + 1
              /\ \A k \in 1 .. Count : data'[Slot(k)'] = data[Slot(k)]
         /\ Count >= Size - 1 =>
              /\ Count' = Count
              /\ \A k \in 1 .. Count - 1 : data'[Slot(k)'] = data[Slot(k + 1)]
         /\ data'[Slot(Count)'] = ch
<1>1. /\ in' \in 0 .. Size - 1 /\ out' \in 0 .. Size - 1
      /\ data' \in [0 .. Size - 1 -> Char]
      /\ data'[in] = ch /\ \A i \in 0 .. Size - 1 : i # in => data'[i] = data[i]
  BY SizeAssumption DEF TypeOK, Store, Wrap
<1>2. Count \in 0 .. Size - 1
      /\ \A k \in 1 .. Count : Slot(k) \in 0 .. Size - 1 /\ Slot(k) # in
  BY CountType
<1>3. CASE Count < Size - 1
  <2>1. out' = out /\ Count' = Count + 1
    BY <1>3, SizeAssumption DEF TypeOK, Store, Wrap, Count
  <2>2. \A k \in 1 .. Count : Slot(k)' = Slot(k)
    BY <2>1 DEF Slot
  <2>3. Slot(Count)' = in
    BY <2>1, SizeAssumption DEF TypeOK, Slot, Count
  <2>4. \A k \in 1 .. Count : data'[Slot(k)'] = data[Slot(k)]
    BY <1>1, <1>2, <2>2
  <2>5. data'[Slot(Count)'] = ch
    BY <1>1, <2>3
  <2>6. QED
    BY <1>1, <1>3, <2>1, <2>4, <2>5, SizeAssumption, CountType
<1>4. CASE Count >= Size - 1
  <2>1. Count' = Count /\ Count = Size - 1
    BY <1>4, SizeAssumption DEF TypeOK, Store, Wrap, Count
  <2>2. \A k \in 1 .. Count - 1 : Slot(k)' = Slot(k + 1)
    BY <1>4, SizeAssumption DEF TypeOK, Store, Wrap, Count, Slot
  <2>3. Slot(Count)' = in
    BY <1>4, <2>1, SizeAssumption DEF TypeOK, Store, Wrap, Count, Slot
  <2>4. \A k \in 1 .. Count - 1 : data'[Slot(k)'] = data[Slot(k + 1)]
    <3>1. TAKE k \in 1 .. Count - 1
    <3>2. k + 1 \in 1 .. Count
      BY <1>2
    <3>3. QED
      BY <1>1, <1>2, <2>2, <3>2
  <2>5. data'[Slot(Count)'] = ch
    BY <1>1, <2>3
  <2>6. QED
    BY <1>1, <1>4, <2>1, <2>4, <2>5, SizeAssumption, CountType
<1>5. QED
  BY <1>2, <1>3, <1>4, SizeAssumption

-----------------------------------------------------------------------------
(* The invariant *)

\* The state init_printk leaves behind satisfies the invariant.
LEMMA InitIInv == Init => IInv
BY SizeAssumption, MsgAssumption, NobodyAssumption
   DEF Init, IInv, TypeOK, LockHeld, MessageUnbroken, PortAllOrNothing, Char

\* A character of the lock holder keeps its message in one piece.
LEMMA EmitStep ==
  ASSUME IInv, NEW cpu \in CPUs, emit(cpu)
  PROVE  IInv'
<1>1. lock = cpu /\ busy = {cpu}
  BY DEF IInv, LockHeld, emit
<1>2. TypeOK /\ cpu \in Char /\ Store(cpu)
  BY DEF IInv, emit, Char
<1>3. /\ in' \in 0 .. Size - 1 /\ out' \in 0 .. Size - 1
      /\ data' \in [0 .. Size - 1 -> Char]
      /\ Count < Size - 1 =>
           /\ Count' = Count + 1
           /\ \A k \in 1 .. Count : data'[Slot(k)'] = data[Slot(k)]
      /\ Count >= Size - 1 =>
           /\ Count' = Count
           /\ \A k \in 1 .. Count - 1 : data'[Slot(k)'] = data[Slot(k + 1)]
      /\ data'[Slot(Count)'] = cpu
  BY <1>2, StoreStep
<1>4. TypeOK'
  <2>1. /\ in' \in 0 .. Size - 1 /\ out' \in 0 .. Size - 1
        /\ data' \in [0 .. Size - 1 -> Char]
    BY <1>3
  <2>2. lock' = lock /\ callback' = callback /\ busy' = busy
    BY DEF emit
  <2>3. left' \in [CPUs -> 0 .. MaxMsg]
    <3>1. left[cpu] \in 0 .. MaxMsg /\ left[cpu] > 0
      BY <1>2 DEF TypeOK, emit
    <3>2. left[cpu] - 1 \in 0 .. MaxMsg
      BY <3>1, MsgAssumption
    <3>3. QED
      BY <1>2, <3>2 DEF TypeOK, emit
  <2>4. sent' \in [CPUs -> Nat]
    BY <1>2 DEF TypeOK, emit
  <2>5. port' \in [CPUs -> Nat]
    BY <1>2 DEF TypeOK, emit
  <2>6. QED
    BY <1>2, <2>1, <2>2, <2>3, <2>4, <2>5 DEF TypeOK
<1>5. LockHeld' /\ PortAllOrNothing'
  <2>1. LockHeld'
    BY DEF IInv, LockHeld, emit
  <2>2. PortAllOrNothing'
    BY <1>1 DEF IInv, TypeOK, PortAllOrNothing, emit
  <2>3. QED
    BY <2>1, <2>2
<1>6. MessageUnbroken'
  <2>1. sent[cpu] \in Nat /\ sent'[cpu] = sent[cpu] + 1 /\ busy' = {cpu}
    BY <1>1 DEF IInv, TypeOK, emit
  <2>2. \A k \in 1 .. Count : k > Count - sent[cpu] => data[Slot(k)] = cpu
    BY <1>1 DEF IInv, MessageUnbroken, Contents
  <2>3. Count \in 0 .. Size - 1 /\ Count' \in 0 .. Size - 1
    BY <1>2, <1>4, CountType, CountTypeNext
  <2>4. ASSUME NEW k \in 1 .. Count', k > Count' - sent'[cpu]
        PROVE  data'[Slot(k)'] = cpu
    <3>1. CASE k = Count'
      BY <1>3, <3>1 DEF Slot
    <3>2. CASE k # Count' /\ Count < Size - 1
      BY <1>3, <2>1, <2>2, <2>3, <2>4, <3>2, SizeAssumption
    <3>3. CASE k # Count' /\ Count >= Size - 1
      <4>1. k \in 1 .. Count - 1 /\ k + 1 \in 1 .. Count /\ k + 1 > Count - sent[cpu]
        BY <1>3, <2>1, <2>3, <2>4, <3>3, SizeAssumption
      <4>2. QED
        BY <1>3, <2>2, <3>3, <4>1
    <3>4. QED
      BY <2>3, <3>1, <3>2, <3>3, SizeAssumption
  <2>5. \A k \in 1 .. Count' : Contents'[k] = data'[Slot(k)']
    BY DEF Contents
  <2>6. QED
    BY <2>1, <2>4, <2>5 DEF MessageUnbroken
<1>7. QED
  BY <1>4, <1>5, <1>6 DEF IInv

\* Every step of printk.cc preserves the invariant.
LEMMA NextIInv == IInv /\ [Next]_vars => IInv'
<1> SUFFICES ASSUME IInv, [Next]_vars PROVE IInv'
  OBVIOUS
<1>0. ASSUME UNCHANGED <<data, in, out>> PROVE Contents' = Contents /\ Count' = Count
  BY <1>0 DEF Contents, Count, Slot
<1>1. ASSUME NEW cpu \in CPUs, NEW n \in 0 .. MaxMsg, printk(cpu, n) PROVE IInv'
  <2>1. lock = Nobody /\ busy = {} /\ busy' = {cpu} /\ lock' = cpu
    BY <1>1, NobodyAssumption DEF IInv, LockHeld, printk, TakeLock, TypeOK
  <2>2. TypeOK' /\ sent'[cpu] = 0 /\ port'[cpu] = 0
    BY <1>1, <2>1 DEF IInv, TypeOK, printk
  <2>3. LockHeld' /\ PortAllOrNothing'
    BY <2>1, <2>2 DEF LockHeld, PortAllOrNothing
  <2>4. Count' \in Nat
    BY <2>2, CountTypeNext, SizeAssumption
  <2>5. MessageUnbroken'
    BY <2>1, <2>2, <2>4 DEF MessageUnbroken
  <2>6. QED
    BY <2>2, <2>3, <2>5 DEF IInv
<1>2. ASSUME NEW cpu \in CPUs, emit(cpu) PROVE IInv'
  BY <1>2, EmitStep
<1>3. ASSUME NEW cpu \in CPUs, printk_return(cpu) PROVE IInv'
  <2>1. busy' = {} /\ lock' = Nobody
    BY <1>3 DEF IInv, LockHeld, printk_return
  <2>2. QED
    BY <1>3, <2>1 DEF IInv, TypeOK, LockHeld, MessageUnbroken, PortAllOrNothing, printk_return
<1>4. ASSUME NEW cpu \in CPUs, NEW cb \in {"emit", "emit_early_debug"},
             set_callback(cpu, cb)
      PROVE  IInv'
  <2>1. busy = {} /\ busy' = {} /\ lock' = lock
    BY <1>4, NobodyAssumption DEF IInv, LockHeld, TypeOK, set_callback
  <2>2. QED
    BY <1>4, <2>1 DEF IInv, TypeOK, LockHeld, MessageUnbroken, PortAllOrNothing, set_callback
<1>5. CASE UNCHANGED vars
  <2>1. MessageUnbroken'
    BY <1>0, <1>5 DEF vars, IInv, MessageUnbroken
  <2>2. QED
    BY <1>5, <2>1 DEF vars, IInv, TypeOK, LockHeld, PortAllOrNothing
<1>6. QED
  BY <1>1, <1>2, <1>3, <1>4, <1>5 DEF Next

\* The inductive invariant holds in every state printk.cc can reach.
THEOREM LogRingInvariant == Spec => []IInv
<1>1. Init => IInv
  BY InitIInv
<1>2. IInv /\ [Next]_vars => IInv'
  BY NextIInv
<1>3. QED
  BY <1>1, <1>2, PTL DEF Spec

\* Both indices stay inside of the buffer.
THEOREM LogRingTypes == Spec => []TypeOK
<1>1. IInv => TypeOK
  BY DEF IInv
<1>2. QED
  BY <1>1, LogRingInvariant, PTL

\* printk's lock keeps messages in one piece.
THEOREM LogRingUnbroken == Spec => []MessageUnbroken
<1>1. IInv => MessageUnbroken
  BY DEF IInv
<1>2. QED
  BY <1>1, LogRingInvariant, PTL

\* The callback never changes in the middle of a message.
THEOREM LogRingPort == Spec => []PortAllOrNothing
<1>1. IInv => PortAllOrNothing
  BY DEF IInv
<1>2. QED
  BY <1>1, LogRingInvariant, PTL

-----------------------------------------------------------------------------
(* The ring implements the bounded log *)

\* What lies between the indices is a sequence of Count characters.
LEMMA ContentsSeq ==
  ASSUME TypeOK
  PROVE  Contents \in Seq(Char) /\ Len(Contents) = Count
<1>1. Count \in Nat /\ \A k \in 1 .. Count : data[Slot(k)] \in Char
  BY CountType, SizeAssumption DEF TypeOK
<1>2. QED
  BY <1>1 DEF Contents

\* The zeroed ring is the empty log.
LEMMA InitLog == Init => Log!Init
BY SizeAssumption DEF Init, Log!Init, Contents, Count

\* Every step of printk.cc is a Write of one character or leaves the log alone.
LEMMA NextLog == IInv /\ [Next]_vars => [Log!Next]_Contents
<1> SUFFICES ASSUME IInv, [Next]_vars PROVE [Log!Next]_Contents
  OBVIOUS
<1>1. ASSUME UNCHANGED <<data, in, out>> PROVE Contents' = Contents
  BY <1>1 DEF Contents, Count, Slot
<1>2. ASSUME NEW cpu \in CPUs, emit(cpu) PROVE Log!Write(cpu)
  <2>1. TypeOK /\ cpu \in Char /\ Store(cpu) /\ TypeOK'
    <3>1. IInv'
      BY <1>2, EmitStep
    <3>2. QED
      BY <1>2, <3>1 DEF IInv, emit, Char
  <2>2. Contents \in Seq(Char) /\ Len(Contents) = Count
    BY <2>1, ContentsSeq
  <2>3. (Contents \in Seq(Char) /\ Len(Contents) = Count)'
    <3>1. Count' \in Nat /\ \A k \in 1 .. Count' : Slot(k)' \in 0 .. Size - 1
      BY <2>1, CountTypeNext, SizeAssumption
    <3>2. (\A k \in 1 .. Count : data[Slot(k)] \in Char)'
      BY <2>1, <3>1 DEF TypeOK
    <3>3. QED
      BY <3>1, <3>2 DEF Contents
  <2>4. /\ Count < Size - 1 =>
             /\ Count' = Count + 1
             /\ \A k \in 1 .. Count : data'[Slot(k)'] = data[Slot(k)]
        /\ Count >= Size - 1 =>
             /\ Count' = Count
             /\ \A k \in 1 .. Count - 1 : data'[Slot(k)'] = data[Slot(k + 1)]
        /\ data'[Slot(Count)'] = cpu
        /\ Count \in 0 .. Size - 1
    BY <2>1, StoreStep, CountType
  <2>5. \A k \in 1 .. Count : Contents[k] = data[Slot(k)]
    BY DEF Contents
  <2>6. \A k \in 1 .. Count' : Contents'[k] = data'[Slot(k)']
    BY DEF Contents
  <2>7. Contents'[Count'] = cpu
    BY <2>3, <2>4, <2>6, SizeAssumption DEF Slot
  <2>8. CASE Count < Size - 1
    <3>1. Len(Append(Contents, cpu)) = Count'
          /\ Append(Contents, cpu) \in Seq(Char)
      BY <2>1, <2>2, <2>4, <2>8
    <3>2. \A k \in 1 .. Count' : Append(Contents, cpu)[k] = Contents'[k]
      BY <2>1, <2>2, <2>4, <2>5, <2>6, <2>7, <2>8
    <3>3. Contents' = Append(Contents, cpu)
      BY <2>3, <3>1, <3>2
    <3>4. QED
      BY <2>2, <2>8, <3>3 DEF Log!Write
  <2>9. CASE Count >= Size - 1
    <3> DEFINE rest == Tail(Contents)
    <3>1. /\ rest \in Seq(Char) /\ Len(rest) = Count - 1
          /\ \A k \in 1 .. Count - 1 : rest[k] = Contents[k + 1]
      BY <2>2, <2>4, <2>9, SizeAssumption
    <3> HIDE DEF rest
    <3>2. Len(Append(rest, cpu)) = Count' /\ Append(rest, cpu) \in Seq(Char)
      BY <2>1, <2>4, <2>9, <3>1, SizeAssumption
    <3>3. \A k \in 1 .. Count' : Append(rest, cpu)[k] = Contents'[k]
      <4>1. TAKE k \in 1 .. Count'
      <4>2. CASE k = Count'
        BY <2>1, <2>4, <2>7, <2>9, <3>1, <4>2, SizeAssumption
      <4>3. CASE k # Count'
        <5>1. k \in 1 .. Count - 1 /\ k + 1 \in 1 .. Count
          BY <2>4, <2>9, <4>3
        <5>2. Append(rest, cpu)[k] = Contents[k + 1]
          BY <2>1, <3>1, <5>1
        <5>3. Contents'[k] = Contents[k + 1]
          BY <2>4, <2>5, <2>6, <2>9, <5>1
        <5>4. QED
          BY <5>2, <5>3
      <4>4. QED
        BY <4>2, <4>3
    <3>4. Contents' = Append(rest, cpu)
      BY <2>3, <3>2, <3>3
    <3>5. QED
      BY <2>2, <2>9, <2>4, <3>4, SizeAssumption DEF Log!Write, rest
  <2>10. QED
    BY <2>4, <2>8, <2>9, SizeAssumption
<1>3. CASE \E cpu \in CPUs : emit(cpu)
  BY <1>2, <1>3 DEF Log!Next, Char
<1>4. CASE ~\E cpu \in CPUs : emit(cpu)
  BY <1>1, <1>4 DEF Next, vars, printk, printk_return, set_callback
<1>5. QED
  BY <1>3, <1>4

\* logring always holds the newest Size - 1 characters, oldest first.
THEOREM LogRingRefines == Spec => ImplementsLog
<1>1. Init => Log!Init
  BY InitLog
<1>2. IInv /\ [Next]_vars => [Log!Next]_Contents
  BY NextLog
<1>3. QED
  BY <1>1, <1>2, LogRingInvariant, PTL DEF Spec, ImplementsLog, Log!Spec
=============================================================================
