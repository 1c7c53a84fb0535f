------------------------- MODULE EventQueue_proofs -------------------------
(***************************************************************************)
(* Proofs about the ring buffer, for every capacity and every set of       *)
(* events: its typing, the consistency of its two indices with its         *)
(* counter, and that it implements the bounded FIFO.                       *)
(***************************************************************************)
EXTENDS EventQueue, SequenceTheorems, TLAPS

-----------------------------------------------------------------------------
(* Arithmetic of the ring *)

\* A sum of two indices of a ring of c slots wraps at most once.
LEMMA ModuloOneWrap ==
  ASSUME NEW c \in Nat \ {0}, NEW x \in 0 .. 2 * c - 1
  PROVE  x % c = IF x < c THEN x ELSE x - c
<1>1. CASE x < c
  BY <1>1, SMT
<1>2. CASE x >= c
  <2>1. x % c \in 0 .. c - 1
    BY SMT
  <2>2. x = c * (x \div c) + (x % c)
    BY SMT
  <2> QED
    BY <1>2, <2>1, <2>2, SMT
<1> QED
  BY <1>1, <1>2, SMT

\* An offset into the ring wraps at most once.
LEMMA RingStep ==
  ASSUME NEW c \in Nat \ {0}, NEW h \in 0 .. c - 1, NEW k \in 0 .. c
  PROVE  (h + k) % c = IF h + k < c THEN h + k ELSE h + k - c
<1> DEFINE x == h + k
<1>1. x \in 0 .. 2 * c - 1
  BY SMT
<1>2. x % c = IF x < c THEN x ELSE x - c
  <2> HIDE DEF x
  <2> QED
    BY <1>1, ModuloOneWrap
<1> QED
  BY <1>2

\* The slot of the i-th oldest event, and the slot after a slot, without the
\* modulo: what the proofs below compute with.
LEMMA SlotOfUnwrapped ==
  ASSUME Capacity > 0, head \in Slot, NEW i \in 1 .. Capacity + 1
  PROVE  SlotOf(i) = IF head + i - 1 < Capacity
                       THEN head + i - 1 ELSE head + i - 1 - Capacity
<1>1. head + (i - 1) \in 0 .. 2 * Capacity - 1
  BY CapacityAssumption, SMT DEF Slot
<1> QED
  BY <1>1, ModuloOneWrap, CapacityAssumption, SMT DEF SlotOf, Slot

\* The slot after a slot, without the modulo.
LEMMA NextSlotUnwrap ==
  ASSUME Capacity > 0, NEW i \in Slot
  PROVE  /\ NextSlot(i) = IF i = Capacity - 1 THEN 0 ELSE i + 1
         /\ NextSlot(i) \in Slot
<1>1. i + 1 \in 0 .. 2 * Capacity - 1
  BY CapacityAssumption, SMT DEF Slot
<1> QED
  BY <1>1, ModuloOneWrap, CapacityAssumption, SMT DEF NextSlot, Slot

-----------------------------------------------------------------------------
(* Invariance *)

IInv == TypeOK /\ RingConsistent

\* The invariant holds of the queue as constructed.
LEMMA InitInvariant == Init => IInv
<1> SUFFICES ASSUME Init PROVE IInv
  OBVIOUS
<1>1. TypeOK
  BY CapacityAssumption, SMT DEF Init, TypeOK, Slot
<1>2. Capacity > 0 => tail = (head + count) % Capacity
  <2> SUFFICES ASSUME Capacity > 0 PROVE 0 = 0 % Capacity
    BY DEF Init
  <2> QED
    BY ModuloOneWrap, CapacityAssumption, SMT
<1>3. ASSUME NEW i \in 1 .. Capacity
      PROVE  (buffer[SlotOf(i)] \in Event) <=> i <= count
  <2>1. Capacity > 0 /\ head \in Slot
    BY <1>3, CapacityAssumption, SMT DEF Init, Slot
  <2>2. SlotOf(i) \in Slot
    BY <2>1, SlotOfUnwrapped, CapacityAssumption, SMT DEF Slot
  <2> QED
    BY <2>2, EventAssumption, SMT DEF Init
<1> QED
  BY <1>1, <1>2, <1>3 DEF IInv, RingConsistent

\* tail, as the invariant gives it, without the modulo.
LEMMA TailUnwrapped ==
  ASSUME IInv, Capacity > 0
  PROVE  tail = IF head + count < Capacity
                  THEN head + count ELSE head + count - Capacity
<1>1. Capacity \in Nat \ {0} /\ head \in 0 .. Capacity - 1 /\ count \in 0 .. Capacity
  BY CapacityAssumption, SMT DEF IInv, TypeOK, Slot
<1>2. (head + count) % Capacity = IF head + count < Capacity
        THEN head + count ELSE head + count - Capacity
  BY <1>1, RingStep, Zenon
<1> QED
  BY <1>2 DEF IInv, RingConsistent

\* push() fills the slot just after the region that holds the queued events.
LEMMA PushInvariant ==
  ASSUME IInv, NEW e \in Event, Push(e)
  PROVE  IInv'
<1>1. Capacity > 0 /\ head \in Slot /\ tail \in Slot /\ count \in 0 .. Capacity - 1
  BY CapacityAssumption, SMT DEF IInv, TypeOK, Push, Slot
<1>2. head' = head /\ count' = count + 1 /\ tail' = NextSlot(tail) /\ tail' \in Slot
  BY <1>1, NextSlotUnwrap DEF Push
<1>3. TypeOK'
  <2>1. buffer' \in [Slot -> Event \cup {MovedFrom}]
    BY <1>1 DEF IInv, TypeOK, Push
  <2>2. peak' \in count' .. Capacity /\ count' \in 0 .. Capacity
    BY <1>1, CapacityAssumption, SMT DEF IInv, TypeOK, Push
  <2> QED
    BY <1>1, <1>2, <2>1, <2>2, CapacityAssumption, SMT DEF IInv, TypeOK, Push, Slot
<1>4. tail' = (head' + count') % Capacity
  <2>1. head + count + 1 \in 0 .. 2 * Capacity - 1
    BY <1>1, CapacityAssumption, SMT DEF Slot
  <2>2. (head + (count + 1)) % Capacity = IF head + count + 1 < Capacity
           THEN head + count + 1 ELSE head + count + 1 - Capacity
    BY <1>1, <2>1, ModuloOneWrap, CapacityAssumption, SMT DEF Slot
  <2> QED
    BY <1>1, <1>2, <2>2, TailUnwrapped, NextSlotUnwrap, CapacityAssumption, SMT DEF Slot
<1>5. ASSUME NEW i \in 1 .. Capacity
      PROVE  (buffer'[SlotOf(i)'] \in Event) <=> i <= count'
  <2>1. SlotOf(i)' = SlotOf(i) /\ SlotOf(i) \in Slot
    BY <1>1, <1>2, SlotOfUnwrapped, CapacityAssumption, SMT DEF Slot, SlotOf
  <2>2. (SlotOf(i) = tail) <=> (i = count + 1)
    BY <1>1, SlotOfUnwrapped, TailUnwrapped, CapacityAssumption, SMT DEF Slot
  <2>3. (buffer[SlotOf(i)] \in Event) <=> i <= count
    BY DEF IInv, RingConsistent
  <2>4. buffer' = [buffer EXCEPT ![tail] = e] /\ DOMAIN buffer = Slot
    BY DEF Push, IInv, TypeOK
  <2>5. CASE i = count + 1
    BY <1>1, <1>2, <2>1, <2>2, <2>4, <2>5, SMT
  <2>6. CASE i # count + 1
    <3>1. buffer'[SlotOf(i)'] = buffer[SlotOf(i)]
      BY <2>1, <2>2, <2>4, <2>6
    <3> QED
      BY <1>1, <1>2, <2>3, <2>6, <3>1, SMT
  <2> QED
    BY <2>5, <2>6
<1> QED
  BY <1>3, <1>4, <1>5 DEF IInv, RingConsistent

\* pop() empties the first slot of the region and moves the region's start.
LEMMA PopInvariant ==
  ASSUME IInv, Pop
  PROVE  /\ IInv'
         /\ \A i \in 1 .. count - 1 : Contents'[i] = Contents[i + 1]
<1>1. Capacity > 0 /\ head \in Slot /\ tail \in Slot /\ count \in 1 .. Capacity
  BY CapacityAssumption, SMT DEF IInv, TypeOK, Pop, Slot
<1>2. head' = NextSlot(head) /\ head' \in Slot /\ count' = count - 1 /\ tail' = tail
  BY <1>1, NextSlotUnwrap DEF Pop
<1>3. SlotOf(1) = head /\ buffer[head] \in Event
  BY <1>1, SlotOfUnwrapped, CapacityAssumption, SMT DEF Slot, IInv, RingConsistent
<1>4. TypeOK'
  <2>1. buffer' \in [Slot -> Event \cup {MovedFrom}]
    BY <1>1 DEF IInv, TypeOK, Pop
  <2>2. peak' \in count' .. Capacity /\ count' \in 0 .. Capacity
    BY <1>1, CapacityAssumption, SMT DEF IInv, TypeOK, Pop
  <2> QED
    BY <1>1, <1>2, <1>3, <2>1, <2>2, CapacityAssumption, SMT DEF IInv, TypeOK, Pop, Slot
<1>5. tail' = (head' + count') % Capacity
  <2>1. Capacity \in Nat \ {0} /\ head' \in 0 .. Capacity - 1 /\ count' \in 0 .. Capacity
    BY <1>1, <1>2, CapacityAssumption, SMT DEF Slot
  <2>2. (head' + count') % Capacity = IF head' + count' < Capacity
           THEN head' + count' ELSE head' + count' - Capacity
    BY <2>1, RingStep, Zenon
  <2> QED
    BY <1>1, <1>2, <2>2, TailUnwrapped, NextSlotUnwrap, CapacityAssumption, SMT DEF Slot
<1>6. ASSUME NEW i \in 1 .. Capacity
      PROVE  /\ i < Capacity => SlotOf(i)' = SlotOf(i + 1)
             /\ SlotOf(Capacity)' = head
  <2>1. SlotOf(i)' = IF head' + i - 1 < Capacity
                       THEN head' + i - 1 ELSE head' + i - 1 - Capacity
    <3>1. head' + (i - 1) \in 0 .. 2 * Capacity - 1
      BY <1>1, <1>2, CapacityAssumption, SMT DEF Slot
    <3> QED
      BY <1>1, <1>2, <3>1, ModuloOneWrap, CapacityAssumption, SMT DEF SlotOf, Slot
  <2>2. SlotOf(Capacity)' = IF head' + Capacity - 1 < Capacity
                       THEN head' + Capacity - 1 ELSE head' + Capacity - 1 - Capacity
    <3>1. head' + (Capacity - 1) \in 0 .. 2 * Capacity - 1
      BY <1>1, <1>2, CapacityAssumption, SMT DEF Slot
    <3> QED
      BY <1>1, <1>2, <3>1, ModuloOneWrap, CapacityAssumption, SMT DEF SlotOf, Slot
  <2> QED
    BY <1>1, <1>2, <2>1, <2>2, SlotOfUnwrapped, NextSlotUnwrap, CapacityAssumption, SMT DEF Slot
<1>7. ASSUME NEW i \in 1 .. Capacity, i < Capacity
      PROVE  buffer'[SlotOf(i)'] = buffer[SlotOf(i + 1)]
  <2>1. SlotOf(i + 1) \in Slot /\ SlotOf(i + 1) # head
    BY <1>1, <1>7, SlotOfUnwrapped, CapacityAssumption, SMT DEF Slot
  <2> QED
    BY <1>6, <1>7, <2>1 DEF Pop, IInv, TypeOK
<1>8. ASSUME NEW i \in 1 .. Capacity
      PROVE  (buffer'[SlotOf(i)'] \in Event) <=> i <= count'
  <2>1. CASE i < Capacity
    <3>1. (buffer[SlotOf(i + 1)] \in Event) <=> i + 1 <= count
      BY <2>1, CapacityAssumption, SMT DEF IInv, RingConsistent
    <3> QED
      BY <1>1, <1>2, <1>7, <2>1, <3>1, SMT
  <2>2. CASE i = Capacity
    <3>1. buffer'[SlotOf(i)'] = MovedFrom
      BY <1>1, <1>6, <2>2 DEF Pop, IInv, TypeOK
    <3> QED
      BY <1>1, <1>2, <2>2, <3>1, EventAssumption, SMT
  <2> QED
    BY <2>1, <2>2, CapacityAssumption, SMT
<1>9. ASSUME NEW i \in 1 .. count - 1
      PROVE  Contents'[i] = Contents[i + 1]
  <2>1. i \in 1 .. Capacity /\ i < Capacity /\ i \in 1 .. count' /\ i + 1 \in 1 .. count
    BY <1>1, <1>2, CapacityAssumption, SMT
  <2> QED
    BY <1>7, <2>1 DEF Contents
<1> QED
  BY <1>4, <1>5, <1>8, <1>9 DEF IInv, RingConsistent

\* Every call keeps the invariant.
LEMMA StepInvariant == IInv /\ [Next]_vars => IInv'
<1> SUFFICES ASSUME IInv, [Next]_vars PROVE IInv'
  OBVIOUS
<1>1. CASE \E e \in Event : Push(e)
  BY <1>1, PushInvariant
<1>2. CASE Pop
  BY <1>2, PopInvariant
<1>3. CASE (\E e \in Event : PushThrows(e)) \/ PopThrows
  <2>1. UNCHANGED <<buffer, head, tail, count, peak>> /\ reply' \in {"overflow", "underflow"}
    BY <1>3 DEF PushThrows, PopThrows
  <2> QED
    BY <2>1 DEF IInv, TypeOK, RingConsistent, SlotOf
<1>4. CASE UNCHANGED vars
  BY <1>4 DEF vars, IInv, TypeOK, RingConsistent, SlotOf
<1> QED
  BY <1>1, <1>2, <1>3, <1>4 DEF Next

\* Every call leaves the indices in range, and a caller of pop() is only ever
\* handed an event that was pushed.
THEOREM TypeCorrect == Spec => []TypeOK
<1>1. IInv => TypeOK
  BY DEF IInv
<1> QED
  BY InitInvariant, StepInvariant, <1>1, PTL DEF Spec

\* head, tail and count always describe one region of the ring, and that
\* region is exactly where events are.
THEOREM RingIsConsistent == Spec => []RingConsistent
<1>1. IInv => RingConsistent
  BY DEF IInv
<1> QED
  BY InitInvariant, StepInvariant, <1>1, PTL DEF Spec

-----------------------------------------------------------------------------
(* Refinement *)

\* The queued events, read off the ring, are a sequence of events of length count.
LEMMA ContentsIsQueue ==
  ASSUME IInv
  PROVE  Contents \in Seq(Event) /\ Len(Contents) = count
<1>1. ASSUME NEW i \in 1 .. count PROVE buffer[SlotOf(i)] \in Event
  BY CapacityAssumption, SMT DEF IInv, TypeOK, RingConsistent
<1>2. count \in Nat
  BY CapacityAssumption, SMT DEF IInv, TypeOK
<1> QED
  BY <1>1, <1>2, SMT DEF Contents

\* A push() appends to the abstract queue.
LEMMA PushRefines ==
  ASSUME IInv, IInv', NEW e \in Event, Push(e)
  PROVE  Fifo!Push(e) /\ Fifo!Measured
<1>1. Capacity > 0 /\ head \in Slot /\ count \in 0 .. Capacity - 1
  BY CapacityAssumption, SMT DEF IInv, TypeOK, Push, Slot
<1>2. Contents \in Seq(Event) /\ Len(Contents) = count
  BY ContentsIsQueue
<1>3. Contents' \in Seq(Event) /\ Len(Contents') = count + 1
  <2>1. \A i \in 1 .. count' : buffer'[SlotOf(i)'] \in Event
    BY CapacityAssumption, SMT DEF IInv, TypeOK, RingConsistent
  <2> QED
    BY <1>1, <2>1, SMT DEF Contents, Push
<1>4. ASSUME NEW i \in 1 .. count + 1
      PROVE  Contents'[i] = Append(Contents, e)[i]
  <2>1. Contents'[i] = buffer'[SlotOf(i)] /\ SlotOf(i) \in Slot
    BY <1>1, SlotOfUnwrapped, CapacityAssumption, SMT DEF Contents, Push, SlotOf, Slot
  <2>2. (SlotOf(i) = tail) <=> (i = count + 1)
    BY <1>1, SlotOfUnwrapped, TailUnwrapped, CapacityAssumption, SMT DEF Slot
  <2>3. buffer' = [buffer EXCEPT ![tail] = e] /\ DOMAIN buffer = Slot
    BY DEF Push, IInv, TypeOK
  <2>4. CASE i = count + 1
    BY <1>2, <2>1, <2>2, <2>3, <2>4, SMT
  <2>5. CASE i # count + 1
    <3>1. Contents'[i] = buffer[SlotOf(i)]
      BY <2>1, <2>2, <2>3, <2>5
    <3>2. i \in 1 .. count
      BY <1>1, <2>5, SMT
    <3>3. Contents[i] = buffer[SlotOf(i)]
      BY <3>2 DEF Contents
    <3> QED
      BY <1>2, <3>1, <3>2, <3>3, SMT
  <2> QED
    BY <2>4, <2>5
<1>5. Contents' = Append(Contents, e)
  BY <1>2, <1>3, <1>4, AppendProperties, SeqEqual, SMT
<1>6. Len(Contents) < Capacity
  BY <1>1, <1>2, CapacityAssumption, SMT
<1>7. peak' = IF Len(Contents') > peak THEN Len(Contents') ELSE peak
  BY <1>3 DEF Push
<1> QED
  BY <1>5, <1>6, <1>7 DEF Push, Fifo!Push, Fifo!Measured

\* A pop() removes the abstract queue's head and returns it.
LEMMA PopRefines ==
  ASSUME IInv, IInv', Pop
  PROVE  Fifo!Pop /\ Fifo!Measured
<1>1. Capacity > 0 /\ head \in Slot /\ count \in 1 .. Capacity /\ peak \in count .. Capacity
  BY CapacityAssumption, SMT DEF IInv, TypeOK, Pop, Slot
<1>2. Contents \in Seq(Event) /\ Len(Contents) = count
  BY ContentsIsQueue
<1>3. Contents' \in Seq(Event) /\ Len(Contents') = count - 1
  <2>1. \A i \in 1 .. count' : buffer'[SlotOf(i)'] \in Event
    BY CapacityAssumption, SMT DEF IInv, TypeOK, RingConsistent
  <2> QED
    BY <1>1, <2>1, SMT DEF Contents, Pop
<1>4. Contents # <<>>
  BY <1>1, <1>2, SMT
<1>5. Tail(Contents) \in Seq(Event) /\ Len(Tail(Contents)) = count - 1
      /\ \A i \in 1 .. count - 1 : Tail(Contents)[i] = Contents[i + 1]
  BY <1>1, <1>2, <1>4, SMT
<1>6. Contents' = Tail(Contents)
  BY <1>3, <1>5, PopInvariant, SeqEqual, SMT
<1>7. reply' = Head(Contents)
  <2>1. SlotOf(1) = head
    BY <1>1, SlotOfUnwrapped, CapacityAssumption, SMT DEF Slot
  <2>2. Contents[1] = buffer[head]
    BY <1>1, <2>1, SMT DEF Contents
  <2> QED
    BY <1>2, <1>4, <2>2 DEF Pop
<1>8. peak' = IF Len(Contents') > peak THEN Len(Contents') ELSE peak
  BY <1>1, <1>3, SMT DEF Pop
<1> QED
  BY <1>4, <1>6, <1>7, <1>8 DEF Fifo!Pop, Fifo!Measured

\* Every call is the call of the abstract queue with the same outcome.
LEMMA StepRefines == IInv /\ IInv' /\ [Next]_vars => [Fifo!Next]_Fifo!vars
<1> SUFFICES ASSUME IInv, IInv', [Next]_vars PROVE [Fifo!Next]_Fifo!vars
  OBVIOUS
<1> USE DEF Fifo!Next
<1>1. CASE \E e \in Event : Push(e)
  BY <1>1, PushRefines
<1>2. CASE Pop
  BY <1>2, PopRefines
<1>3. ASSUME UNCHANGED <<buffer, head, tail, count, peak>>
      PROVE  Contents' = Contents /\ Fifo!Measured
  <2>1. Contents' = Contents
    BY <1>3 DEF Contents, SlotOf
  <2>2. Len(Contents) <= peak /\ peak' = peak
    BY <1>3, ContentsIsQueue, CapacityAssumption, SMT DEF IInv, TypeOK
  <2>3. Len(Contents) \in Nat /\ peak \in Nat
    BY ContentsIsQueue, CapacityAssumption, SMT DEF IInv, TypeOK
  <2> QED
    BY <2>1, <2>2, <2>3, SMT DEF Fifo!Measured
<1>4. ASSUME NEW e \in Event, PushThrows(e) PROVE Fifo!Refuse(e) /\ Fifo!Measured
  BY <1>3, <1>4, ContentsIsQueue DEF PushThrows, Fifo!Refuse
<1>5. CASE PopThrows
  <2>1. Contents = <<>>
    BY <1>5, ContentsIsQueue, EmptySeq, SMT DEF PopThrows
  <2> QED
    BY <1>3, <1>5, <2>1 DEF PopThrows, Fifo!PopNothing
<1>6. CASE UNCHANGED vars
  BY <1>6 DEF vars, Fifo!vars, Contents, SlotOf
<1> QED
  BY <1>1, <1>2, <1>4, <1>5, <1>6 DEF Next

\* Whatever the capacity, a client of the ring buffer cannot tell it from a
\* bounded FIFO queue: order, refusals, and peak_depth() are those of
\* BoundedFifo.
THEOREM Refinement == Spec => ImplementsFifo
<1>1. Init => Fifo!Init
  <2> SUFFICES ASSUME Init PROVE Fifo!Init
    OBVIOUS
  <2>1. IInv
    BY InitInvariant
  <2>2. Contents = <<>>
    BY <2>1, ContentsIsQueue, EmptySeq DEF Init
  <2> QED
    BY <2>2 DEF Init, Fifo!Init
<1> QED
  BY <1>1, InitInvariant, StepInvariant, StepRefines, PTL DEF Spec, ImplementsFifo, Fifo!Spec

=============================================================================
