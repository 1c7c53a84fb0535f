----------------------------- MODULE EventQueue -----------------------------
(***************************************************************************)
(* src/event_queue.cpp: the ring buffer every component of the engine      *)
(* talks through.  One action per call and outcome; an exception leaves    *)
(* the object as it was.                                                   *)
(***************************************************************************)
EXTENDS Integers

CONSTANTS
    Event,      \* the events a client may push
    MovedFrom,  \* what a slot holds before it is written and after pop() moved its event out
    Capacity    \* the capacity the queue was constructed with

ASSUME CapacityAssumption == Capacity \in Nat
ASSUME EventAssumption == MovedFrom \notin Event

VARIABLES
    buffer,     \* the slots
    head,       \* the slot the next pop() reads
    tail,       \* the slot the next push() writes
    count,      \* the number of queued events
    peak,       \* peak_count_
    reply       \* what the latest call gave its caller

vars == <<buffer, head, tail, count, peak, reply>>

Slot == 0 .. Capacity - 1

\* The constructor; "none" until the first call.  (A queue of capacity 0 can
\* be built: every call on it throws.)
Init ==
    /\ buffer = [i \in Slot |-> MovedFrom]
    /\ head = 0
    /\ tail = 0
    /\ count = 0
    /\ peak = 0
    /\ reply = "none"

\* The slot after i.  NextSlotUnwrapped is a faulty variant without the
\* wrap-around, NextSlotShort one that wraps a slot early.
NextSlotUnwrapped(i) == i + 1
NextSlotShort(i) == IF Capacity > 1 THEN (i + 1) % (Capacity - 1) ELSE 0

NextSlot(i) == (i + 1) % Capacity

-----------------------------------------------------------------------------
(* push() *)

Push(e) ==
    /\ count # Capacity
    /\ buffer' = [buffer EXCEPT ![tail] = e]
    /\ tail' = NextSlot(tail)
    /\ count' = count + 1
    /\ peak' = IF count' > peak THEN count' ELSE peak
    /\ reply' = "pushed"
    /\ UNCHANGED head

PushThrows(e) ==
    /\ count = Capacity
    /\ reply' = "overflow"
    /\ UNCHANGED <<buffer, head, tail, count, peak>>

-----------------------------------------------------------------------------
(* pop() *)

\* Faulty variant: the head moves before the event is read.
PopAdvancesFirst ==
    /\ count # 0
    /\ head' = NextSlot(head)
    /\ reply' = buffer[head']
    /\ buffer' = [buffer EXCEPT ![head'] = MovedFrom]
    /\ count' = count - 1
    /\ UNCHANGED <<tail, peak>>

Pop ==
    /\ count # 0
    /\ reply' = buffer[head]
    /\ buffer' = [buffer EXCEPT ![head] = MovedFrom]
    /\ head' = NextSlot(head)
    /\ count' = count - 1
    /\ UNCHANGED <<tail, peak>>

PopThrows ==
    /\ count = 0
    /\ reply' = "underflow"
    /\ UNCHANGED <<buffer, head, tail, count, peak>>

-----------------------------------------------------------------------------

Next ==
    \/ \E e \in Event : Push(e) \/ PushThrows(e)
    \/ Pop
    \/ PopThrows

Spec == Init /\ [][Next]_vars

-----------------------------------------------------------------------------
(* Properties *)

\* Every variable stays in its range: the indices are slots, and nothing is
\* ever delivered to a caller but an event that was pushed (never what a
\* moved-from slot holds).
TypeOK ==
    /\ buffer \in [Slot -> Event \cup {MovedFrom}]
    /\ head \in Nat /\ (Capacity > 0 => head \in Slot)
    /\ tail \in Nat /\ (Capacity > 0 => tail \in Slot)
    /\ count \in 0 .. Capacity
    /\ peak \in count .. Capacity
    /\ reply \in Event \cup {"none", "pushed", "overflow", "underflow"}

\* The slot that holds the i-th oldest event (i counts from 1).
SlotOf(i) == (head + (i - 1)) % Capacity

\* The two indices and the counter describe one region of the ring: tail is
\* the slot count steps after head, the slots of the region hold events and
\* the slots outside it hold none.  No single call maintains this alone.
RingConsistent ==
    /\ Capacity > 0 => tail = (head + count) % Capacity
    /\ \A i \in 1 .. Capacity : (buffer[SlotOf(i)] \in Event) <=> i <= count

\* The ring buffer implements the bounded FIFO: the queued events, read from
\* head for count slots, behave as a sequence, and peak_depth() is its
\* high-water mark.
Contents == [i \in 1 .. count |-> buffer[SlotOf(i)]]

Fifo == INSTANCE BoundedFifo WITH queue <- Contents, highWater <- peak

ImplementsFifo == Fifo!Spec

=============================================================================
