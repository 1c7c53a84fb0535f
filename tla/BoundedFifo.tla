---------------------------- MODULE BoundedFifo ----------------------------
(***************************************************************************)
(* What the event queue promises its clients: a first-in first-out queue   *)
(* of at most Capacity events that refuses, without any other effect, the  *)
(* calls it cannot serve, and a record of how long it has ever been.       *)
(***************************************************************************)
EXTENDS Naturals, Sequences

CONSTANTS
    Event,      \* the events a client may push
    Capacity    \* the most events the queue holds

VARIABLES
    queue,      \* the queued events, oldest first
    highWater,  \* the greatest length the queue ever had
    reply       \* what the latest call gave its caller

vars == <<queue, highWater, reply>>

Init ==
    /\ queue = <<>>
    /\ highWater = 0
    /\ reply = "none"

\* The high-water mark follows the queue's length in every step.
Measured == highWater' = IF Len(queue') > highWater THEN Len(queue') ELSE highWater

Push(e) ==
    /\ Len(queue) < Capacity
    /\ queue' = Append(queue, e)
    /\ reply' = "pushed"

Refuse(e) ==
    /\ Len(queue) = Capacity
    /\ reply' = "overflow"
    /\ UNCHANGED queue

Pop ==
    /\ queue # <<>>
    /\ queue' = Tail(queue)
    /\ reply' = Head(queue)

PopNothing ==
    /\ queue = <<>>
    /\ reply' = "underflow"
    /\ UNCHANGED queue

Next ==
    /\ \/ \E e \in Event : Push(e) \/ Refuse(e)
       \/ Pop
       \/ PopNothing
    /\ Measured

Spec == Init /\ [][Next]_vars

=============================================================================
