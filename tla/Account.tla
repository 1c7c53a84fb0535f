------------------------------ MODULE Account ------------------------------
(***************************************************************************)
(* What the engine promises the owner of the money, with the queue, the    *)
(* strategy and the order of the handlers taken away: a cash account that  *)
(* trades at the latest close.  A purchase is covered by the cash before   *)
(* its friction, a sale by the shares held, and each happens in one step.  *)
(***************************************************************************)
EXTENDS Trading

CONSTANT InitialCash

VARIABLES
    price,      \* the latest close
    cash,
    position

vars == <<price, cash, position>>

Init ==
    /\ price = 0
    /\ cash = InitialCash
    /\ position = 0

Quote(c) ==
    /\ price' = c
    /\ UNCHANGED <<cash, position>>

Buy(q) ==
    /\ price > 0
    /\ Worth(q, price) <= cash
    /\ position' = position + q
    /\ cash' = cash - (FillPrice("LONG", price) * q + Commission(q))
    /\ UNCHANGED price

Sell(q) ==
    /\ price > 0
    /\ q <= position
    /\ position' = position - q
    /\ cash' = cash + FillPrice("EXIT", price) * q - Commission(q)
    /\ UNCHANGED price

Next ==
    \/ \E c \in Closes : Quote(c)
    \/ \E q \in Quantity : Buy(q) \/ Sell(q)

Spec == Init /\ [][Next]_vars

=============================================================================
