------------------------------ MODULE Trading ------------------------------
(***************************************************************************)
(* The events of the engine and the arithmetic of Portfolio and            *)
(* ExecutionHandler for the one ticker both of their callers register.     *)
(*                                                                         *)
(* Money is counted in ticks, Scale of them to a unit of currency, so that *)
(* the slippage factor Slip / Scale costs a whole number of ticks per      *)
(* share and unit of price.  The code's doubles are thereby exact here;    *)
(* only a sale of part of a position rounds (SoldCost in Cascade).         *)
(***************************************************************************)
EXTENDS Integers

CONSTANTS
    Closes,         \* the closes a bar may carry; 0 is what a malformed row is parsed to
    Scale,          \* ticks per unit of currency
    Slip,           \* slippage_factor_ * Scale
    PerShare,       \* per_share_commission_, in ticks
    MinCommission,  \* min_commission_, in ticks
    U32             \* the number of values of uint32_t

ASSUME TradingAssumption ==
    /\ Closes \subseteq Int
    /\ Scale \in Nat \ {0}
    /\ Slip \in 0 .. Scale
    /\ PerShare \in Nat
    /\ MinCommission \in Nat
    /\ U32 \in Nat \ {0}

\* SHORT exists in the code's enumeration only: no strategy signals it.
Direction == {"LONG", "EXIT"}

Quantity == 1 .. U32 - 1

Event ==
    [kind : {"market"}, close : Closes]
      \cup [kind : {"signal"}, direction : Direction]
      \cup [kind : {"order"}, direction : Direction, quantity : Quantity]
      \cup [kind : {"fill"}, direction : Direction, quantity : Quantity,
            fill_price : Nat, commission : Nat]

Market(c) == [kind |-> "market", close |-> c]
Signal(d) == [kind |-> "signal", direction |-> d]
Order(d, q) == [kind |-> "order", direction |-> d, quantity |-> q]
Fill(d, q, p, fee) ==
    [kind |-> "fill", direction |-> d, quantity |-> q, fill_price |-> p, commission |-> fee]

\* What n shares are worth, in ticks, when one costs c.
Worth(n, c) == n * (c * Scale)

-----------------------------------------------------------------------------
(* Portfolio::on_signal *)

\* Faulty variant: the quantity keeps the width of the double.
CastsWide(x) == {x}

\* static_cast<uint32_t> of a nonnegative double.  Out of range it is
\* undefined: x86-64 builds keep the low 32 bits, AArch64 ones saturate.
Casts(x) == IF x < U32 THEN {x} ELSE {x % U32, U32 - 1}

Lesser(a, b) == IF a < b THEN a ELSE b

\* Faulty variant: the affordable quantity is rounded up.
LongQuantitiesRoundedUp(cash, position, close) ==
    IF cash > Worth(1, close) THEN Casts((cash \div Worth(1, close)) + 1) ELSE {0}

\* The shares a LONG signal orders: what brings the position to the signal's
\* target_weight of the equity (every strategy asks for 1.0), as far as the
\* cash reaches at the close; 0 when that is less than one share.
LongQuantities(cash, position, close) ==
    LET total_equity == cash + Worth(position, close)
        delta == total_equity - Worth(position, close)
    IN  IF delta > Worth(1, close)
          THEN { Lesser(qty, affordable) :
                   qty \in Casts(delta \div Worth(1, close)),
                   affordable \in IF cash > 0 THEN Casts(cash \div Worth(1, close)) ELSE {0} }
          ELSE {0}

\* Faulty variant: an exit orders a share more than are held.
ExitQuantitiesOffByOne(position) == IF position > 0 THEN Casts(position + 1) ELSE {0}

\* Faulty variant: without std::round, the double 99.99.. of a hundred shares
\* is cast to 99.
ExitQuantitiesTruncated(position) == IF position > 0 THEN Casts(position - 1) ELSE {0}

\* The shares an EXIT signal orders: all that are held.
ExitQuantities(position) == IF position > 0 THEN Casts(position) ELSE {0}

-----------------------------------------------------------------------------
(* ExecutionHandler::on_order *)

\* Faulty variant: slippage in the trader's favour.
FillPriceFavourable(d, close) == close * (IF d = "LONG" THEN Scale - Slip ELSE Scale + Slip)

FillPrice(d, close) == close * (IF d = "LONG" THEN Scale + Slip ELSE Scale - Slip)

Commission(qty) == IF qty * PerShare > MinCommission THEN qty * PerShare ELSE MinCommission

=============================================================================
