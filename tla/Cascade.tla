------------------------------ MODULE Cascade ------------------------------
(***************************************************************************)
(* The event cascade of one bar, as run_backtest() and LiveSession::tick() *)
(* both run it: pop an event, let its handler update the strategy, the     *)
(* portfolio or the tracker, queue what the handler answers.  One action   *)
(* per handler; the loop around them, and what it counts, is the caller's. *)
(***************************************************************************)
EXTENDS Trading, Sequences

CONSTANTS
    Capacity,       \* of the event queue
    InitialCash     \* in ticks

ASSUME CascadeAssumption == Capacity \in Nat \ {0} /\ InitialCash \in Nat

VARIABLES
    queue,          \* the event queue, as BoundedFifo promises it
    thrown,         \* a push() onto the full queue threw, and the call is being left
    inPosition,     \* the strategy's in_position_
    latestClose,    \* latest_close and prices[0], which are assigned together
    cash,           \* cash_
    position,       \* positions_[0]: shares held
    costBasis,      \* avg_cost_[0] * positions_[0]: what the held shares cost
    realized,       \* the sum of trade_pnls_
    entryFees       \* history: commissions paid on LONG fills

engine == <<queue, thrown, inPosition, latestClose, cash, position, costBasis, realized, entryFees>>

InitEngine ==
    /\ queue = <<>>
    /\ thrown = FALSE
    /\ inPosition = FALSE
    /\ latestClose = 0
    /\ cash = InitialCash
    /\ position = 0
    /\ costBasis = 0
    /\ realized = 0
    /\ entryFees = 0

\* Push the events of out, in order, onto q: up to the capacity, then throw.
Enqueue(q, out) ==
    LET longer == q \o out
    IN  IF Len(longer) <= Capacity
          THEN queue' = longer /\ thrown' = FALSE
          ELSE queue' = SubSeq(longer, 1, Capacity) /\ thrown' = TRUE

\* The popped event is handled, and its handler pushes out.
Handles(kind) == queue # <<>> /\ Head(queue).kind = kind
Answers(out) == Enqueue(Tail(queue), out)

-----------------------------------------------------------------------------
(* IStrategy::on_market_event, as all nine strategies do it: in one bar at *)
(* most one signal, LONG when out of the position and EXIT when in it, and *)
(* in_position_ follows the signal.                                        *)

\* Faulty variant: a signal repeated.
ReactionsTwice ==
    {<<>>, IF inPosition THEN <<Signal("EXIT")>> ELSE <<Signal("LONG"), Signal("LONG")>>}

Reactions == {<<>>, <<Signal(IF inPosition THEN "EXIT" ELSE "LONG")>>}
InPositionAfter(signals) == IF signals = <<>> THEN inPosition ELSE ~inPosition

OnMarket ==
    /\ Handles("market")
    /\ latestClose' = Head(queue).close
    /\ \E signals \in Reactions :
         /\ inPosition' = InPositionAfter(signals)
         /\ Answers(signals)
    /\ UNCHANGED <<cash, position, costBasis, realized, entryFees>>

-----------------------------------------------------------------------------
(* Portfolio::on_signal *)

OrderQuantities(d) ==
    IF d = "LONG" THEN LongQuantities(cash, position, latestClose)
                  ELSE ExitQuantities(position)

\* Signals on a bar whose close is not positive are dropped.
OnSignal ==
    /\ Handles("signal")
    /\ LET d == Head(queue).direction
       IN  \E qty \in IF latestClose > 0 THEN OrderQuantities(d) ELSE {0} :
             Answers(IF qty > 0 THEN <<Order(d, qty)>> ELSE <<>>)
    /\ UNCHANGED <<inPosition, latestClose, cash, position, costBasis, realized, entryFees>>

-----------------------------------------------------------------------------
(* ExecutionHandler::on_order: the order is filled at once and in full. *)

OnOrder ==
    /\ Handles("order")
    /\ LET o == Head(queue)
       IN  Answers(IF latestClose <= 0 \/ o.quantity = 0 THEN <<>>
                   ELSE <<Fill(o.direction, o.quantity, FillPrice(o.direction, latestClose),
                               Commission(o.quantity))>>)
    /\ UNCHANGED <<inPosition, latestClose, cash, position, costBasis, realized, entryFees>>

-----------------------------------------------------------------------------
(* Portfolio::on_fill, and record_trade() for the fills that close *)

OnLongFill ==
    /\ Handles("fill")
    /\ LET f == Head(queue)
       IN  /\ f.direction = "LONG"
           /\ costBasis' = costBasis + f.fill_price * f.quantity
           /\ position' = position + f.quantity
           /\ cash' = cash - (f.fill_price * f.quantity + f.commission)
           /\ entryFees' = entryFees + f.commission
    /\ Answers(<<>>)
    /\ UNCHANGED <<inPosition, latestClose, realized>>

\* avg_cost_[0] * f.quantity: the part of the cost basis that is sold.
SoldCost(qty) == IF qty >= position THEN costBasis ELSE (costBasis * qty) \div position

\* Faulty variant: the commission of an exit is not part of its pnl.
OnExitFillGross ==
    /\ Handles("fill")
    /\ LET f == Head(queue)
       IN  /\ f.direction = "EXIT"
           /\ realized' = realized + f.fill_price * f.quantity - SoldCost(f.quantity)
           /\ cash' = cash + f.fill_price * f.quantity - f.commission
           /\ position' = IF position > f.quantity THEN position - f.quantity ELSE 0
           /\ costBasis' = costBasis - SoldCost(f.quantity)
    /\ Answers(<<>>)
    /\ UNCHANGED <<inPosition, latestClose, entryFees>>

OnExitFill ==
    /\ Handles("fill")
    /\ LET f == Head(queue)
           sold == SoldCost(f.quantity)
       IN  /\ f.direction = "EXIT"
           /\ realized' = realized + f.fill_price * f.quantity - sold - f.commission
           /\ cash' = cash + f.fill_price * f.quantity - f.commission
           /\ position' = IF position > f.quantity THEN position - f.quantity ELSE 0
           /\ costBasis' = costBasis - sold
    /\ Answers(<<>>)
    /\ UNCHANGED <<inPosition, latestClose, entryFees>>

Dispatch == OnMarket \/ OnSignal \/ OnOrder \/ OnLongFill \/ OnExitFill

\* Portfolio::equity
Equity == cash + Worth(position, latestClose)

-----------------------------------------------------------------------------
(* Properties of the cascade, wherever it runs *)

EngineTypeOK ==
    /\ queue \in Seq(Event) /\ Len(queue) <= Capacity
    /\ thrown \in BOOLEAN
    /\ inPosition \in BOOLEAN
    /\ latestClose \in Closes \cup {0}
    /\ cash \in Int
    /\ position \in Nat
    /\ costBasis \in Nat
    /\ realized \in Int
    /\ entryFees \in Nat

\* A bar is one chain of events: every handler answers the event it was given
\* with at most one other, so one slot would do for the queue and no push()
\* throws.  (peak_queue_depth is 1 in every result.)
OneInFlight == Len(queue) <= 1 /\ ~thrown

\* What a fill costs over the shares' worth: slippage and commission.
Friction(f) == f.quantity * (latestClose * Slip) + f.commission

\* An order is sized when its signal is handled and settled two events later:
\* all that time the cash covers, at the close, the shares being bought, and
\* the shares being sold are held.  The price and the commission of a fill
\* are the ones of the bar it settles in.
InFlightCovered ==
    \A i \in 1 .. Len(queue) :
      /\ queue[i].kind \in {"order", "fill"} =>
           /\ latestClose > 0
           /\ IF queue[i].direction = "LONG"
                THEN Worth(queue[i].quantity, latestClose) <= cash
                ELSE queue[i].quantity <= position
      /\ queue[i].kind = "fill" =>
           queue[i].fill_price = FillPrice(queue[i].direction, latestClose)

\* Double entry: what is in cash and what the held shares cost is the initial
\* cash and the recorded trades, less the commissions of the entries, which
\* no trade's pnl ever shows.
LedgerBalances == cash + costBasis + entryFees = InitialCash + realized

\* "Clamp to what cash can actually cover -- prevents negative cash"
\* (portfolio.cpp:42).
NoNegativeCash == cash >= 0

\* Buying overdraws the account by the friction of that fill at most, and
\* selling costs at most its commission.
OverdraftIsFriction ==
    [][cash' < cash =>
         /\ Handles("fill")
         /\ IF Head(queue).direction = "LONG"
              THEN cash' >= - Friction(Head(queue))
              ELSE cash' >= cash - Head(queue).commission]_engine

\* As long as every close is positive, the portfolio holds shares between two
\* bars only while the strategy believes it is in the position: an EXIT sells
\* all of them.  (The converse fails: a LONG may be too expensive to order even
\* one.)  A close of 0 breaks it: the EXIT is dropped, the strategy is not told.
HoldsOnlyInPosition ==
    (\A c \in Closes : c > 0) => (queue = <<>> /\ position > 0 => inPosition)

\* What becomes of a signal by the time its events are all handled.  The
\* strategy has changed its mind two events before and is told nothing.  In its
\* position, it now holds more than before, unless the close was not positive,
\* the cash no more than one share's worth, or more than fits the quantity of
\* an order.  Out of it, everything is sold, whatever was left over before,
\* unless the close was not positive or more was held than fits.
SignalsTakeEffect ==
    [][queue # <<>> /\ Head(queue).kind # "market" /\ queue' = <<>> =>
         IF inPosition
           THEN \/ position' > position
                \/ latestClose <= 0
                \/ cash <= Worth(1, latestClose)
                \/ cash >= Worth(U32, latestClose)
           ELSE \/ position' = 0
                \/ latestClose <= 0
                \/ position >= U32]_engine

\* The cascade implements the account: however its events are queued, every
\* fill is a purchase the cash covers or a sale of shares that are held, and
\* nothing but a fill moves cash or shares.
Books == INSTANCE Account WITH price <- latestClose

ImplementsAccount == Books!Spec

\* While the price stands still, nothing the engine does makes the account
\* worth more.
TradesCreateNoValue == [][latestClose' = latestClose => Equity' <= Equity]_engine

=============================================================================
