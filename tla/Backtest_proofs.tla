-------------------------- MODULE Backtest_proofs --------------------------
(***************************************************************************)
(* Proofs about run_backtest(), for every set of closes, every fee and     *)
(* slippage, every width of the order quantity, every queue capacity and   *)
(* data files of any length.                                               *)
(***************************************************************************)
EXTENDS Backtest, Cascade_proofs

-----------------------------------------------------------------------------
(* The inductive invariant *)

\* The loop between two bars is BarsAreSettled; while a bar is being drained
\* the curve is one point behind, and the events counted are those of the
\* earlier bars and, by the rank of the event in the queue, of this one.
LoopInv ==
    /\ pc \in {"stream", "drain", "done"}
    /\ barCount \in 0 .. MaxBars
    /\ eventCount \in Nat
    /\ points \in Nat
    /\ lastEquity \in Int
    /\ BarsAreSettled
    /\ pc = "drain" =>
         /\ barCount = points + 1
         /\ eventCount <= 4 * points + Rank
         /\ eventCount >= points
         /\ Rank > 0 => eventCount >= points + 1

Inv == EngineInv /\ LoopInv

\* The equity is an amount.
LEMMA EquityInt ==
  ASSUME EngineInv
  PROVE  Equity \in Int
BY TypedBefore, WorthInt, SMT DEF Equity

\* The invariant holds before the first bar.
LEMMA InitInv == Init => Inv
<1> SUFFICES ASSUME Init PROVE Inv
  OBVIOUS
<1>1. EngineInv
  BY InitEngineInv DEF Init
<1>2. 0 \in 0 .. MaxBars /\ 0 \in 0 .. 4 * 0 /\ ~ (0 > 0)
  BY BacktestAssumption, SMT
<1>3. queue = <<>>
  BY DEF Init, InitEngine
<1> QED
  BY <1>1, <1>2, <1>3 DEF Inv, LoopInv, Init, BarsAreSettled

\* Streaming a bar keeps the invariant: the bar is the only event queued.
LEMMA StreamBarInv ==
  ASSUME Inv, StreamBar
  PROVE  Inv'
<1>1. queue = <<>> /\ points = barCount /\ eventCount \in barCount .. 4 * barCount
  BY DEF Inv, LoopInv, BarsAreSettled, StreamBar
<1>2. PICK c \in Closes : EngineInv' /\ queue' = <<Market(c)>>
  BY <1>1, PushBarInv DEF StreamBar, Inv
<1>3. Rank' = 0
  <2>1. Market(c) \in Event /\ Market(c).kind = "market"
    BY DEF Market, Event
  <2>2. queue' # <<>> /\ Head(queue').kind = "market"
    BY <1>2, <2>1, OneEvent
  <2> QED
    BY <2>2 DEF Rank
<1>4. barCount' = barCount + 1 /\ barCount' \in 0 .. MaxBars /\ pc' = "drain"
      /\ UNCHANGED <<eventCount, points, lastEquity>>
  BY BacktestAssumption, SMT DEF StreamBar, Inv, LoopInv
<1>5. /\ eventCount \in Nat /\ points \in Nat /\ lastEquity \in Int /\ barCount \in Nat
  BY BacktestAssumption, SMT DEF Inv, LoopInv
<1>6. /\ barCount' = points' + 1
      /\ eventCount' <= 4 * points' + Rank'
      /\ eventCount' >= points'
      /\ ~ (Rank' > 0)
  BY <1>1, <1>3, <1>4, <1>5, SMT
<1>7. BarsAreSettled'
  BY <1>4 DEF BarsAreSettled
<1> QED
  BY <1>2, <1>4, <1>5, <1>6, <1>7 DEF Inv, LoopInv

\* Dispatching an event keeps the invariant: the bar has one event more behind it
\* and at least one fewer ahead.
LEMMA DispatchEventInv ==
  ASSUME Inv, DispatchEvent
  PROVE  Inv'
<1>1. EngineInv' /\ Rank \in 0 .. 3 /\ Rank' \in 1 .. 4 /\ Rank < Rank'
  BY DispatchInv, DispatchAdvances DEF Inv, DispatchEvent
<1>2. /\ pc = "drain" /\ pc' = pc /\ eventCount' = eventCount + 1
      /\ UNCHANGED <<barCount, points, lastEquity>>
  BY DEF DispatchEvent
<1>3. /\ eventCount \in Nat /\ points \in Nat /\ lastEquity \in Int /\ barCount \in 0 .. MaxBars
      /\ barCount = points + 1
      /\ eventCount <= 4 * points + Rank /\ eventCount >= points
  BY <1>2 DEF Inv, LoopInv
<1>4. /\ eventCount' \in Nat /\ barCount' = points' + 1
      /\ eventCount' <= 4 * points' + Rank' /\ eventCount' >= points' + 1
      /\ eventCount' >= points'
  <2>1. Rank \in Int /\ Rank' \in Int /\ Rank + 1 <= Rank'
    BY <1>1, SMT
  <2>2. eventCount + 1 <= 4 * points + Rank'
    <3>1. \A n, p, r, s \in Int : n <= 4 * p + r /\ r + 1 <= s => n + 1 <= 4 * p + s
      BY SMT
    <3>2. eventCount \in Int /\ points \in Int /\ eventCount <= 4 * points + Rank
      BY <1>3, SMT
    <3> QED
      BY <2>1, <3>1, <3>2
  <2>3. eventCount + 1 >= points + 1 /\ eventCount + 1 >= points /\ eventCount + 1 \in Nat
    BY <1>3, SMT
  <2> QED
    BY <1>2, <1>3, <2>2, <2>3
<1>5. BarsAreSettled'
  BY <1>2 DEF BarsAreSettled
<1> QED
  BY <1>1, <1>2, <1>3, <1>4, <1>5 DEF Inv, LoopInv

\* Recording the equity of the drained bar keeps the invariant.
LEMMA RecordEquityInv ==
  ASSUME Inv, RecordEquity
  PROVE  Inv'
<1>1. EngineInv' /\ Equity' = Equity
  BY EngineInvUnchanged DEF Inv, RecordEquity, engine, Equity, Worth
<1>2. /\ pc = "drain" /\ pc' = "stream" /\ queue = <<>> /\ queue' = queue
      /\ points' = points + 1 /\ lastEquity' = Equity
      /\ UNCHANGED <<barCount, eventCount>>
  BY DEF RecordEquity, engine
<1>3. Rank = 4
  BY <1>2 DEF Rank
<1>4. /\ eventCount \in Nat /\ points \in Nat /\ barCount \in 0 .. MaxBars
      /\ barCount = points + 1
      /\ eventCount <= 4 * points + 4 /\ eventCount >= points + 1
  BY <1>2, <1>3 DEF Inv, LoopInv
<1>5. points' \in Nat /\ points' = barCount' /\ eventCount' \in barCount' .. 4 * barCount'
  BY <1>2, <1>4, BacktestAssumption, SMT
<1>6. lastEquity' \in Int /\ lastEquity' = Equity'
  BY <1>1, <1>2, EquityInt DEF Inv
<1>7. BarsAreSettled'
  BY <1>2, <1>5, <1>6 DEF BarsAreSettled
<1> QED
  BY <1>1, <1>2, <1>4, <1>5, <1>6, <1>7 DEF Inv, LoopInv

\* The end of the data keeps the invariant.
LEMMA EndOfDataInv ==
  ASSUME Inv, EndOfData
  PROVE  Inv'
<1>1. EngineInv' /\ Equity' = Equity
  BY EngineInvUnchanged DEF Inv, EndOfData, engine, Equity, Worth
<1>2. pc = "stream" /\ pc' = "done" /\ UNCHANGED <<queue, barCount, eventCount, points, lastEquity>>
  BY DEF EndOfData, engine
<1>3. BarsAreSettled'
  BY <1>1, <1>2 DEF Inv, LoopInv, BarsAreSettled
<1> QED
  BY <1>1, <1>2, <1>3 DEF Inv, LoopInv

\* A step that changes nothing keeps the invariant.
LEMMA UnchangedInv ==
  ASSUME Inv, UNCHANGED vars
  PROVE  Inv'
<1>1. UNCHANGED engine
  BY DEF vars
<1>2. EngineInv'
  BY <1>1, EngineInvUnchanged DEF Inv
<1> QED
  BY <1>2 DEF vars, engine, Inv, LoopInv, BarsAreSettled, Rank, Equity, Worth

\* Every step keeps the invariant.
LEMMA NextInv == Inv /\ [Next]_vars => Inv'
<1> SUFFICES ASSUME Inv, [Next]_vars PROVE Inv'
  OBVIOUS
<1> QED
  BY StreamBarInv, EndOfDataInv, DispatchEventInv, RecordEquityInv, UnchangedInv
     DEF Next, Step, Returned

\* The invariant holds throughout.
LEMMA Invariance == Spec => []Inv
BY InitInv, NextInv, PTL DEF Spec

-----------------------------------------------------------------------------
(* Invariants *)

\* Every quantity ordered or filled is a uint32_t other than 0, every amount
\* has its type, and no bar is dispatched but one of the file.
THEOREM TypeCorrect == Spec => []TypeOK
<1>1. Inv => TypeOK
  BY DEF Inv, EngineInv, LoopInv, TypeOK
<1> QED
  BY <1>1, Invariance, PTL

\* The queue never holds two events, and no push() ever throws, whatever its
\* capacity.
THEOREM QueueNeverOverflows == Spec => []OneInFlight
<1>1. Inv => OneInFlight
  BY DEF Inv, EngineInv
<1> QED
  BY <1>1, Invariance, PTL

\* What is ordered stays affordable, or held, until it is settled.
THEOREM OrdersStayCovered == Spec => []InFlightCovered
<1>1. Inv => InFlightCovered
  BY DEF Inv, EngineInv
<1> QED
  BY <1>1, Invariance, PTL

\* Cash, cost basis, recorded trades and entry commissions always balance.
THEOREM LedgerAlwaysBalances == Spec => []LedgerBalances
<1>1. Inv => LedgerBalances
  BY DEF Inv, EngineInv
<1> QED
  BY <1>1, Invariance, PTL

\* Between bars the loop has counted, drained and marked exactly the bars it
\* streamed.
THEOREM LoopSettlesBars == Spec => []BarsAreSettled
<1>1. Inv => BarsAreSettled
  BY DEF Inv, LoopInv
<1> QED
  BY <1>1, Invariance, PTL

-----------------------------------------------------------------------------
(* Steps *)

\* No step overdraws the account by more than the friction of the fill it
\* settles.
THEOREM OverdraftBounded == Spec => OverdraftIsFriction
<1> DEFINE A == cash' < cash =>
         /\ Handles("fill")
         /\ IF Head(queue).direction = "LONG"
              THEN cash' >= - Friction(Head(queue))
              ELSE cash' >= cash - Head(queue).commission
<1>1. Inv /\ [Next]_vars => [A]_engine
  <2> SUFFICES ASSUME Inv, [Next]_vars, cash' < cash PROVE A
    OBVIOUS
  <2>1. CASE DispatchEvent
    BY <2>1, DispatchOverdraws DEF DispatchEvent, Inv
  <2>2. CASE ~DispatchEvent
    <3>1. cash' = cash
      BY <2>2 DEF Next, Step, Returned, StreamBar, EndOfData, RecordEquity, vars, engine
    <3>2. cash \in Int
      BY TypedBefore DEF Inv
    <3> QED
      BY <3>1, <3>2, SMT
  <2> QED
    BY <2>1, <2>2
<1> QED
  BY <1>1, Invariance, PTL DEF Spec, OverdraftIsFriction

\* No step makes the account worth more at an unchanged price.
THEOREM NoValueCreated == Spec => TradesCreateNoValue
<1>1. Inv /\ [Next]_vars => [latestClose' = latestClose => Equity' <= Equity]_engine
  <2> SUFFICES ASSUME Inv, [Next]_vars, latestClose' = latestClose PROVE Equity' <= Equity
    OBVIOUS
  <2>1. CASE DispatchEvent
    BY <2>1, DispatchCreatesNoValue DEF DispatchEvent, Inv
  <2>2. CASE ~DispatchEvent
    <3>1. cash' = cash /\ position' = position
      BY <2>2 DEF Next, Step, Returned, StreamBar, EndOfData, RecordEquity, vars, engine
    <3>2. Equity' = Equity
      BY <3>1 DEF Equity, Worth
    <3>3. Equity \in Int
      BY EquityInt DEF Inv
    <3> QED
      BY <3>2, <3>3, SMT
  <2> QED
    BY <2>1, <2>2
<1> QED
  BY <1>1, Invariance, PTL DEF Spec, TradesCreateNoValue

\* run_backtest() implements the account: seen from the money, the chain of
\* signal, order and fill is one trade.
THEOREM Refinement == Spec => ImplementsAccount
<1>1. Init => Books!Init
  BY DEF Init, InitEngine, Books!Init
<1>2. Inv /\ [Next]_vars => [Books!Next]_Books!vars
  <2> SUFFICES ASSUME Inv, [Next]_vars PROVE [Books!Next]_Books!vars
    OBVIOUS
  <2>1. CASE DispatchEvent
    BY <2>1, DispatchRefines DEF DispatchEvent, Inv
  <2>2. CASE ~DispatchEvent
    BY <2>2 DEF Next, Step, Returned, StreamBar, EndOfData, RecordEquity, vars, engine, Books!vars
  <2> QED
    BY <2>1, <2>2
<1> QED
  BY <1>1, <1>2, Invariance, PTL DEF Spec, ImplementsAccount, Books!Spec

-----------------------------------------------------------------------------
(* Strategy and portfolio *)

\* Before the first bar nothing is held.
LEMMA InitBelief == Init => Belief
<1> SUFFICES ASSUME Init PROVE Belief
  OBVIOUS
<1>1. 0 < U32 /\ ~ (0 > 0)
  BY TradingAssumption, SMT
<1> QED
  BY <1>1 DEF Init, InitEngine, Belief

\* Every step on a positive close keeps the agreement of portfolio and strategy.
LEMMA NextBelief == ClosesPositive /\ Inv /\ Belief /\ [Next]_vars => Belief'
<1> SUFFICES ASSUME ClosesPositive, Inv, Belief, [Next]_vars PROVE Belief'
  OBVIOUS
<1>1. CASE StreamBar
  <2>1. queue = <<>> /\ UNCHANGED <<position, inPosition>>
    BY <1>1 DEF Inv, LoopInv, BarsAreSettled, StreamBar
  <2>2. PICK c \in Closes : queue' = <<Market(c)>>
    BY <1>1, <2>1, PushBarInv DEF StreamBar, Inv
  <2>3. queue' # <<>> /\ Head(queue').kind = "market"
    <3>1. Market(c) \in Event /\ Market(c).kind = "market"
      BY DEF Market, Event
    <3> QED
      BY <2>2, <3>1, OneEvent
  <2> QED
    BY <2>1, <2>3 DEF Belief
<1>2. CASE DispatchEvent
  BY <1>2, DispatchBelief DEF DispatchEvent, Inv
<1>3. CASE EndOfData \/ RecordEquity \/ UNCHANGED vars
  BY <1>3 DEF EndOfData, RecordEquity, vars, engine, Belief
<1> QED
  BY <1>1, <1>2, <1>3 DEF Next, Step, Returned

\* On data whose closes are all positive the portfolio is invested between two
\* bars only if the strategy is in its position.
THEOREM BeliefHolds == Spec => []HoldsOnlyInPosition
<1>1. CASE ClosesPositive
  <2>1. Inv /\ Belief /\ [Next]_vars => Belief'
    BY <1>1, NextBelief
  <2>2. Inv /\ Belief => HoldsOnlyInPosition
    BY DEF Belief, HoldsOnlyInPosition
  <2> QED
    BY <2>1, <2>2, InitBelief, Invariance, PTL DEF Spec
<1>2. CASE ~ClosesPositive
  <2>1. HoldsOnlyInPosition
    BY <1>2 DEF HoldsOnlyInPosition, ClosesPositive
  <2> QED
    BY <2>1, PTL
<1> QED
  BY <1>1, <1>2

-----------------------------------------------------------------------------
(* What becomes of a signal *)

\* Nothing is pursued before the first bar.
LEMMA InitPursuit == Init => Pursuit
BY DEF Init, InitEngine, Pursuit

\* Every step keeps what is in flight the strategy's latest wish.
LEMMA NextPursuit == Inv /\ Pursuit /\ [Next]_vars => Pursuit'
<1> SUFFICES ASSUME Inv, Pursuit, [Next]_vars PROVE Pursuit'
  OBVIOUS
<1>1. CASE StreamBar
  <2>1. queue = <<>>
    BY <1>1 DEF Inv, LoopInv, BarsAreSettled, StreamBar
  <2>2. PICK c \in Closes : queue' = <<Market(c)>>
    BY <1>1, <2>1, PushBarInv DEF StreamBar, Inv
  <2>3. Market(c) \in Event /\ Market(c).kind = "market"
    BY DEF Market, Event
  <2>4. Head(queue').kind = "market"
    BY <2>2, <2>3, OneEvent
  <2> QED
    BY <2>4 DEF Pursuit
<1>2. CASE DispatchEvent
  BY <1>2, DispatchTakesEffect DEF DispatchEvent, Inv
<1>3. CASE EndOfData \/ RecordEquity \/ UNCHANGED vars
  BY <1>3 DEF EndOfData, RecordEquity, vars, engine, Pursuit
<1> QED
  BY <1>1, <1>2, <1>3 DEF Next, Step, Returned

\* Whatever the closes and the width of a quantity: by the end of its bar a
\* signal has bought or sold what the strategy believes it has, or the close,
\* the cash or the quantity was the reason.
THEOREM SignalsHaveEffect == Spec => SignalsTakeEffect
<1>1. Inv /\ Pursuit /\ [Next]_vars => [TakesEffect]_engine
  <2> SUFFICES ASSUME Inv, Pursuit, [Next]_vars PROVE [TakesEffect]_engine
    OBVIOUS
  <2>1. CASE DispatchEvent
    BY <2>1, DispatchTakesEffect DEF DispatchEvent, Inv
  <2>2. CASE StreamBar
    <3>1. queue = <<>>
      BY <2>2 DEF Inv, LoopInv, BarsAreSettled, StreamBar
    <3> QED
      BY <3>1 DEF TakesEffect
  <2>3. CASE EndOfData \/ RecordEquity \/ UNCHANGED vars
    BY <2>3 DEF EndOfData, RecordEquity, vars
  <2> QED
    BY <2>1, <2>2, <2>3 DEF Next, Step, Returned
<1> QED
  BY <1>1, InitPursuit, NextPursuit, Invariance, PTL DEF Spec, SignalsTakeEffect, TakesEffect

=============================================================================
