---------------------------- MODULE Performance ----------------------------
(***************************************************************************)
(* PerformanceTracker: what a session or a backtest records, bar by bar    *)
(* and trade by trade, and the four metrics it computes from that.         *)
(*                                                                         *)
(* A metric is a fraction (the factor 100 of the percentages left out)     *)
(* whose denominator is not negative.  Over 0, the fraction is what the    *)
(* double would be: an infinity, or NaN when the numerator is 0 as well.   *)
(***************************************************************************)
EXTENDS Sums, Sequences, SequencesExt

CONSTANTS
    Equities,       \* the amounts a bar may leave the account at
    Pnls,           \* the amounts a trade may bring
    MaxBars,        \* bound: the bars recorded
    MaxTrades       \* bound: the trades recorded

ASSUME PerformanceAssumption ==
    /\ Equities \subseteq Int
    /\ Pnls \subseteq Int
    /\ MaxBars \in Nat
    /\ MaxTrades \in Nat

VARIABLES
    equity_curve,
    trade_pnls,
    sharpe,         \* sharpe_
    sharpe_ready,   \* sharpe_ready_
    pc,             \* "idle", or "drawdown" inside the loop of max_drawdown()
    next,           \* that loop's next point,
    peak,           \* its peak
    max_dd,         \* and its max_dd
    metrics         \* the metrics of everything recorded so far, once they were asked for

loop == <<next, peak, max_dd>>
vars == <<equity_curve, trade_pnls, sharpe, sharpe_ready, pc, loop, metrics>>

Ratio(num, den) ==
    IF den < 0 THEN [num |-> -num, den |-> -den] ELSE [num |-> num, den |-> den]

Zero == Ratio(0, 1)

\* The comparison of doubles: nothing exceeds NaN, and NaN exceeds nothing.
Exceeds(a, b) == a.num * b.den > b.num * a.den

NotAsked == [total_return |-> Zero, sharpe |-> Zero, asked |-> FALSE]

Init ==
    /\ equity_curve = <<>>
    /\ trade_pnls = <<>>
    /\ sharpe = Zero
    /\ sharpe_ready = FALSE
    /\ pc = "idle"
    /\ next = 1 /\ peak = 0 /\ max_dd = Zero
    /\ metrics = NotAsked

-----------------------------------------------------------------------------
(* The recorders *)

RecordEquity(e) ==
    /\ pc = "idle" /\ Len(equity_curve) < MaxBars
    /\ equity_curve' = Append(equity_curve, e)
    /\ sharpe_ready' = FALSE
    /\ metrics' = NotAsked
    /\ UNCHANGED <<trade_pnls, sharpe, pc, loop>>

RecordTrade(pnl) ==
    /\ pc = "idle" /\ Len(trade_pnls) < MaxTrades
    /\ trade_pnls' = Append(trade_pnls, pnl)
    /\ metrics' = NotAsked
    /\ UNCHANGED <<equity_curve, sharpe, sharpe_ready, pc, loop>>

-----------------------------------------------------------------------------
(* The metrics *)

TotalReturn ==
    IF Len(equity_curve) < 2 THEN Zero
    ELSE Ratio(Last(equity_curve) - Head(equity_curve), Head(equity_curve))

\* The bars whose return is taken: those that start from a positive amount.
Invested == { i \in 1 .. Len(equity_curve) - 1 : equity_curve[i] > 0 }

\* The amount a return is taken of.  Faulty variant: the one the bar ends at.
StartAtTheEnd(i) == IF equity_curve[i + 1] > 0 THEN equity_curve[i + 1] ELSE 1
Start(i) == IF i \in Invested THEN equity_curve[i] ELSE 1

\* The returns over their common denominator, 0 for the bars that have none.
Returns ==
    LET steps == Len(equity_curve) - 1
        common == ProductTo([i \in 1 .. steps |-> Start(i)], steps)
    IN  [i \in 1 .. steps |->
          IF i \in Invested THEN (equity_curve[i + 1] - equity_curve[i]) * (common \div Start(i)) ELSE 0]

\* The Sharpe ratio, as its square with its own sign and without the 252: the
\* mean of the returns over their sample deviation, 0 if that is not positive.
\* A single return has no deviation (0 / 0 is not positive).  Equal returns
\* have none either, but in doubles they need not be quite equal: then the
\* ratio is 0 or beyond any bound.
SharpeRatios ==
    LET steps == Len(equity_curve) - 1
        n == Cardinality(Invested)
        sum == SumTo(Returns, steps)
        Square(x) == x * x
        spread == SumTo([i \in 1 .. steps |->
                          IF i \in Invested THEN Square(n * Returns[i] - sum) ELSE 0], steps)
    IN  IF n < 2 \/ (spread = 0 /\ sum = 0) THEN {Zero}
        ELSE IF spread = 0 THEN {Zero, Ratio(IF sum > 0 THEN 1 ELSE -1, 0)}
        ELSE {Ratio(sum * (IF sum > 0 THEN sum ELSE -sum) * (n - 1), spread)}

WinRate ==
    IF trade_pnls = <<>> THEN Zero
    ELSE Ratio(Cardinality({ i \in DOMAIN trade_pnls : trade_pnls[i] > 0 }), Len(trade_pnls))

\* total_return() and annualised_sharpe() were called, and then max_drawdown()
\* up to its loop.
AskMetrics ==
    /\ pc = "idle"
    /\ sharpe' \in IF sharpe_ready THEN {sharpe} ELSE SharpeRatios
    /\ sharpe_ready' = TRUE
    /\ metrics' = [total_return |-> TotalReturn, sharpe |-> sharpe', asked |-> FALSE]
    /\ pc' = "drawdown"
    /\ next' = 1
    /\ peak' = IF equity_curve = <<>> THEN 0 ELSE Head(equity_curve)
    /\ max_dd' = Zero
    /\ UNCHANGED <<equity_curve, trade_pnls>>

\* if (e > peak) peak = e.  Faulty variant: the peak follows every point.
HigherAlways(e) == e
Higher(e) == IF e > peak THEN e ELSE peak

DrawdownStep ==
    /\ pc = "drawdown" /\ next <= Len(equity_curve)
    /\ LET e == equity_curve[next]
           dd == Ratio(Higher(e) - e, Higher(e))
       IN  /\ peak' = Higher(e)
           /\ max_dd' = IF Exceeds(dd, max_dd) THEN dd ELSE max_dd
    /\ next' = next + 1
    /\ UNCHANGED <<equity_curve, trade_pnls, sharpe, sharpe_ready, pc, metrics>>

\* It has returned, and so has win_rate().
MetricsReturned ==
    /\ pc = "drawdown" /\ next > Len(equity_curve)
    /\ metrics' = [total_return |-> metrics.total_return, sharpe |-> metrics.sharpe,
                   max_drawdown |-> max_dd, win_rate |-> WinRate, asked |-> TRUE]
    /\ pc' = "idle"
    /\ next' = 1 /\ peak' = 0 /\ max_dd' = Zero
    /\ UNCHANGED <<equity_curve, trade_pnls, sharpe, sharpe_ready>>

Next ==
    \/ \E e \in Equities : RecordEquity(e)
    \/ \E pnl \in Pnls : RecordTrade(pnl)
    \/ AskMetrics
    \/ DrawdownStep
    \/ MetricsReturned

Spec == Init /\ [][Next]_vars

-----------------------------------------------------------------------------
(* Properties *)

Asked == metrics.asked

\* The fall from the i-th point to the j-th, relative to the former.
Fall(i, j) == Ratio(equity_curve[i] - equity_curve[j], equity_curve[i])

\* For a curve that never goes below 0, one pass with a running peak finds
\* the worst relative fall there is from any point to any later one: none is
\* worse, and it is one of them (so it is finite) unless nothing fell.  A
\* curve that starts positive shows a drawdown of 100% or more exactly if
\* the account was worth nothing, or less, at some point.
DrawdownIsWorstFall ==
    Asked =>
      LET dd == metrics.max_drawdown
          n == Len(equity_curve)
          Falls == { i \in 1 .. n : equity_curve[i] > 0 } \X (1 .. n)
      IN  /\ (\A i \in 1 .. n : equity_curve[i] >= 0) =>
               /\ \A f \in Falls : f[1] <= f[2] => ~Exceeds(Fall(f[1], f[2]), dd)
               /\ dd = Zero \/ \E f \in Falls : f[1] < f[2] /\ dd = Fall(f[1], f[2])
          /\ n > 0 /\ equity_curve[1] > 0 =>
               (dd.num >= dd.den <=> \E i \in 1 .. n : equity_curve[i] <= 0)

\* A session that stayed solvent lost no more in all than in its drawdown.
LossWithinDrawdown ==
    Asked /\ (\A i \in 1 .. Len(equity_curve) : equity_curve[i] > 0) =>
      ~Exceeds(Ratio(-metrics.total_return.num, metrics.total_return.den),
               metrics.max_drawdown)

\* The metrics do not contradict each other.  A session that stayed solvent
\* and ended with a gain has no negative Sharpe ratio; its loss is no larger
\* than its drawdown; and trades that gained together did not all lose, nor
\* did trades that lost together all win.
MetricsAgree ==
    /\ LossWithinDrawdown
    /\ Asked =>
         /\ /\ \A i \in 1 .. Len(equity_curve) : equity_curve[i] > 0
            /\ Exceeds(metrics.total_return, Zero)
            => metrics.sharpe.num >= 0
         /\ SumTo(trade_pnls, Len(trade_pnls)) > 0 => metrics.win_rate.num > 0
         /\ SumTo(trade_pnls, Len(trade_pnls)) < 0 => metrics.win_rate.num < metrics.win_rate.den

=============================================================================
