------------------------------ MODULE MCSweep ------------------------------
(* Strategies with one axis and with two, on either second field, two of   *)
(* them asked for the same grid; ranges that meet their stop, miss it,     *)
(* pass it and run backwards; none, one and two tickers.                   *)
EXTENDS Sweep

CONSTANTS aapl, nvda

MCStrats == [sma |-> <<"p1", "p2">>, scalping |-> <<"p1", "p2">>, rsi |-> <<"p1", "fp">>, breakout |-> <<"p1">>]

Axis(start, stop, step) == [start |-> start, stop |-> stop, step |-> step]
Form(strategy, tickers, axes) == [strategy |-> strategy, tickers |-> tickers, axes |-> axes]

MCForms ==
    { Form("sma", {aapl}, <<Axis(1, 4, 2), Axis(2, 3, 1)>>),
      Form("scalping", {aapl}, <<Axis(1, 4, 2), Axis(2, 3, 1)>>),
      Form("sma", {aapl, nvda}, <<Axis(1, 2, 1), Axis(3, 2, 2)>>),
      Form("rsi", {aapl}, <<Axis(1, 4, 2), Axis(2, 3, 1)>>),
      Form("breakout", {aapl, nvda}, <<Axis(1, 6, 4)>>),
      Form("breakout", {nvda}, <<Axis(1, 2, 2)>>),
      Form("breakout", {}, <<Axis(1, 2, 2)>>) }

MCWeights ==
    { [sharpe |-> w[1], dd |-> w[2], win |-> w[3], trade |-> w[4], min_trades |-> 2] :
        w \in {0, 3} \X {0, 2} \X {0, 1} \X {0, 1} }

\* Metrics that rank the configurations in several ways, ties among them.
MCEngines ==
    { [c \in UNION { Grid(f) : f \in MCForms } |->
        LET n == seed * c.params["p1"] + 3 * c.params["p2"] + 2 * c.params["fp"]
        IN  [sharpe |-> (n % 4) - 1, max_drawdown |-> (n * seed + 1) % 3,
             win_rate |-> (n + seed) % 5, trades |-> (n \div 2) % 4]] :
      seed \in 1 .. 8 }

=============================================================================
