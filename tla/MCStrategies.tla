---------------------------- MODULE MCStrategies ----------------------------
(* Every strategy with the shortest periods that have anything to tell, on *)
(* every file of up to six bars: a malformed row, one that closes below    *)
(* zero, a wide one, and one that closes above all the others.             *)
EXTENDS StrategyRules

Arg(name, p1, p2, fp) == [name |-> name, p1 |-> p1, p2 |-> p2, fp |-> fp]

MCArgs ==
    { Arg("sma", 1, 2, 0), Arg("sma", 2, 3, 0), Arg("sma", 3, 2, 0), Arg("sma", 0, 2, 0),
      Arg("rsi", 2, 0, 0), Arg("rsi", 3, 0, 500),
      Arg("mean_reversion", 2, 0, 5), Arg("mean_reversion", 3, 0, 10),
      Arg("momentum", 1, 0, 0), Arg("momentum", 2, 0, 600),
      Arg("scalping", 1, 2, 0), Arg("scalping", 2, 3, 0),
      Arg("breakout", 1, 0, 0), Arg("breakout", 2, 0, 0),
      Arg("pullback", 3, 1, 0), Arg("pullback", 3, 2, 0),
      Arg("vwap", 1, 0, 0), Arg("vwap", 2, 0, 0),
      Arg("orb", 1, 2, 0), Arg("orb", 1, 3, 0), Arg("orb", 2, 4, 0), Arg("orb", 0, 0, 0) }

\* The ones whose documentation the code departs from.
MCSmaSwapped == { Arg("sma", 3, 2, 0) }
MCRsiOfOne == { Arg("rsi", 1, 0, 0) }

Bar(high, low, close, volume) ==
    [high |-> high, low |-> low, close |-> close, volume |-> volume]

MCBars == { Bar(0, 0, 0, 0), Bar(1, -1, -1, 1), Bar(3, 1, 2, 1), Bar(4, 2, 4, 2) }

\* Bars as a file without defects has them.
MCSoundBars == { Bar(2, 1, 1, 1), Bar(6, 4, 5, 1), Bar(9, 6, 8, 2) }

=============================================================================
