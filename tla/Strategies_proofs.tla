------------------------- MODULE Strategies_proofs -------------------------
(***************************************************************************)
(* What holds of the nine strategies for all parameters, bars and lengths  *)
(* of the data.                                                            *)
(***************************************************************************)
EXTENDS StrategyRules, SequenceTheorems, WellFoundedInduction, TLAPS

-----------------------------------------------------------------------------
(* One signal a bar, LONG and EXIT in turn *)

\* Each strategy answers a bar with nothing, with a LONG out of its position
\* or with an EXIT in it.
LEMMA WindowsSignal ==
  ASSUME NEW m, SmaCross(m) \/ MeanReversion(m) \/ Momentum(m)
  PROVE  Rule!Next
<1> USE DEF Silent, Decide, Rule!Next, Rule!Keep, Rule!Enter, Rule!Leave
<1>1. CASE SmaCross(m)
  BY <1>1, Zenon DEF SmaCross
<1>2. CASE MeanReversion(m)
  BY <1>2, Zenon DEF MeanReversion
<1>3. CASE Momentum(m)
  BY <1>3, Zenon DEF Momentum
<1> QED
  BY <1>1, <1>2, <1>3

LEMMA AveragesSignal ==
  ASSUME NEW m, Rsi(m) \/ Scalping(m) \/ Pullback(m)
  PROVE  Rule!Next
<1> USE DEF Silent, Decide, Rule!Next, Rule!Keep, Rule!Enter, Rule!Leave
<1>1. CASE Rsi(m)
  <2>1. CASE RsiFirst(m)
    BY <2>1, Zenon DEF RsiFirst
  <2>2. CASE RsiWarmUp(m)
    BY <2>2, Zenon DEF RsiWarmUp
  <2>3. CASE RsiTrades(m)
    BY <2>3, Zenon DEF RsiTrades
  <2> QED
    BY <1>1, <2>1, <2>2, <2>3 DEF Rsi
<1>2. CASE Scalping(m)
  BY <1>2, Zenon DEF Scalping
<1>3. CASE Pullback(m)
  BY <1>3, Zenon DEF Pullback
<1> QED
  BY <1>1, <1>2, <1>3

LEMMA RangesSignal ==
  ASSUME NEW m, Breakout(m) \/ Vwap(m) \/ Orb(m)
  PROVE  Rule!Next
<1> USE DEF Silent, Decide, Rule!Next, Rule!Keep, Rule!Enter, Rule!Leave
<1>1. CASE Breakout(m)
  BY <1>1, Zenon DEF Breakout
<1>2. CASE Vwap(m)
  BY <1>2, Zenon DEF Vwap
<1>3. CASE Orb(m)
  BY <1>3, Zenon DEF Orb, OrbBar
<1> QED
  BY <1>1, <1>2, <1>3

THEOREM Refinement == Spec => ImplementsSignaller
<1>1. Init => Rule!Init
  BY DEF Init, Rule!Init
<1>2. [Next]_vars => [Rule!Next]_Rule!vars
  <2> SUFFICES ASSUME [Next]_vars PROVE [Rule!Next]_Rule!vars
    OBVIOUS
  <2>1. ASSUME NEW m \in Bars, OnMarketEvent(m) PROVE Rule!Next
    BY <2>1, WindowsSignal, AveragesSignal, RangesSignal DEF OnMarketEvent
  <2>2. CASE NextBar
    BY <2>1, <2>2 DEF NextBar
  <2>3. CASE UNCHANGED vars
    BY <2>3 DEF vars, Rule!vars
  <2> QED
    BY <2>2, <2>3 DEF Next, EndOfBars
<1> QED
  BY <1>1, <1>2, PTL DEF Spec, ImplementsSignaller, Rule!Spec

-----------------------------------------------------------------------------
(* Parameters and windows *)

\* What make_strategy() makes has a known name and positive parameters.
LEMMA MadeWell ==
  ASSUME made \in { Make(a) : a \in Args }
  PROVE  /\ made.name \in Name
         /\ made.p1 \in Nat \ {0} /\ made.p2 \in Nat \ {0} /\ made.fp \in Nat \ {0}
<1>1. \A name \in Name : /\ Defaults[name].p1 \in Nat \ {0}
                        /\ Defaults[name].p2 \in Nat \ {0}
                        /\ Defaults[name].fp \in Nat \ {0}
  BY DEF Defaults, Name
<1>2. PICK a \in Args : made = Make(a)
  OBVIOUS
<1>3. a.name \in Name /\ a.p1 \in Int /\ a.p2 \in Int /\ a.fp \in Int
  BY <1>2, StrategiesAssumption
<1> QED
  BY <1>1, <1>2, <1>3 DEF Make, OrDefault

\* A window slides by one bar and never holds more than n.
LEMMA SlideKeepsLength ==
  ASSUME NEW w \in Seq(Int), NEW x \in Int, NEW n \in Nat \ {0}, Len(w) <= n
  PROVE  /\ Slide(w, x, n) \in Seq(Int)
         /\ Len(Slide(w, x, n)) <= n
         /\ \A v \in Seq(Int), y \in Int : Len(v) = Len(w) => Len(Slide(v, y, n)) = Len(Slide(w, x, n))
BY DEF Slide

-----------------------------------------------------------------------------
(* The members of every strategy *)

Windowed == made.name \in {"sma", "mean_reversion", "momentum"}

\* TypeOK's part about st, with the types of the windows.
Shape ==
  /\ DOMAIN st = DOMAIN Blank(made.name)
  /\ Windowed => st.prices \in Seq(Int)
  /\ made.name = "sma" => Len(st.prices) <= made.p2
  /\ made.name = "mean_reversion" => Len(st.prices) <= made.p1
  /\ made.name = "momentum" => Len(st.prices) <= made.p1 + 1
  /\ made.name = "breakout" => /\ st.highs \in Seq(Int) /\ st.lows \in Seq(Int)
                              /\ Len(st.highs) <= made.p1 /\ Len(st.lows) = Len(st.highs)
  /\ made.name = "vwap" => /\ st.tp_vol \in Seq(Int) /\ st.volumes \in Seq(Int)
                          /\ Len(st.tp_vol) <= made.p1 /\ Len(st.volumes) = Len(st.tp_vol)

IInv == TypeOK /\ Shape

\* The fields of a bar are integers.
LEMMA BarIsWhole ==
  ASSUME NEW m \in Bars
  PROVE  m.high \in Int /\ m.low \in Int /\ m.close \in Int /\ m.volume \in Nat
BY StrategiesAssumption DEF Price

\* A fresh strategy has its members, all windows empty.
LEMMA BlankShape == ASSUME Init PROVE Shape
<1>1. 0 <= made.p1 /\ 0 <= made.p2 /\ 0 <= made.p1 + 1
  BY MadeWell DEF Init
<1>2. st = Blank(made.name)
  BY DEF Init
<1>3. Windowed => st.prices = <<>>
  BY <1>2 DEF Blank, Windowed
<1>4. made.name = "breakout" => /\ st.highs = <<>> /\ st.lows = <<>>
  BY <1>2 DEF Blank
<1>5. made.name = "vwap" => /\ st.tp_vol = <<>> /\ st.volumes = <<>>
  BY <1>2 DEF Blank
<1>6. <<>> \in Seq(Int) /\ Len(<<>>) = 0
  OBVIOUS
<1>7. DOMAIN st = DOMAIN Blank(made.name)
  BY <1>2
<1>8. Windowed => st.prices \in Seq(Int) /\ Len(st.prices) = 0
  BY <1>3, <1>6
<1>9. made.name = "breakout" => /\ st.highs \in Seq(Int) /\ st.lows \in Seq(Int)
                              /\ Len(st.highs) <= made.p1 /\ Len(st.lows) = Len(st.highs)
  BY <1>1, <1>4, <1>6
<1>10. made.name = "vwap" => /\ st.tp_vol \in Seq(Int) /\ st.volumes \in Seq(Int)
                          /\ Len(st.tp_vol) <= made.p1 /\ Len(st.volumes) = Len(st.tp_vol)
  BY <1>1, <1>5, <1>6
<1> QED
  BY <1>1, <1>7, <1>8, <1>9, <1>10 DEF Shape, Windowed

\* A bar slides the window of closes.
LEMMA ClosesSlide ==
  ASSUME IInv, Windowed, NEW m \in Bars, NEW n \in Nat \ {0}, Len(st.prices) <= n,
         st' = [prices |-> Slide(st.prices, m.close, n)]
  PROVE  /\ DOMAIN st' = DOMAIN Blank(made.name)
         /\ st'.prices \in Seq(Int)
         /\ Len(st'.prices) <= n
<1>1. Blank(made.name) = [prices |-> <<>>]
  BY Zenon DEF Windowed, Blank
<1>2. DOMAIN st' = DOMAIN Blank(made.name)
  BY <1>1
<1>3. st.prices \in Seq(Int) /\ m.close \in Int
  BY BarIsWhole DEF IInv, Shape
<1>4. st'.prices = Slide(st.prices, m.close, n)
  OBVIOUS
<1> QED
  BY <1>2, <1>3, <1>4, SlideKeepsLength

LEMMA WindowsShape ==
  ASSUME IInv, NEW m \in Bars, UNCHANGED made,
         \/ made.name = "sma" /\ SmaCross(m)
         \/ made.name = "mean_reversion" /\ MeanReversion(m)
         \/ made.name = "momentum" /\ Momentum(m)
  PROVE  Shape'
<1>1. made.p1 \in Nat \ {0} /\ made.p2 \in Nat \ {0}
  BY MadeWell DEF IInv, TypeOK
<1>2. CASE made.name = "sma" /\ SmaCross(m)
  <2>1. Windowed /\ Len(st.prices) <= made.p2
    BY <1>2 DEF IInv, Shape, Windowed
  <2>2. st' = [prices |-> Slide(st.prices, m.close, made.p2)]
    BY <1>2 DEF SmaCross
  <2> QED
    BY <1>1, <1>2, <2>1, <2>2, ClosesSlide DEF Shape, Windowed
<1>3. CASE made.name = "mean_reversion" /\ MeanReversion(m)
  <2>1. Windowed /\ Len(st.prices) <= made.p1
    BY <1>3 DEF IInv, Shape, Windowed
  <2>2. st' = [prices |-> Slide(st.prices, m.close, made.p1)]
    BY <1>3 DEF MeanReversion
  <2> QED
    BY <1>1, <1>3, <2>1, <2>2, ClosesSlide DEF Shape, Windowed
<1>4. CASE made.name = "momentum" /\ Momentum(m)
  <2>1. Windowed /\ Len(st.prices) <= made.p1 + 1
    BY <1>4 DEF IInv, Shape, Windowed
  <2>2. st' = [prices |-> Slide(st.prices, m.close, made.p1 + 1)]
    BY <1>4 DEF Momentum
  <2>3. made.p1 + 1 \in Nat \ {0}
    BY <1>1
  <2> QED
    BY <1>4, <2>1, <2>2, <2>3, ClosesSlide DEF Shape, Windowed
<1> QED
  BY <1>2, <1>3, <1>4

\* A bar slides the two windows of the channel, and those of the VWAP.
LEMMA BreakoutShape ==
  ASSUME IInv, NEW m \in Bars, UNCHANGED made, made.name = "breakout", Breakout(m)
  PROVE  Shape'
<1>1. /\ Len(st.highs) <= made.p1 /\ Len(st.lows) = Len(st.highs)
      /\ st.highs \in Seq(Int) /\ st.lows \in Seq(Int)
      /\ made.p1 \in Nat \ {0}
  BY MadeWell DEF IInv, TypeOK, Shape
<1>2. /\ st'.highs = Slide(st.highs, m.high, made.p1)
      /\ st'.lows = Slide(st.lows, m.low, made.p1)
      /\ DOMAIN st' = DOMAIN Blank("breakout")
  BY DEF Breakout, Blank
<1>3. /\ st'.highs \in Seq(Int) /\ st'.lows \in Seq(Int)
      /\ Len(st'.highs) <= made.p1 /\ Len(st'.lows) = Len(st'.highs)
  BY <1>1, <1>2, BarIsWhole, SlideKeepsLength
<1> QED
  BY <1>2, <1>3 DEF Shape, Windowed

LEMMA VwapShape ==
  ASSUME IInv, NEW m \in Bars, UNCHANGED made, made.name = "vwap", Vwap(m)
  PROVE  Shape'
<1> DEFINE tp_vol == (m.high + m.low + m.close) * m.volume
<1>1. /\ Len(st.tp_vol) <= made.p1 /\ Len(st.volumes) = Len(st.tp_vol)
      /\ st.tp_vol \in Seq(Int) /\ st.volumes \in Seq(Int)
      /\ made.p1 \in Nat \ {0}
  BY MadeWell DEF IInv, TypeOK, Shape
<1>2. /\ st'.tp_vol = Slide(st.tp_vol, tp_vol, made.p1)
      /\ st'.volumes = Slide(st.volumes, m.volume, made.p1)
      /\ DOMAIN st' = DOMAIN Blank("vwap")
  BY DEF Vwap, Blank
<1>3. tp_vol \in Int /\ m.volume \in Int
  BY BarIsWhole
<1> HIDE DEF tp_vol
<1>4. /\ st'.tp_vol \in Seq(Int) /\ st'.volumes \in Seq(Int)
      /\ Len(st'.tp_vol) <= made.p1 /\ Len(st'.volumes) = Len(st'.tp_vol)
  BY <1>1, <1>2, <1>3, SlideKeepsLength
<1> QED
  BY <1>2, <1>4 DEF Shape, Windowed

\* The other strategies have no window.
LEMMA WindowlessShape ==
  ASSUME IInv, NEW m \in Bars, UNCHANGED made,
         \/ made.name = "rsi" /\ Rsi(m)
         \/ made.name = "scalping" /\ Scalping(m)
         \/ made.name = "pullback" /\ Pullback(m)
         \/ made.name = "orb" /\ Orb(m)
  PROVE  Shape'
<1>1. DOMAIN st = DOMAIN Blank(made.name)
  BY DEF IInv, Shape
<1>2. CASE made.name = "rsi" /\ Rsi(m)
  <2>1. CASE RsiFirst(m)
    BY <1>1, <1>2, <2>1 DEF RsiFirst, Shape, Windowed
  <2>2. CASE RsiWarmUp(m)
    BY <1>2, <2>2 DEF RsiWarmUp, Blank, Shape, Windowed
  <2>3. CASE RsiTrades(m)
    BY <1>1, <1>2, <2>3 DEF RsiTrades, Shape, Windowed
  <2> QED
    BY <1>2, <2>1, <2>2, <2>3 DEF Rsi
<1>3. CASE made.name = "scalping" /\ Scalping(m)
  BY <1>3 DEF Scalping, Blank, Shape, Windowed
<1>4. CASE made.name = "pullback" /\ Pullback(m)
  BY <1>1, <1>4 DEF Pullback, Blank, Shape, Windowed
<1>5. CASE made.name = "orb" /\ Orb(m)
  BY <1>5 DEF Orb, OrbBar, Blank, Shape, Windowed
<1> QED
  BY <1>2, <1>3, <1>4, <1>5

\* TypeOK is inductive with the types of the windows.
LEMMA StepIsTyped ==
  ASSUME IInv, [Next]_vars
  PROVE  IInv'
<1>1. CASE NextBar
  <2>1. PICK m \in Bars : OnMarketEvent(m) /\ history' = Append(history, m)
    BY <1>1 DEF NextBar
  <2>2. UNCHANGED made /\ Len(history) < MaxBars
    BY <1>1 DEF NextBar
  <2>3. Rule!Next
    BY <2>1, WindowsSignal, AveragesSignal, RangesSignal DEF OnMarketEvent
  <2>4. in_position' \in BOOLEAN /\ signals' \in {<<>>, <<"LONG">>, <<"EXIT">>}
    BY <2>3 DEF IInv, TypeOK, Rule!Next, Rule!Keep, Rule!Enter, Rule!Leave
  <2>5. history' \in Seq(Bars) /\ Len(history') <= MaxBars
    BY <2>1, <2>2, StrategiesAssumption DEF IInv, TypeOK
  <2>6. Shape'
    BY <2>1, <2>2, WindowsShape, BreakoutShape, VwapShape, WindowlessShape, Zenon
      DEF OnMarketEvent
  <2>7. made' \in { Make(a) : a \in Args }
    BY <2>2 DEF IInv, TypeOK
  <2> QED
    BY <2>4, <2>5, <2>6, <2>7 DEF IInv, TypeOK, Shape
<1>2. CASE UNCHANGED vars
  BY <1>2 DEF vars, IInv, TypeOK, Shape, Windowed
<1> QED
  BY <1>1, <1>2 DEF Next, EndOfBars

LEMMA AlwaysIInv == Spec => []IInv
<1>1. Init => IInv
  <2> SUFFICES ASSUME Init PROVE IInv
    OBVIOUS
  <2>1. Shape
    BY BlankShape
  <2>2. history \in Seq(Bars) /\ Len(history) <= MaxBars
    BY StrategiesAssumption DEF Init
  <2> QED
    BY <2>1, <2>2 DEF Init, IInv, TypeOK, Shape
<1>2. IInv /\ [Next]_vars => IInv'
  BY StepIsTyped
<1> QED
  BY <1>1, <1>2, PTL DEF Spec

\* No strategy loses or gains a member, and no window outgrows the period it
\* is made for.
THEOREM TypeCorrect == Spec => []TypeOK
BY AlwaysIInv, PTL DEF IInv

-----------------------------------------------------------------------------
(* The opening range *)

\* The counter of a cycle tells the bars of its range.
OrbInv ==
  made.name = "orb" =>
    /\ st.bar_in_cycle \in Nat
    /\ in_position => st.bar_in_cycle > made.p1

\* A bar of a reset exits, another bar of the range trades nothing, and a
\* later bar of the cycle may enter.
LEMMA OrbStep ==
  ASSUME TypeOK, OrbInv, NEW m, UNCHANGED made, made.name = "orb", Orb(m)
  PROVE  OrbInv'
<1> DEFINE reset == st.bar_in_cycle >= made.p2
           bar == IF reset THEN 1 ELSE st.bar_in_cycle + 1
<1>1. made.p1 \in Nat \ {0} /\ made.p2 \in Nat \ {0} /\ st.bar_in_cycle \in Nat
  BY MadeWell DEF TypeOK, OrbInv
<1>2. st'.bar_in_cycle = bar
  <2>1. \E high, low : st' = [bar_in_cycle |-> bar, range_high |-> high, range_low |-> low]
    BY Zenon DEF Orb, OrbBar
  <2> HIDE DEF bar
  <2> QED
    BY <2>1
<1>3. bar \in Nat /\ (reset => bar <= made.p1)
  BY <1>1
<1>4. ASSUME bar <= made.p1 PROVE ~in_position'
  <2>1. CASE reset
    BY <1>4, <2>1 DEF Orb, OrbBar, Decide, Silent, TypeOK
  <2>2. CASE ~reset
    <3>1. ~in_position
      BY <1>1, <1>4, <2>2 DEF OrbInv
    <3>2. Silent
      BY <1>4, <2>2 DEF Orb, OrbBar
    <3> QED
      BY <3>1, <3>2 DEF Silent
  <2> QED
    BY <2>1, <2>2
<1> HIDE DEF bar
<1> QED
  BY <1>1, <1>2, <1>3, <1>4 DEF OrbInv

\* Whatever the length of the range and of the cycle, the opening-range
\* strategy is out of its position while a range is being built.
THEOREM FlatWhileRangeBuilds == Spec => []FlatInOpeningRange
<1>1. Init => OrbInv
  BY DEF Init, Blank, OrbInv
<1>2. TypeOK /\ OrbInv /\ [Next]_vars => OrbInv'
  <2> SUFFICES ASSUME TypeOK, OrbInv, [Next]_vars PROVE OrbInv'
    OBVIOUS
  <2>1. CASE NextBar
    BY <2>1, OrbStep DEF NextBar, OnMarketEvent, OrbInv
  <2>2. CASE UNCHANGED vars
    BY <2>2 DEF vars, OrbInv
  <2> QED
    BY <2>1, <2>2 DEF Next, EndOfBars
<1>3. TypeOK /\ OrbInv => FlatInOpeningRange
  <2> SUFFICES ASSUME TypeOK, OrbInv PROVE FlatInOpeningRange
    OBVIOUS
  <2>1. made.p1 \in Nat
    BY MadeWell DEF TypeOK
  <2> QED
    BY <2>1 DEF OrbInv, FlatInOpeningRange
<1> QED
  BY <1>1, <1>2, <1>3, TypeCorrect, PTL DEF Spec

-----------------------------------------------------------------------------
(* The RSI strategy *)

IsAverage(avg) == avg.num \in Nat /\ avg.den \in Nat \ {0}

\* In its position the strategy has an average loss, so that no bar is skipped.
RsiInv ==
  made.name = "rsi" =>
    /\ st.prev_close \in Int
    /\ IsAverage(st.avg_gain) /\ IsAverage(st.avg_loss)
    /\ in_position => st.warmed_up /\ st.avg_loss.num > 0
    /\ LeavesWhenOverbought

\* Wilder's average of a period of two or more forgets no loss altogether.
LEMMA WilderKeeps ==
  ASSUME NEW avg, IsAverage(avg), NEW x \in Nat, NEW p \in Nat, p >= 2
  PROVE  /\ IsAverage(Wilder(avg, x, p))
         /\ avg.num > 0 => Wilder(avg, x, p).num > 0
<1>1. \A a, b \in Nat : a * b \in Nat /\ (a > 0 /\ b > 0 => a * b > 0)
  BY SMT
<1>2. /\ avg.num \in Nat /\ avg.den \in Nat /\ avg.den > 0
      /\ p - 1 \in Nat /\ p - 1 > 0
  BY DEF IsAverage
<1>3. /\ avg.num * (p - 1) \in Nat /\ x * avg.den \in Nat
      /\ p * avg.den \in Nat /\ p * avg.den > 0
      /\ avg.num > 0 => avg.num * (p - 1) > 0
  BY <1>1, <1>2
<1>4. /\ Wilder(avg, x, p).num = avg.num * (p - 1) + x * avg.den
      /\ Wilder(avg, x, p).den = p * avg.den
  BY DEF Wilder
<1> QED
  BY <1>3, <1>4 DEF IsAverage

LEMMA GainIsNat == ASSUME NEW c \in Int PROVE Gain(c) \in Nat
BY DEF Gain

\* Before the averages are warm nothing is traded.
LEMMA RsiWarms ==
  ASSUME RsiInv, TypeOK, NEW m \in Bars, UNCHANGED made, made.name = "rsi",
         RsiFirst(m) \/ RsiWarmUp(m)
  PROVE  RsiInv'
<1>1. CASE RsiFirst(m)
  <2>1. /\ st'.prev_close = m.close
        /\ st'.avg_gain = st.avg_gain /\ st'.avg_loss = st.avg_loss
        /\ st'.warmed_up = st.warmed_up
    BY <1>1 DEF RsiFirst, TypeOK, Blank
  <2> QED
    BY <1>1, <2>1, BarIsWhole DEF RsiFirst, Silent, RsiInv, LeavesWhenOverbought
<1>2. CASE RsiWarmUp(m)
  <2> DEFINE change == m.close - st.prev_close
             den == IF st.bars_seen = made.p1 THEN made.p1 ELSE 1
  <2>1. /\ st'.prev_close = m.close
        /\ st'.avg_gain = [num |-> st.avg_gain.num + Gain(change), den |-> den]
        /\ st'.avg_loss = [num |-> st.avg_loss.num + Gain(-change), den |-> den]
    BY <1>2 DEF RsiWarmUp
  <2>2. Gain(change) \in Nat /\ Gain(-change) \in Nat
    BY GainIsNat, BarIsWhole DEF RsiInv
  <2>3. den \in Nat \ {0}
    BY MadeWell DEF TypeOK
  <2>4. ~in_position'
    BY <1>2 DEF RsiWarmUp, Silent, RsiInv
  <2> HIDE DEF change, den
  <2>5. IsAverage(st'.avg_gain) /\ IsAverage(st'.avg_loss)
    BY <2>1, <2>2, <2>3 DEF IsAverage, RsiInv
  <2> QED
    BY <2>1, <2>4, <2>5, BarIsWhole DEF RsiInv, LeavesWhenOverbought
<1> QED
  BY <1>1, <1>2

\* A warm bar with an average loss leaves no position above the level.
LEMMA RsiTradesWell ==
  ASSUME RsiInv, TypeOK, NEW m \in Bars, UNCHANGED made, made.name = "rsi",
         made.p1 >= 2, RsiTrades(m)
  PROVE  RsiInv'
<1> DEFINE change == m.close - st.prev_close
           gain == st'.avg_gain.num
           loss == st'.avg_loss.num
           enter == 1000 * gain < 300 * (gain + loss)
           exit == 1000 * gain > made.fp * (gain + loss)
<1>1. /\ st'.prev_close = m.close /\ st'.warmed_up
      /\ st'.avg_gain = Wilder(st.avg_gain, Gain(change), made.p1)
      /\ st'.avg_loss = Wilder(st.avg_loss, Gain(-change), made.p1)
  BY DEF RsiTrades, TypeOK, Blank
<1>2. Gain(change) \in Nat /\ Gain(-change) \in Nat
  BY GainIsNat, BarIsWhole DEF RsiInv
<1>3. made.p1 \in Nat /\ made.fp \in Nat
  BY MadeWell DEF TypeOK
<1> HIDE DEF change
<1>4. /\ IsAverage(st'.avg_gain) /\ IsAverage(st'.avg_loss)
      /\ st.avg_loss.num > 0 => st'.avg_loss.num > 0
  BY <1>1, <1>2, <1>3, WilderKeeps DEF RsiInv
<1>5. gain \in Nat /\ loss \in Nat
  BY <1>4 DEF IsAverage
<1>6. CASE loss = 0
  <2>1. ~in_position
    BY <1>4, <1>6 DEF RsiInv
  <2>2. Silent
    BY <1>6 DEF RsiTrades, NoLoss
  <2> QED
    BY <1>1, <1>4, <2>1, <2>2, BarIsWhole DEF Silent, RsiInv, LeavesWhenOverbought
<1>7. CASE loss # 0
  <2>1. Decide(enter, exit)
    BY <1>7, Zenon DEF RsiTrades, NoLoss
  <2>2. made.fp >= 300 /\ enter => ~exit
    <3>1. \A f, g, l \in Nat : f >= 300 /\ 1000 * g < 300 * (g + l) => ~(1000 * g > f * (g + l))
      BY SMT
    <3> QED
      BY <1>3, <1>5, <3>1
  <2>3. made.fp >= 300 /\ in_position' => ~exit
    <3> HIDE DEF enter, exit
    <3> QED
      BY <2>1, <2>2, Zenon DEF Decide, Silent
  <2>4. made.fp >= 300 /\ in_position' => 1000 * gain <= made.fp * (gain + loss)
    <3>1. \A f, g, l \in Nat : ~(1000 * g > f * (g + l)) => 1000 * g <= f * (g + l)
      BY SMT
    <3> QED
      BY <1>3, <1>5, <2>3, <3>1
  <2>5. loss > 0
    BY <1>5, <1>7
  <2> QED
    BY <1>1, <1>4, <2>4, <2>5, BarIsWhole DEF RsiInv, LeavesWhenOverbought
<1> QED
  BY <1>6, <1>7

\* With a period of at least two and an overbought level of at least 30, no bar
\* leaves the RSI strategy in its position with an RSI above that level.
THEOREM ExitsWhenOverbought ==
  ASSUME \A a \in Args : a.name = "rsi" => a.p1 # 1
  PROVE  Spec => []LeavesWhenOverbought
<1>1. Init => RsiInv
  BY DEF Init, Blank, Fraction, RsiInv, IsAverage, LeavesWhenOverbought
<1>2. TypeOK /\ RsiInv /\ [Next]_vars => RsiInv'
  <2> SUFFICES ASSUME TypeOK, RsiInv, [Next]_vars PROVE RsiInv'
    OBVIOUS
  <2>1. made.name = "rsi" => made.p1 >= 2
    BY StrategiesAssumption DEF TypeOK, Make, OrDefault, Defaults
  <2>2. CASE NextBar
    BY <2>1, <2>2, RsiWarms, RsiTradesWell DEF NextBar, OnMarketEvent, Rsi, RsiInv
  <2>3. CASE UNCHANGED vars
    BY <2>3 DEF vars, RsiInv, LeavesWhenOverbought
  <2> QED
    BY <2>2, <2>3 DEF Next, EndOfBars
<1>3. RsiInv => LeavesWhenOverbought
  BY DEF RsiInv, LeavesWhenOverbought
<1> QED
  BY <1>1, <1>2, <1>3, TypeCorrect, PTL DEF Spec

LEMMA SmallestOf ==
  ASSUME NEW T \in SUBSET Nat, T # {}
  PROVE  \E x \in T : \A y \in T : x <= y
<1> DEFINE R == {p \in Nat \X Nat : p[1] < p[2]}
<1>1. R = OpToRel(<, Nat)
  BY DEF OpToRel
<1>2. IsWellFoundedOn(R, Nat)
  BY <1>1, NatLessThanWellFounded
<1>3. PICK x \in T : \A y \in T : ~(<<y, x>> \in R)
  BY <1>2, WFMin
<1>4. \A y \in T : <<y, x>> \in R <=> y < x
  OBVIOUS
<1> HIDE DEF R
<1>5. ASSUME NEW y \in T PROVE x <= y
  <2>1. x \in Nat /\ y \in Nat
    OBVIOUS
  <2>2. ~(y < x)
    BY <1>3, <1>4
  <2> QED
    BY <2>1, <2>2
<1> QED
  BY <1>5

\* Induction over the natural numbers, for a set of them.
LEMMA AllReached ==
  ASSUME NEW G, 0 \in G, \A n \in Nat : n \in G => n + 1 \in G
  PROVE  \A n \in Nat : n \in G
<1> DEFINE Bad == { n \in Nat : n \notin G }
<1> SUFFICES ASSUME Bad # {} PROVE FALSE
  OBVIOUS
<1>1. PICK k \in Bad : \A j \in Bad : k <= j
  <2>1. Bad \in SUBSET Nat
    OBVIOUS
  <2> HIDE DEF Bad
  <2> QED
    BY <2>1, SmallestOf
<1>2. k \in Nat /\ k # 0 /\ k \notin G
  OBVIOUS
<1>3. k - 1 \in Nat /\ ~(k <= k - 1) /\ (k - 1) + 1 = k
  BY <1>2
<1>4. k - 1 \in G
  BY <1>1, <1>3
<1> QED
  BY <1>2, <1>3, <1>4

-----------------------------------------------------------------------------
(* Sums and products, one factor at a time *)

\* A function that sums the first numbers of f, one number at a time.
IsSum(s, f, n) == s = [i \in 0 .. n |-> IF i = 0 THEN 0 ELSE s[i - 1] + f[i]]

LEMMA SumSteps ==
  ASSUME NEW f, NEW n \in Nat, NEW s, IsSum(s, f, n), NEW i \in 0 .. n
  PROVE  s[i] = IF i = 0 THEN 0 ELSE s[i - 1] + f[i]
BY Zenon DEF IsSum

\* There is one for every n, and SumTo is its last value.
LEMMA SumExists ==
  ASSUME NEW f, NEW n \in Nat
  PROVE  \E s : IsSum(s, f, n)
<1> DEFINE G == { k \in Nat : \E s : IsSum(s, f, k) }
<1>1. 0 \in G
  <2> DEFINE s == [i \in 0 .. 0 |-> 0]
  <2>1. \A i \in 0 .. 0 : s[i] = IF i = 0 THEN 0 ELSE s[i - 1] + f[i]
    OBVIOUS
  <2>2. s = [i \in 0 .. 0 |-> s[i]]
    OBVIOUS
  <2> HIDE DEF s
  <2>3. IsSum(s, f, 0)
    BY <2>1, <2>2 DEF IsSum
  <2> QED
    BY <2>3
<1>2. ASSUME NEW k \in Nat, k \in G PROVE k + 1 \in G
  <2>1. PICK s : IsSum(s, f, k)
    BY <1>2
  <2> DEFINE t == [i \in 0 .. k + 1 |-> IF i = k + 1 THEN s[k] + f[k + 1] ELSE s[i]]
  <2>2. ASSUME NEW i \in 0 .. k + 1 PROVE t[i] = IF i = 0 THEN 0 ELSE t[i - 1] + f[i]
    <3>1. CASE i = k + 1
      <4>1. i # 0 /\ i - 1 = k /\ k \in 0 .. k + 1 /\ k # k + 1
        BY <3>1
      <4>2. t[i] = s[k] + f[i] /\ t[k] = s[k]
        BY <3>1, <4>1
      <4> QED
        BY <4>1, <4>2
    <3>2. CASE i # k + 1
      <4>1. i \in 0 .. k /\ (i # 0 => i - 1 \in 0 .. k + 1 /\ i - 1 # k + 1)
        BY <3>2
      <4>2. s[i] = IF i = 0 THEN 0 ELSE s[i - 1] + f[i]
        BY <2>1, <4>1, SumSteps
      <4> QED
        BY <3>2, <4>1, <4>2
    <3> QED
      BY <3>1, <3>2
  <2>3. t = [i \in 0 .. k + 1 |-> t[i]]
    OBVIOUS
  <2> HIDE DEF t
  <2>4. IsSum(t, f, k + 1)
    BY <2>2, <2>3 DEF IsSum
  <2> QED
    BY <2>4
<1>3. \A k \in Nat : k \in G
  <2> HIDE DEF G
  <2> QED
    BY <1>1, <1>2, AllReached
<1> QED
  BY <1>3

LEMMA SumIs ==
  ASSUME NEW f, NEW n \in Nat
  PROVE  \E s : IsSum(s, f, n) /\ SumTo(f, n) = s[n]
<1> DEFINE s == CHOOSE s : IsSum(s, f, n)
<1>1. IsSum(s, f, n)
  BY SumExists
<1>2. SumTo(f, n) = s[n]
  BY Zenon DEF SumTo, IsSum
<1> HIDE DEF s
<1> QED
  BY <1>1, <1>2

\* The sums of fewer numbers are the first sums of more.
LEMMA SumsAgree ==
  ASSUME NEW f, NEW n \in Nat, NEW m \in Nat, n <= m,
         NEW s, IsSum(s, f, n), NEW t, IsSum(t, f, m)
  PROVE  s[n] = t[n]
<1> DEFINE G == { k \in Nat : k <= n => s[k] = t[k] }
<1>1. 0 \in G
  <2>1. 0 \in 0 .. n /\ 0 \in 0 .. m
    OBVIOUS
  <2>2. s[0] = t[0]
    BY <2>1, SumSteps
  <2> QED
    BY <2>2
<1>2. ASSUME NEW k \in Nat, k \in G PROVE k + 1 \in G
  <2> SUFFICES ASSUME k + 1 <= n PROVE s[k + 1] = t[k + 1]
    OBVIOUS
  <2>1. /\ k + 1 \in 0 .. n /\ k + 1 \in 0 .. m
        /\ k + 1 # 0 /\ (k + 1) - 1 = k /\ s[k] = t[k]
    BY <1>2
  <2>2. s[k + 1] = s[(k + 1) - 1] + f[k + 1] /\ t[k + 1] = t[(k + 1) - 1] + f[k + 1]
    BY <2>1, SumSteps
  <2> QED
    BY <2>1, <2>2
<1>3. \A k \in Nat : k \in G
  <2> HIDE DEF G
  <2> QED
    BY <1>1, <1>2, AllReached
<1> QED
  BY <1>3

\* A sum of nothing is 0, and each step adds one number.
LEMMA SumNext ==
  ASSUME NEW f
  PROVE  /\ SumTo(f, 0) = 0
         /\ \A n \in Nat : SumTo(f, n + 1) = SumTo(f, n) + f[n + 1]
<1>1. SumTo(f, 0) = 0
  <2>1. PICK s : IsSum(s, f, 0) /\ SumTo(f, 0) = s[0]
    BY SumIs
  <2>2. 0 \in 0 .. 0
    OBVIOUS
  <2>3. s[0] = IF 0 = 0 THEN 0 ELSE s[0 - 1] + f[0]
    BY <2>1, <2>2, SumSteps
  <2> QED
    BY <2>1, <2>3
<1>2. ASSUME NEW n \in Nat PROVE SumTo(f, n + 1) = SumTo(f, n) + f[n + 1]
  <2>1. PICK s : IsSum(s, f, n) /\ SumTo(f, n) = s[n]
    BY SumIs
  <2>2. PICK t : IsSum(t, f, n + 1) /\ SumTo(f, n + 1) = t[n + 1]
    BY SumIs
  <2>3. n + 1 \in 0 .. n + 1 /\ n + 1 # 0 /\ (n + 1) - 1 = n /\ n <= n + 1
    OBVIOUS
  <2>4. t[n + 1] = t[n] + f[n + 1]
    <3>1. t[n + 1] = t[(n + 1) - 1] + f[n + 1]
      BY <2>2, <2>3, SumSteps
    <3> QED
      BY <2>3, <3>1
  <2>5. s[n] = t[n]
    BY <2>1, <2>2, <2>3, SumsAgree
  <2> QED
    BY <2>1, <2>2, <2>4, <2>5
<1> QED
  BY <1>1, <1>2

\* The same of products.
IsProduct(s, f, n) == s = [i \in 0 .. n |-> IF i = 0 THEN 1 ELSE s[i - 1] * f[i]]

LEMMA ProductSteps ==
  ASSUME NEW f, NEW n \in Nat, NEW s, IsProduct(s, f, n), NEW i \in 0 .. n
  PROVE  s[i] = IF i = 0 THEN 1 ELSE s[i - 1] * f[i]
BY Zenon DEF IsProduct

LEMMA ProductExists ==
  ASSUME NEW f, NEW n \in Nat
  PROVE  \E s : IsProduct(s, f, n)
<1> DEFINE G == { k \in Nat : \E s : IsProduct(s, f, k) }
<1>1. 0 \in G
  <2> DEFINE s == [i \in 0 .. 0 |-> 1]
  <2>1. \A i \in 0 .. 0 : s[i] = IF i = 0 THEN 1 ELSE s[i - 1] * f[i]
    OBVIOUS
  <2>2. s = [i \in 0 .. 0 |-> s[i]]
    OBVIOUS
  <2> HIDE DEF s
  <2>3. IsProduct(s, f, 0)
    BY <2>1, <2>2 DEF IsProduct
  <2> QED
    BY <2>3
<1>2. ASSUME NEW k \in Nat, k \in G PROVE k + 1 \in G
  <2>1. PICK s : IsProduct(s, f, k)
    BY <1>2
  <2> DEFINE t == [i \in 0 .. k + 1 |-> IF i = k + 1 THEN s[k] * f[k + 1] ELSE s[i]]
  <2>2. ASSUME NEW i \in 0 .. k + 1 PROVE t[i] = IF i = 0 THEN 1 ELSE t[i - 1] * f[i]
    <3>1. CASE i = k + 1
      <4>1. i # 0 /\ i - 1 = k /\ k \in 0 .. k + 1 /\ k # k + 1
        BY <3>1
      <4>2. t[i] = s[k] * f[i] /\ t[k] = s[k]
        BY <3>1, <4>1
      <4> QED
        BY <4>1, <4>2
    <3>2. CASE i # k + 1
      <4>1. i \in 0 .. k /\ (i # 0 => i - 1 \in 0 .. k + 1 /\ i - 1 # k + 1)
        BY <3>2
      <4>2. s[i] = IF i = 0 THEN 1 ELSE s[i - 1] * f[i]
        BY <2>1, <4>1, ProductSteps
      <4> QED
        BY <3>2, <4>1, <4>2
    <3> QED
      BY <3>1, <3>2
  <2>3. t = [i \in 0 .. k + 1 |-> t[i]]
    OBVIOUS
  <2> HIDE DEF t
  <2>4. IsProduct(t, f, k + 1)
    BY <2>2, <2>3 DEF IsProduct
  <2> QED
    BY <2>4
<1>3. \A k \in Nat : k \in G
  <2> HIDE DEF G
  <2> QED
    BY <1>1, <1>2, AllReached
<1> QED
  BY <1>3

LEMMA ProductIs ==
  ASSUME NEW f, NEW n \in Nat
  PROVE  \E s : IsProduct(s, f, n) /\ ProductTo(f, n) = s[n]
<1> DEFINE s == CHOOSE s : IsProduct(s, f, n)
<1>1. IsProduct(s, f, n)
  BY ProductExists
<1>2. ProductTo(f, n) = s[n]
  BY Zenon DEF ProductTo, IsProduct
<1> HIDE DEF s
<1> QED
  BY <1>1, <1>2

LEMMA ProductsAgree ==
  ASSUME NEW f, NEW n \in Nat, NEW m \in Nat, n <= m,
         NEW s, IsProduct(s, f, n), NEW t, IsProduct(t, f, m)
  PROVE  s[n] = t[n]
<1> DEFINE G == { k \in Nat : k <= n => s[k] = t[k] }
<1>1. 0 \in G
  <2>1. 0 \in 0 .. n /\ 0 \in 0 .. m
    OBVIOUS
  <2>2. s[0] = t[0]
    BY <2>1, ProductSteps
  <2> QED
    BY <2>2
<1>2. ASSUME NEW k \in Nat, k \in G PROVE k + 1 \in G
  <2> SUFFICES ASSUME k + 1 <= n PROVE s[k + 1] = t[k + 1]
    OBVIOUS
  <2>1. /\ k + 1 \in 0 .. n /\ k + 1 \in 0 .. m
        /\ k + 1 # 0 /\ (k + 1) - 1 = k /\ s[k] = t[k]
    BY <1>2
  <2>2. s[k + 1] = s[(k + 1) - 1] * f[k + 1] /\ t[k + 1] = t[(k + 1) - 1] * f[k + 1]
    BY <2>1, ProductSteps
  <2> QED
    BY <2>1, <2>2
<1>3. \A k \in Nat : k \in G
  <2> HIDE DEF G
  <2> QED
    BY <1>1, <1>2, AllReached
<1> QED
  BY <1>3

\* A product of nothing is 1, and each step multiplies by one number.
LEMMA ProductNext ==
  ASSUME NEW f
  PROVE  /\ ProductTo(f, 0) = 1
         /\ \A n \in Nat : ProductTo(f, n + 1) = ProductTo(f, n) * f[n + 1]
<1>1. ProductTo(f, 0) = 1
  <2>1. PICK s : IsProduct(s, f, 0) /\ ProductTo(f, 0) = s[0]
    BY ProductIs
  <2>2. 0 \in 0 .. 0
    OBVIOUS
  <2>3. s[0] = IF 0 = 0 THEN 1 ELSE s[0 - 1] * f[0]
    BY <2>1, <2>2, ProductSteps
  <2> QED
    BY <2>1, <2>3
<1>2. ASSUME NEW n \in Nat PROVE ProductTo(f, n + 1) = ProductTo(f, n) * f[n + 1]
  <2>1. PICK s : IsProduct(s, f, n) /\ ProductTo(f, n) = s[n]
    BY ProductIs
  <2>2. PICK t : IsProduct(t, f, n + 1) /\ ProductTo(f, n + 1) = t[n + 1]
    BY ProductIs
  <2>3. n + 1 \in 0 .. n + 1 /\ n + 1 # 0 /\ (n + 1) - 1 = n /\ n <= n + 1
    OBVIOUS
  <2>4. t[n + 1] = t[n] * f[n + 1]
    <3>1. t[n + 1] = t[(n + 1) - 1] * f[n + 1]
      BY <2>2, <2>3, ProductSteps
    <3> QED
      BY <2>3, <3>1
  <2>5. s[n] = t[n]
    BY <2>1, <2>2, <2>3, ProductsAgree
  <2> QED
    BY <2>1, <2>2, <2>4, <2>5
<1> QED
  BY <1>1, <1>2

\* Sums of integers are integers.
LEMMA SumType ==
  ASSUME NEW f, NEW n \in Nat, \A i \in 1 .. n : f[i] \in Int
  PROVE  SumTo(f, n) \in Int
<1> DEFINE G == { k \in Nat : k <= n => SumTo(f, k) \in Int }
<1>1. 0 \in G
  BY SumNext
<1>2. ASSUME NEW k \in Nat, k \in G PROVE k + 1 \in G
  <2> SUFFICES ASSUME k + 1 <= n PROVE SumTo(f, k + 1) \in Int
    OBVIOUS
  <2>1. SumTo(f, k) \in Int /\ f[k + 1] \in Int
    BY <1>2
  <2> QED
    BY <2>1, SumNext
<1>3. \A k \in Nat : k \in G
  <2> HIDE DEF G
  <2> QED
    BY <1>1, <1>2, AllReached
<1> QED
  BY <1>3

LEMMA SameProducts ==
  ASSUME NEW f, NEW g, NEW n \in Nat, \A i \in 1 .. n : f[i] = g[i]
  PROVE  ProductTo(f, n) = ProductTo(g, n)
<1> DEFINE G == { k \in Nat : k <= n => ProductTo(f, k) = ProductTo(g, k) }
<1>1. 0 \in G
  BY ProductNext
<1>2. ASSUME NEW k \in Nat, k \in G PROVE k + 1 \in G
  <2> SUFFICES ASSUME k + 1 <= n PROVE ProductTo(f, k + 1) = ProductTo(g, k + 1)
    OBVIOUS
  <2>1. ProductTo(f, k) = ProductTo(g, k) /\ f[k + 1] = g[k + 1]
    BY <1>2
  <2>2. /\ ProductTo(f, k + 1) = ProductTo(f, k) * f[k + 1]
        /\ ProductTo(g, k + 1) = ProductTo(g, k) * g[k + 1]
    BY ProductNext
  <2> QED
    BY <2>1, <2>2
<1>3. \A k \in Nat : k \in G
  <2> HIDE DEF G
  <2> QED
    BY <1>1, <1>2, AllReached
<1> QED
  BY <1>3

\* Two sums of the same numbers are one; a factor of all of them is one of the
\* sum.
LEMMA SumScales ==
  ASSUME NEW f, NEW g, NEW c \in Int, NEW n \in Nat,
         \A i \in 1 .. n : f[i] \in Int /\ g[i] = f[i] * c
  PROVE  SumTo(g, n) = SumTo(f, n) * c
<1> DEFINE G == { k \in Nat : k <= n => SumTo(g, k) = SumTo(f, k) * c }
<1>1. 0 \in G
  BY SumNext
<1>2. ASSUME NEW k \in Nat, k \in G PROVE k + 1 \in G
  <2> SUFFICES ASSUME k + 1 <= n PROVE SumTo(g, k + 1) = SumTo(f, k + 1) * c
    OBVIOUS
  <2>1. SumTo(g, k) = SumTo(f, k) * c /\ f[k + 1] \in Int /\ g[k + 1] = f[k + 1] * c
    BY <1>2
  <2>2. SumTo(f, k) \in Int
    <3>1. \A i \in 1 .. k : f[i] \in Int
      OBVIOUS
    <3> QED
      BY <3>1, SumType
  <2>3. SumTo(f, k + 1) = SumTo(f, k) + f[k + 1] /\ SumTo(g, k + 1) = SumTo(g, k) + g[k + 1]
    BY SumNext
  <2>4. \A a, b \in Int : (a + b) * c = a * c + b * c
    OBVIOUS
  <2> QED
    BY <2>1, <2>2, <2>3, <2>4
<1>3. \A k \in Nat : k \in G
  <2> HIDE DEF G
  <2> QED
    BY <1>1, <1>2, AllReached
<1> QED
  BY <1>3

LEMMA SameSums ==
  ASSUME NEW f, NEW g, NEW n \in Nat, \A i \in 1 .. n : f[i] = g[i]
  PROVE  SumTo(f, n) = SumTo(g, n)
<1> DEFINE G == { k \in Nat : k <= n => SumTo(f, k) = SumTo(g, k) }
<1>1. 0 \in G
  BY SumNext
<1>2. ASSUME NEW k \in Nat, k \in G PROVE k + 1 \in G
  <2> SUFFICES ASSUME k + 1 <= n PROVE SumTo(f, k + 1) = SumTo(g, k + 1)
    OBVIOUS
  <2>1. SumTo(f, k) = SumTo(g, k) /\ f[k + 1] = g[k + 1]
    BY <1>2
  <2>2. SumTo(f, k + 1) = SumTo(f, k) + f[k + 1] /\ SumTo(g, k + 1) = SumTo(g, k) + g[k + 1]
    BY SumNext
  <2> QED
    BY <2>1, <2>2
<1>3. \A k \in Nat : k \in G
  <2> HIDE DEF G
  <2> QED
    BY <1>1, <1>2, AllReached
<1> QED
  BY <1>3

\* The sum without its first number.
LEMMA SumWithoutFirst ==
  ASSUME NEW f, NEW g, NEW n \in Nat,
         \A i \in 1 .. n + 1 : f[i] \in Int,
         \A i \in 1 .. n : g[i] = f[i + 1]
  PROVE  SumTo(g, n) = SumTo(f, n + 1) - f[1]
<1> DEFINE G == { k \in Nat : k <= n => SumTo(g, k) = SumTo(f, k + 1) - f[1] }
<1>1. 0 \in G
  <2>1. SumTo(g, 0) = 0 /\ f[1] \in Int
    BY SumNext
  <2>2. SumTo(f, 0 + 1) = SumTo(f, 0) + f[0 + 1] /\ SumTo(f, 0) = 0
    BY SumNext
  <2> QED
    BY <2>1, <2>2
<1>2. ASSUME NEW k \in Nat, k \in G PROVE k + 1 \in G
  <2> SUFFICES ASSUME k + 1 <= n PROVE SumTo(g, k + 1) = SumTo(f, (k + 1) + 1) - f[1]
    OBVIOUS
  <2>1. /\ SumTo(g, k) = SumTo(f, k + 1) - f[1]
        /\ g[k + 1] = f[(k + 1) + 1] /\ f[1] \in Int /\ f[(k + 1) + 1] \in Int
    BY <1>2
  <2>2. SumTo(f, k + 1) \in Int
    <3>1. \A i \in 1 .. k + 1 : f[i] \in Int
      OBVIOUS
    <3> QED
      BY <3>1, SumType
  <2>3. /\ SumTo(g, k + 1) = SumTo(g, k) + g[k + 1]
        /\ SumTo(f, (k + 1) + 1) = SumTo(f, k + 1) + f[(k + 1) + 1]
    BY SumNext
  <2> QED
    BY <2>1, <2>2, <2>3
<1>3. \A k \in Nat : k \in G
  <2> HIDE DEF G
  <2> QED
    BY <1>1, <1>2, AllReached
<1> QED
  BY <1>3

\* A sum of numbers that are not negative is none, and is 0 when all of them are.
LEMMA SumOfNats ==
  ASSUME NEW f, NEW n \in Nat, \A i \in 1 .. n : f[i] \in Nat
  PROVE  /\ SumTo(f, n) \in Nat
         /\ SumTo(f, n) # 0 <=> \E i \in 1 .. n : f[i] > 0
<1> DEFINE G == { k \in Nat : k <= n =>
                    /\ SumTo(f, k) \in Nat
                    /\ SumTo(f, k) # 0 <=> \E i \in 1 .. k : f[i] > 0 }
<1>1. 0 \in G
  BY SumNext
<1>2. ASSUME NEW k \in Nat, k \in G PROVE k + 1 \in G
  <2> SUFFICES ASSUME k + 1 <= n
               PROVE  /\ SumTo(f, k + 1) \in Nat
                      /\ SumTo(f, k + 1) # 0 <=> \E i \in 1 .. k + 1 : f[i] > 0
    OBVIOUS
  <2>1. /\ SumTo(f, k) \in Nat /\ f[k + 1] \in Nat
        /\ SumTo(f, k) # 0 <=> \E i \in 1 .. k : f[i] > 0
    BY <1>2
  <2>2. SumTo(f, k + 1) = SumTo(f, k) + f[k + 1]
    BY SumNext
  <2>3. (\E i \in 1 .. k + 1 : f[i] > 0) <=> (\E i \in 1 .. k : f[i] > 0) \/ f[k + 1] > 0
    OBVIOUS
  <2> QED
    BY <2>1, <2>2, <2>3
<1>3. \A k \in Nat : k \in G
  <2> HIDE DEF G
  <2> QED
    BY <1>1, <1>2, AllReached
<1> QED
  BY <1>3

\* A power is one factor more than the one before it, and positive of a positive base.
LEMMA PowerNext ==
  ASSUME NEW b \in Nat
  PROVE  /\ Power(b, 0) = 1
         /\ \A n \in Nat : /\ Power(b, n) \in Nat
                           /\ Power(b, n + 1) = Power(b, n) * b
                           /\ b > 0 => Power(b, n) > 0
<1>1. Power(b, 0) = 1
  BY ProductNext DEF Power
<1>2. ASSUME NEW n \in Nat PROVE Power(b, n + 1) = Power(b, n) * b
  <2> DEFINE f == [i \in 1 .. n |-> b]
             g == [i \in 1 .. n + 1 |-> b]
  <2>1. ProductTo(g, n + 1) = ProductTo(g, n) * g[n + 1]
    BY ProductNext
  <2>2. g[n + 1] = b /\ \A i \in 1 .. n : f[i] = g[i]
    OBVIOUS
  <2> HIDE DEF f, g
  <2>3. ProductTo(f, n) = ProductTo(g, n)
    BY <2>2, SameProducts
  <2> QED
    BY <2>1, <2>2, <2>3 DEF Power, f, g
<1>3. ASSUME NEW n \in Nat PROVE Power(b, n) \in Nat /\ (b > 0 => Power(b, n) > 0)
  <2> DEFINE G == { k \in Nat : Power(b, k) \in Nat /\ (b > 0 => Power(b, k) > 0) }
  <2>1. 0 \in G
    BY <1>1
  <2>2. ASSUME NEW k \in Nat, k \in G PROVE k + 1 \in G
    <3>1. \A a \in Nat : a * b \in Nat /\ (a > 0 /\ b > 0 => a * b > 0)
      OBVIOUS
    <3>2. Power(b, k + 1) = Power(b, k) * b
      BY <1>2
    <3>3. Power(b, k) \in Nat /\ (b > 0 => Power(b, k) > 0)
      BY <2>2
    <3> QED
      BY <3>1, <3>2, <3>3
  <2>3. \A k \in Nat : k \in G
    <3> HIDE DEF G
    <3> QED
      BY <2>1, <2>2, AllReached
  <2> QED
    BY <2>3
<1> QED
  BY <1>1, <1>2, <1>3

-----------------------------------------------------------------------------
(* Columns and windows *)

\* Two sequences of the same numbers are one.
LEMMA SameSequence ==
  ASSUME NEW s \in Seq(Int), NEW t \in Seq(Int), Len(s) = Len(t),
         \A i \in 1 .. Len(s) : s[i] = t[i]
  PROVE  s = t
<1>1. s \in [1 .. Len(s) -> Int] /\ t \in [1 .. Len(s) -> Int]
  BY LenProperties
<1> QED
  BY <1>1

\* The last k numbers up to the n-th, one by one; later ones do not matter.
LEMMA LatestAre ==
  ASSUME NEW col \in Seq(Int), NEW n \in 0 .. Len(col), NEW k \in 0 .. n
  PROVE  /\ LatestOf(col, n, k) \in Seq(Int)
         /\ Len(LatestOf(col, n, k)) = k
         /\ \A i \in 1 .. k : LatestOf(col, n, k)[i] = col[n - k + i]
<1> DEFINE m == n - k + 1
<1>1. /\ m \in Int /\ n \in Int /\ k \in Nat /\ Len(col) \in Nat /\ n <= Len(col)
      /\ 1 <= m /\ n - m + 1 = k /\ (m <= n <=> k >= 1)
  BY LenProperties
<1>2. \A i \in m .. n : col[i] \in Int
  <2> SUFFICES ASSUME NEW i \in m .. n PROVE col[i] \in Int
    OBVIOUS
  <2>1. i \in 1 .. Len(col)
    BY <1>1
  <2> QED
    BY <2>1, ElementOfSeq
<1> DEFINE w == SubSeq(col, m, n)
<1>3. \A i \in 1 .. k : m + i - 1 = n - k + i
  OBVIOUS
<1> HIDE DEF m
<1>4. /\ w \in Seq(Int)
      /\ Len(w) = IF m <= n THEN n - m + 1 ELSE 0
      /\ \A i \in 1 .. n - m + 1 : w[i] = col[m + i - 1]
  BY <1>1, <1>2, SubSeqProperties
<1>5. LatestOf(col, n, k) = w
  BY DEF LatestOf, m
<1> HIDE DEF w
<1>6. Len(w) = k
  BY <1>1, <1>4
<1>7. \A i \in 1 .. k : w[i] = col[n - k + i]
  BY <1>1, <1>3, <1>4
<1> QED
  BY <1>4, <1>5, <1>6, <1>7

LEMMA AppendIs ==
  ASSUME NEW col \in Seq(Int), NEW x \in Int
  PROVE  /\ Append(col, x) \in Seq(Int) /\ Len(Append(col, x)) = Len(col) + 1
         /\ \A i \in 1 .. Len(col) : Append(col, x)[i] = col[i]
         /\ Append(col, x)[Len(col) + 1] = x
         /\ Len(col) \in Nat
BY AppendProperties, LenProperties

\* A number more changes none of the latest before it.
LEMMA LatestStay ==
  ASSUME NEW col \in Seq(Int), NEW x \in Int, NEW n \in 0 .. Len(col), NEW k \in 0 .. n
  PROVE  LatestOf(Append(col, x), n, k) = LatestOf(col, n, k)
<1> DEFINE a == Append(col, x)
           v == LatestOf(a, n, k)
           w == LatestOf(col, n, k)
<1>1. /\ a \in Seq(Int) /\ n \in 0 .. Len(a) /\ k \in 0 .. n
      /\ \A i \in 1 .. Len(col) : a[i] = col[i]
  BY AppendIs
<1> HIDE DEF a
<1>2. v \in Seq(Int) /\ Len(v) = k /\ \A i \in 1 .. k : v[i] = a[n - k + i]
  BY <1>1, LatestAre
<1>3. w \in Seq(Int) /\ Len(w) = k /\ \A i \in 1 .. k : w[i] = col[n - k + i]
  BY LatestAre
<1>4. \A i \in 1 .. k : n - k + i \in 1 .. Len(col)
  BY LenProperties
<1> HIDE DEF v, w
<1>5. v = w
  BY <1>1, <1>2, <1>3, <1>4, SameSequence
<1> QED
  BY <1>5 DEF v, w, a

\* What a window of size numbers holds of a column.
Shorter(a, b) == IF a < b THEN a ELSE b
Recent(col, size) == LatestOf(col, Len(col), Shorter(Len(col), size))

\* A window holds the latest numbers, as many as there are up to its size.
LEMMA RecentAre ==
  ASSUME NEW col \in Seq(Int), NEW size \in Nat
  PROVE  /\ Recent(col, size) \in Seq(Int)
         /\ Len(Recent(col, size)) = Shorter(Len(col), size)
         /\ \A i \in 1 .. Shorter(Len(col), size) :
              Recent(col, size)[i] = col[Len(col) - Shorter(Len(col), size) + i]
         /\ Shorter(Len(col), size) \in 0 .. Len(col)
         /\ size <= Len(col) => Shorter(Len(col), size) = size
<1>1. Len(col) \in 0 .. Len(col) /\ Shorter(Len(col), size) \in 0 .. Len(col)
  BY LenProperties DEF Shorter
<1>2. size <= Len(col) => Shorter(Len(col), size) = size
  BY LenProperties DEF Shorter
<1> QED
  BY <1>1, <1>2, LatestAre DEF Recent

\* Where each number of a window goes as it slides.
LEMMA SlideIs ==
  ASSUME NEW w \in Seq(Int), NEW x \in Int, NEW size \in Nat \ {0}
  PROVE  /\ Slide(w, x, size) \in Seq(Int)
         /\ Len(w) < size => /\ Len(Slide(w, x, size)) = Len(w) + 1
                             /\ \A i \in 1 .. Len(w) : Slide(w, x, size)[i] = w[i]
                             /\ Slide(w, x, size)[Len(w) + 1] = x
         /\ Len(w) >= size => /\ Len(Slide(w, x, size)) = Len(w)
                              /\ \A i \in 1 .. Len(w) - 1 : Slide(w, x, size)[i] = w[i + 1]
                              /\ Slide(w, x, size)[Len(w)] = x
<1> DEFINE a == Append(w, x)
<1>1. /\ a \in Seq(Int) /\ Len(a) = Len(w) + 1 /\ Len(w) \in Nat
      /\ \A i \in 1 .. Len(w) : a[i] = w[i]
      /\ a[Len(w) + 1] = x
  BY AppendIs
<1>2. Slide(w, x, size) = IF Len(w) >= size THEN Tail(a) ELSE a
  BY DEF Slide
<1> DEFINE v == Slide(w, x, size)
<1> HIDE DEF a
<1>3. CASE Len(w) < size
  <2>1. v = a
    BY <1>1, <1>2, <1>3
  <2> HIDE DEF v
  <2>2. ~(Len(w) >= size)
    BY <1>1, <1>3
  <2>3. v \in Seq(Int) /\ Len(v) = Len(w) + 1 /\ v[Len(w) + 1] = x
        /\ \A i \in 1 .. Len(w) : v[i] = w[i]
    BY <1>1, <2>1
  <2> QED
    BY <1>3, <2>2, <2>3 DEF v
<1>4. CASE Len(w) >= size
  <2>1. a # <<>>
    BY <1>1, EmptySeq
  <2>2. /\ Tail(a) \in Seq(Int) /\ Len(Tail(a)) = Len(a) - 1
        /\ \A i \in 1 .. Len(Tail(a)) : Tail(a)[i] = a[i + 1]
    BY <1>1, <2>1, HeadTailProperties
  <2>3. Len(w) \in 1 .. Len(w) /\ \A i \in 1 .. Len(w) - 1 : i \in 1 .. Len(w) /\ i + 1 \in 1 .. Len(w)
    BY <1>1, <1>4
  <2>4. Len(Tail(a)) = Len(w)
    BY <1>1, <2>2
  <2>5. Tail(a)[Len(w)] = x
    BY <1>1, <2>2, <2>3, <2>4
  <2>6. \A i \in 1 .. Len(w) - 1 : Tail(a)[i] = w[i + 1]
    BY <1>1, <2>2, <2>3, <2>4
  <2>7. v = Tail(a) /\ ~(Len(w) < size)
    BY <1>1, <1>2, <1>4
  <2> HIDE DEF v
  <2>8. /\ v \in Seq(Int) /\ Len(v) = Len(w) /\ v[Len(w)] = x
        /\ \A i \in 1 .. Len(w) - 1 : v[i] = w[i + 1]
    BY <2>2, <2>4, <2>5, <2>6, <2>7
  <2> QED
    BY <1>4, <2>7, <2>8 DEF v
<1> QED
  BY <1>1, <1>3, <1>4

\* A window slid along a column is the column's latest numbers.
LEMMA WindowSlides ==
  ASSUME NEW col \in Seq(Int), NEW x \in Int, NEW size \in Nat \ {0}
  PROVE  Slide(Recent(col, size), x, size) = Recent(Append(col, x), size)
<1> DEFINE w == Recent(col, size)
           a == Append(col, x)
           v == Slide(w, x, size)
           r == Recent(a, size)
           n == Len(col)
           k == Shorter(n, size)
           l == Shorter(n + 1, size)
<1>1. /\ a \in Seq(Int) /\ Len(a) = n + 1 /\ n \in Nat
      /\ \A i \in 1 .. n : a[i] = col[i]
      /\ a[n + 1] = x
  BY AppendIs
<1>2. w \in Seq(Int) /\ Len(w) = k /\ \A i \in 1 .. k : w[i] = col[n - k + i]
  BY RecentAre
<1> HIDE DEF a
<1>3. r \in Seq(Int) /\ Len(r) = l /\ \A i \in 1 .. l : r[i] = a[n + 1 - l + i]
  <2> DEFINE j == Shorter(Len(a), size)
  <2>1. r \in Seq(Int) /\ Len(r) = j /\ \A i \in 1 .. j : r[i] = a[Len(a) - j + i]
    BY <1>1, RecentAre
  <2>2. j = l /\ l \in Nat
    BY <1>1 DEF Shorter
  <2> HIDE DEF j, l, r, n
  <2> QED
    BY <1>1, <2>1, <2>2
<1> HIDE DEF w, r, n
<1>4. /\ v \in Seq(Int)
      /\ Len(w) < size => /\ Len(v) = Len(w) + 1
                          /\ \A i \in 1 .. Len(w) : v[i] = w[i]
                          /\ v[Len(w) + 1] = x
      /\ Len(w) >= size => /\ Len(v) = Len(w)
                           /\ \A i \in 1 .. Len(w) - 1 : v[i] = w[i + 1]
                           /\ v[Len(w)] = x
  BY <1>2, SlideIs
<1> HIDE DEF v
<1>5. CASE n < size
  <2>1. k = n /\ l = n + 1
    BY <1>1, <1>5 DEF Shorter
  <2> HIDE DEF k, l
  <2>2. Len(v) = Len(r) /\ Len(v) = n + 1
    BY <1>2, <1>3, <1>4, <1>5, <2>1
  <2>3. ASSUME NEW i \in 1 .. n + 1 PROVE v[i] = r[i]
    <3>1. r[i] = a[i]
      BY <1>1, <1>3, <2>1
    <3>2. CASE i = n + 1
      BY <1>1, <1>2, <1>4, <1>5, <2>1, <3>1, <3>2
    <3>3. CASE i # n + 1
      <4>1. i \in 1 .. n
        BY <1>1, <3>3
      <4>2. v[i] = w[i] /\ w[i] = col[n - k + i] /\ a[i] = col[i] /\ n - k + i = i
        BY <1>1, <1>2, <1>4, <1>5, <2>1, <4>1
      <4> QED
        BY <3>1, <4>2
    <3> QED
      BY <3>2, <3>3
  <2> QED
    BY <1>3, <1>4, <2>2, <2>3, SameSequence DEF v, w, r, a
<1>6. CASE n >= size
  <2>1. k = size /\ l = size
    BY <1>1, <1>6 DEF Shorter
  <2> HIDE DEF k, l
  <2>2. Len(v) = Len(r) /\ Len(v) = size
    BY <1>2, <1>3, <1>4, <1>6, <2>1
  <2>3. ASSUME NEW i \in 1 .. size PROVE v[i] = r[i]
    <3>1. r[i] = a[n + 1 - size + i]
      BY <1>3, <2>1
    <3>2. CASE i = size
      BY <1>1, <1>2, <1>4, <2>1, <3>1, <3>2
    <3>3. CASE i # size
      <4>1. /\ i \in 1 .. size - 1 /\ i + 1 \in 1 .. size
            /\ n + 1 - size + i \in 1 .. n /\ n - size + (i + 1) = n + 1 - size + i
        BY <1>1, <1>6, <3>3
      <4>2. v[i] = w[i + 1] /\ w[i + 1] = col[n - size + (i + 1)]
        BY <1>2, <1>4, <2>1, <4>1
      <4> QED
        BY <1>1, <3>1, <4>1, <4>2
    <3> QED
      BY <3>2, <3>3
  <2> QED
    BY <1>3, <1>4, <2>2, <2>3, SameSequence DEF v, w, r, a
<1> QED
  BY <1>1, <1>5, <1>6

\* The sum of a window, kept as the window slides.
LEMMA SumOfSeq ==
  ASSUME NEW s \in Seq(Int)
  PROVE  SumOf(s) \in Int
BY LenProperties, ElementOfSeq, SumType DEF SumOf

\* A running sum stays the window's: the new number is added, and one that leaves
\* is taken off.
LEMMA SumSlides ==
  ASSUME NEW w \in Seq(Int), NEW x \in Int, NEW size \in Nat \ {0}
  PROVE  SumOf(Slide(w, x, size))
           = SumOf(w) + x - (IF Len(w) >= size THEN Head(w) ELSE 0)
<1> DEFINE v == Slide(w, x, size)
           n == Len(w)
<1>1. /\ v \in Seq(Int) /\ n \in Nat
      /\ n < size => /\ Len(v) = n + 1
                     /\ \A i \in 1 .. n : v[i] = w[i]
                     /\ v[n + 1] = x
      /\ n >= size => /\ Len(v) = n
                      /\ \A i \in 1 .. n - 1 : v[i] = w[i + 1]
                      /\ v[n] = x
  BY SlideIs, LenProperties
<1>2. /\ \A i \in 1 .. n : w[i] \in Int
      /\ SumTo(w, n) \in Int /\ SumOf(w) = SumTo(w, n)
      /\ SumOf(v) = SumTo(v, Len(v))
  BY ElementOfSeq, SumOfSeq DEF SumOf
<1> HIDE DEF v
<1>3. CASE n < size
  <2>1. SumTo(v, n + 1) = SumTo(v, n) + v[n + 1]
    BY <1>1, SumNext
  <2>2. SumTo(v, n) = SumTo(w, n)
    BY <1>1, <1>3, SameSums
  <2>3. SumOf(v) = SumOf(w) + x
    BY <1>1, <1>2, <1>3, <2>1, <2>2
  <2> QED
    BY <1>1, <1>2, <1>3, <2>3 DEF v
<1>4. CASE n >= size
  <2>1. n - 1 \in Nat /\ (n - 1) + 1 = n /\ n # 0
    BY <1>1, <1>4
  <2>2. SumTo(v, n) = SumTo(v, n - 1) + v[n]
    BY <2>1, SumNext
  <2>3. SumTo(v, n - 1) = SumTo(w, (n - 1) + 1) - w[1]
    BY <1>1, <1>2, <1>4, <2>1, SumWithoutFirst
  <2>4. Head(w) = w[1] /\ w[1] \in Int
    BY <1>2, <2>1
  <2> QED
    BY <1>1, <1>2, <1>4, <2>1, <2>2, <2>3, <2>4 DEF v
<1> QED
  BY <1>1, <1>3, <1>4

-----------------------------------------------------------------------------
(* What a bar adds to the history *)

\* The columns of the highs and of the lows.
Highs == [i \in DOMAIN history |-> High(i)]
Lows == [i \in DOMAIN history |-> Low(i)]

\* The n bars so far are joined by one more.
Grown(n, m) ==
  /\ history \in Seq(Bars) /\ n = Len(history)
  /\ m \in Bars /\ history' = Append(history, m)
  /\ made \in { Make(a) : a \in Args } /\ UNCHANGED made

\* What a bar adds, and that it leaves the bars before it.
LEMMA HistoryGrows ==
  ASSUME NEW n, NEW m, Grown(n, m)
  PROVE  /\ n \in Nat /\ Len(history)' = n + 1
         /\ DOMAIN history = 1 .. n /\ DOMAIN history' = 1 .. n + 1
         /\ \A i \in 1 .. n :
              Close(i)' = Close(i) /\ High(i)' = High(i) /\ Low(i)' = Low(i) /\ Volume(i)' = Volume(i)
         /\ Close(n + 1)' = m.close /\ High(n + 1)' = m.high
         /\ Low(n + 1)' = m.low /\ Volume(n + 1)' = m.volume
         /\ \A i \in 1 .. n :
              Close(i) \in Int /\ High(i) \in Int /\ Low(i) \in Int /\ Volume(i) \in Nat
         /\ \A i \in 1 .. n + 1 :
              Close(i)' \in Int /\ High(i)' \in Int /\ Low(i)' \in Int /\ Volume(i)' \in Nat
<1>1. /\ history \in Seq(Bars) /\ n = Len(history) /\ m \in Bars
      /\ history' = Append(history, m)
  BY DEF Grown
<1>2. /\ n \in Nat /\ DOMAIN history = 1 .. n
      /\ history' \in Seq(Bars) /\ Len(history') = n + 1
      /\ \A i \in 1 .. n : history'[i] = history[i]
      /\ history'[n + 1] = m
  BY <1>1, LenProperties, AppendProperties
<1>3. DOMAIN history' = 1 .. n + 1
  BY <1>2, LenProperties
<1>4. /\ \A i \in 1 .. n : history[i] \in Bars
      /\ \A i \in 1 .. n + 1 : history'[i] \in Bars
  BY <1>1, <1>2, ElementOfSeq
<1>5. \A b \in Bars : b.high \in Int /\ b.low \in Int /\ b.close \in Int /\ b.volume \in Nat
  BY BarIsWhole
<1> QED
  BY <1>2, <1>3, <1>4, <1>5 DEF Close, High, Low, Volume

LEMMA SequenceOf ==
  ASSUME NEW n \in Nat, NEW f \in [1 .. n -> Int]
  PROVE  f \in Seq(Int) /\ Len(f) = n
OBVIOUS

LEMMA ColumnGrows ==
  ASSUME NEW n \in Nat, NEW col \in [1 .. n -> Int], NEW next \in [1 .. n + 1 -> Int], NEW x \in Int,
         \A i \in 1 .. n : next[i] = col[i],
         next[n + 1] = x
  PROVE  /\ col \in Seq(Int) /\ Len(col) = n
         /\ next = Append(col, x)
<1>1. /\ col \in Seq(Int) /\ Len(col) = n
      /\ next \in Seq(Int) /\ Len(next) = n + 1
  BY SequenceOf
<1> DEFINE a == Append(col, x)
<1>2. /\ a \in Seq(Int) /\ Len(a) = n + 1 /\ a[n + 1] = x
      /\ \A i \in 1 .. n : a[i] = col[i]
  BY <1>1, AppendIs
<1> HIDE DEF a
<1>3. \A i \in 1 .. n + 1 : next[i] = a[i]
  <2>1. \A i \in 1 .. n + 1 : i \in 1 .. n \/ i = n + 1
    OBVIOUS
  <2> QED
    BY <1>2, <2>1
<1>4. next = a
  BY <1>1, <1>2, <1>3, SameSequence
<1> QED
  BY <1>1, <1>4 DEF a

\* Every column of the history grows by the bar's number.
LEMMA ColumnsGrow ==
  ASSUME NEW n, NEW m, Grown(n, m)
  PROVE  /\ Closes \in Seq(Int) /\ Len(Closes) = n /\ Closes' = Append(Closes, m.close)
         /\ Highs \in Seq(Int) /\ Len(Highs) = n /\ Highs' = Append(Highs, m.high)
         /\ Lows \in Seq(Int) /\ Len(Lows) = n /\ Lows' = Append(Lows, m.low)
         /\ Volumes \in Seq(Int) /\ Len(Volumes) = n /\ Volumes' = Append(Volumes, m.volume)
         /\ Paid \in Seq(Int) /\ Len(Paid) = n
         /\ Paid' = Append(Paid, (m.high + m.low + m.close) * m.volume)
         /\ \A i \in 1 .. n : /\ Closes[i] = Close(i) /\ Highs[i] = High(i)
                              /\ Lows[i] = Low(i) /\ Volumes[i] = Volume(i)
         /\ \A i \in 1 .. n + 1 : /\ Closes'[i] = Close(i)' /\ Highs'[i] = High(i)'
                                  /\ Lows'[i] = Low(i)' /\ Volumes'[i] = Volume(i)'
<1> DEFINE paid == (m.high + m.low + m.close) * m.volume
<1>1. n \in Nat /\ DOMAIN history = 1 .. n /\ DOMAIN history' = 1 .. n + 1 /\ n + 1 \in 1 .. n + 1
  BY HistoryGrows
<1>2. /\ m.close \in Int /\ m.high \in Int /\ m.low \in Int /\ m.volume \in Int /\ paid \in Int
  BY BarIsWhole DEF Grown
<1>3. Closes \in Seq(Int) /\ Len(Closes) = n /\ Closes' = Append(Closes, m.close)
  <2>1. /\ Closes \in [1 .. n -> Int] /\ Closes' \in [1 .. n + 1 -> Int]
        /\ \A i \in 1 .. n : Closes'[i] = Closes[i]
        /\ Closes'[n + 1] = m.close
    BY <1>1, HistoryGrows DEF Closes
  <2> QED
    BY <1>1, <1>2, <2>1, ColumnGrows
<1>4. Highs \in Seq(Int) /\ Len(Highs) = n /\ Highs' = Append(Highs, m.high)
  <2>1. /\ Highs \in [1 .. n -> Int] /\ Highs' \in [1 .. n + 1 -> Int]
        /\ \A i \in 1 .. n : Highs'[i] = Highs[i]
        /\ Highs'[n + 1] = m.high
    BY <1>1, HistoryGrows DEF Highs
  <2> QED
    BY <1>1, <1>2, <2>1, ColumnGrows
<1>5. Lows \in Seq(Int) /\ Len(Lows) = n /\ Lows' = Append(Lows, m.low)
  <2>1. /\ Lows \in [1 .. n -> Int] /\ Lows' \in [1 .. n + 1 -> Int]
        /\ \A i \in 1 .. n : Lows'[i] = Lows[i]
        /\ Lows'[n + 1] = m.low
    BY <1>1, HistoryGrows DEF Lows
  <2> QED
    BY <1>1, <1>2, <2>1, ColumnGrows
<1>6. Volumes \in Seq(Int) /\ Len(Volumes) = n /\ Volumes' = Append(Volumes, m.volume)
  <2>1. /\ Volumes \in [1 .. n -> Int] /\ Volumes' \in [1 .. n + 1 -> Int]
        /\ \A i \in 1 .. n : Volumes'[i] = Volumes[i]
        /\ Volumes'[n + 1] = m.volume
    BY <1>1, HistoryGrows DEF Volumes
  <2> QED
    BY <1>1, <1>2, <2>1, ColumnGrows
<1>7. Paid \in Seq(Int) /\ Len(Paid) = n /\ Paid' = Append(Paid, paid)
  <2> DEFINE P(i) == (High(i) + Low(i) + Close(i)) * Volume(i)
  <2>1. /\ Paid = [i \in 1 .. n |-> P(i)] /\ Paid' = [i \in 1 .. n + 1 |-> P(i)']
    BY <1>1 DEF Paid
  <2>2. /\ \A i \in 1 .. n : P(i) \in Int /\ P(i)' = P(i)
        /\ P(n + 1)' = paid
    BY HistoryGrows
  <2>3. \A i \in 1 .. n + 1 : i \in 1 .. n \/ i = n + 1
    BY <1>1
  <2> HIDE DEF P, paid
  <2>4. \A i \in 1 .. n + 1 : P(i)' \in Int
    BY <1>2, <2>2, <2>3
  <2>5. /\ Paid \in [1 .. n -> Int] /\ Paid' \in [1 .. n + 1 -> Int]
        /\ \A i \in 1 .. n : Paid'[i] = Paid[i]
        /\ Paid'[n + 1] = paid
    BY <1>1, <2>1, <2>2, <2>4
  <2> QED
    BY <1>1, <1>2, <2>5, ColumnGrows
<1>8. /\ Closes = [i \in 1 .. n |-> Close(i)] /\ Closes' = [i \in 1 .. n + 1 |-> Close(i)']
      /\ Highs = [i \in 1 .. n |-> High(i)] /\ Highs' = [i \in 1 .. n + 1 |-> High(i)']
      /\ Lows = [i \in 1 .. n |-> Low(i)] /\ Lows' = [i \in 1 .. n + 1 |-> Low(i)']
      /\ Volumes = [i \in 1 .. n |-> Volume(i)] /\ Volumes' = [i \in 1 .. n + 1 |-> Volume(i)']
  BY <1>1 DEF Closes, Highs, Lows, Volumes
<1> QED
  BY <1>3, <1>4, <1>5, <1>6, <1>7, <1>8

-----------------------------------------------------------------------------
(* A bar changes no rule of the bars before it *)

\* A rule of the i-th bar looks at bars up to the i-th only.
LEMMA CloseSumStays ==
  ASSUME NEW n, NEW m, Grown(n, m), NEW i \in 1 .. n
  PROVE  \A k \in 0 .. i : /\ LatestOf(Closes, i, k)' = LatestOf(Closes, i, k)
                           /\ CloseSum(i, k)' = CloseSum(i, k)
<1> SUFFICES ASSUME NEW k \in 0 .. i
             PROVE  LatestOf(Closes, i, k)' = LatestOf(Closes, i, k)
  BY DEF CloseSum
<1>1. /\ Closes \in Seq(Int) /\ Len(Closes) = n /\ m.close \in Int /\ i \in 0 .. Len(Closes)
  BY ColumnsGrow, BarIsWhole DEF Grown
<1>2. LatestOf(Append(Closes, m.close), i, k) = LatestOf(Closes, i, k)
  BY <1>1, LatestStay
<1>3. LatestOf(Closes', i, k) = LatestOf(Append(Closes, m.close), i, k)
  BY ColumnsGrow
<1>4. LatestOf(Closes, i, k)' = LatestOf(Closes', i, k)
  OBVIOUS
<1> QED
  BY <1>2, <1>3, <1>4

LEMMA VolumesStay ==
  ASSUME NEW n, NEW m, Grown(n, m), NEW i \in 1 .. n, NEW k \in 0 .. i
  PROVE  /\ LatestOf(Volumes, i, k)' = LatestOf(Volumes, i, k)
         /\ LatestOf(Paid, i, k)' = LatestOf(Paid, i, k)
<1> DEFINE paid == (m.high + m.low + m.close) * m.volume
<1>1. /\ Volumes \in Seq(Int) /\ Len(Volumes) = n /\ m.volume \in Int /\ i \in 0 .. Len(Volumes)
      /\ Paid \in Seq(Int) /\ Len(Paid) = n /\ paid \in Int /\ i \in 0 .. Len(Paid)
  <2>1. m.high \in Int /\ m.low \in Int /\ m.close \in Int /\ m.volume \in Int
    BY BarIsWhole DEF Grown
  <2>2. paid \in Int
    BY <2>1
  <2> HIDE DEF paid
  <2>3. /\ Volumes \in Seq(Int) /\ Len(Volumes) = n
        /\ Paid \in Seq(Int) /\ Len(Paid) = n
    BY ColumnsGrow
  <2> QED
    BY <2>1, <2>2, <2>3
<1>2. Volumes' = Append(Volumes, m.volume) /\ Paid' = Append(Paid, paid)
  BY ColumnsGrow
<1> HIDE DEF paid
<1>3. /\ LatestOf(Append(Volumes, m.volume), i, k) = LatestOf(Volumes, i, k)
      /\ LatestOf(Append(Paid, paid), i, k) = LatestOf(Paid, i, k)
  BY <1>1, LatestStay
<1> QED
  BY <1>2, <1>3

LEMMA SmaStays ==
  ASSUME NEW n, NEW m, Grown(n, m), NEW i \in 1 .. n, made.p2 \in 0 .. i, made.p1 \in 0 .. i
  PROVE  SmaSign(i)' = SmaSign(i)
BY CloseSumStays DEF SmaSign, Grown

LEMMA BandStays ==
  ASSUME NEW n, NEW m, Grown(n, m), NEW i \in 1 .. n, made.p1 \in 0 .. i
  PROVE  /\ BelowBand(i)' <=> BelowBand(i)
         /\ CloseSum(i, made.p1)' = CloseSum(i, made.p1)
<1>1. /\ LatestOf(Closes, i, made.p1)' = LatestOf(Closes, i, made.p1)
      /\ CloseSum(i, made.p1)' = CloseSum(i, made.p1)
      /\ Close(i)' = Close(i) /\ made' = made
  BY CloseSumStays, HistoryGrows DEF Grown
<1> QED
  BY <1>1 DEF BelowBand

LEMMA MomentumStays ==
  ASSUME NEW n, NEW m, Grown(n, m), NEW i \in 1 .. n, i - made.p1 \in 1 .. n
  PROVE  (Rises(i)' <=> Rises(i)) /\ (Falls(i)' <=> Falls(i))
<1>1. Close(i)' = Close(i) /\ Close(i - made.p1)' = Close(i - made.p1) /\ made' = made
  BY HistoryGrows DEF Grown
<1> QED
  BY <1>1 DEF Rises, Falls

LEMMA AverageStays ==
  ASSUME NEW n, NEW m, Grown(n, m), NEW i \in 1 .. n, made.p1 \in Nat, made.p1 + 1 <= i
  PROVE  \A d \in {1, -1} : Average(i, d)' = Average(i, d)
<1> SUFFICES ASSUME NEW d \in {1, -1} PROVE Average(i, d)' = Average(i, d)
  OBVIOUS
<1>1. n \in Nat /\ made' = made /\ \A j \in 1 .. n : Close(j)' = Close(j)
  BY HistoryGrows DEF Grown
<1>2. \A j \in 2 .. n : Move(j, d)' = Move(j, d)
  BY <1>1 DEF Move
<1> DEFINE p == made.p1
           first == [j \in 1 .. p |-> Move(j + 1, d)]
           late == [j \in 1 .. i - p - 1 |->
                      Move(p + 1 + j, d) * Power(p, j) * Power(p - 1, i - p - 1 - j)]
<1>3. first' = first
  <2>1. \A j \in 1 .. p : j + 1 \in 2 .. n
    BY <1>1
  <2> QED
    BY <1>1, <1>2, <2>1
<1>4. late' = late
  <2>1. \A j \in 1 .. i - p - 1 : p + 1 + j \in 2 .. n
    BY <1>1
  <2> QED
    BY <1>1, <1>2, <2>1
<1>5. Average(i, d) = SumOf(first) * Power(p - 1, i - p - 1) + SumOf(late)
  BY DEF Average
<1> QED
  BY <1>1, <1>3, <1>4 DEF Average

LEMMA EmaStays ==
  ASSUME NEW n, NEW m, Grown(n, m), NEW i \in 1 .. n
  PROVE  \A p \in Nat : EmaAt(i, p)' = EmaAt(i, p)
<1> SUFFICES ASSUME NEW p \in Nat PROVE EmaAt(i, p)' = EmaAt(i, p)
  OBVIOUS
<1>1. n \in Nat /\ \A j \in 1 .. n : Close(j)' = Close(j)
  BY HistoryGrows
<1> DEFINE weighed == [j \in 1 .. i - 1 |->
                         2 * Close(j + 1) * Power(p + 1, j - 1) * Power(p - 1, i - 1 - j)]
<1>2. weighed' = weighed
  <2>1. \A j \in 1 .. i - 1 : j + 1 \in 1 .. n
    BY <1>1
  <2> QED
    BY <1>1, <2>1
<1> QED
  BY <1>1, <1>2 DEF EmaAt

LEMMA AveragesStay ==
  ASSUME NEW n, NEW m, Grown(n, m), NEW i \in 1 .. n
  PROVE  /\ FastAbove(i)' <=> FastAbove(i)
         /\ Uptrend(i)' <=> Uptrend(i)
         /\ Dips(i)' <=> Dips(i)
         /\ EmaAt(i, made.p1)' = EmaAt(i, made.p1)
         /\ EmaAt(i, made.p2)' = EmaAt(i, made.p2)
<1>1. made.p1 \in Nat /\ made.p2 \in Nat /\ made' = made
  BY MadeWell DEF Grown
<1>2. EmaAt(i, made.p1)' = EmaAt(i, made.p1) /\ EmaAt(i, made.p2)' = EmaAt(i, made.p2)
  BY <1>1, EmaStays
<1>3. Close(i)' = Close(i)
  BY HistoryGrows
<1> QED
  BY <1>2, <1>3 DEF FastAbove, Uptrend, Dips

LEMMA ChannelStays ==
  ASSUME NEW n, NEW m, Grown(n, m), NEW i \in 1 .. n, NEW j \in 1 .. n
  PROVE  /\ (Close(i) > High(j))' <=> Close(i) > High(j)
         /\ (Close(i) < Low(j))' <=> Close(i) < Low(j)
BY HistoryGrows

LEMMA VwapStays ==
  ASSUME NEW n, NEW m, Grown(n, m), NEW i \in 1 .. n
  PROVE  /\ Traded(i)' <=> Traded(i)
         /\ Traded(i) => (AboveVwap(i)' <=> AboveVwap(i))
<1>1. made.p1 \in Nat /\ made' = made /\ n \in Nat
  BY MadeWell, HistoryGrows DEF Grown
<1>2. i >= made.p1 => \A j \in Latest(i, made.p1) : Volume(j)' = Volume(j)
  <2>1. i >= made.p1 => \A j \in Latest(i, made.p1) : j \in 1 .. n
    BY <1>1 DEF Latest
  <2> QED
    BY <2>1, HistoryGrows
<1>3. Traded(i)' <=> Traded(i)
  BY <1>1, <1>2 DEF Traded, Latest
<1>4. ASSUME Traded(i) PROVE AboveVwap(i)' <=> AboveVwap(i)
  <2>1. made.p1 \in 0 .. i
    BY <1>1, <1>4 DEF Traded
  <2>2. PICK k \in 0 .. i : k = made.p1
    BY <2>1
  <2>3. /\ LatestOf(Volumes, i, k)' = LatestOf(Volumes, i, k)
        /\ LatestOf(Paid, i, k)' = LatestOf(Paid, i, k)
        /\ Close(i)' = Close(i)
    BY VolumesStay, HistoryGrows
  <2>4. made.p1' = k
    BY <1>1, <2>2
  <2>5. /\ LatestOf(Volumes, i, made.p1)' = LatestOf(Volumes, i, made.p1)
        /\ LatestOf(Paid, i, made.p1)' = LatestOf(Paid, i, made.p1)
    BY <2>2, <2>3, <2>4
  <2> QED
    BY <2>3, <2>5 DEF AboveVwap
<1> QED
  BY <1>3, <1>4

LEMMA WasAboveStays ==
  ASSUME NEW n, NEW m, Grown(n, m), NEW i \in 1 .. n + 1
  PROVE  WasAboveVwap(i)' <=> WasAboveVwap(i)
<1>1. \A j \in 1 .. i - 1 : j \in 1 .. n
  BY HistoryGrows
<1>2. \A j \in 1 .. i - 1 : \A k \in j + 1 .. i - 1 : k \in 1 .. n
  BY HistoryGrows
<1>3. \A j \in 1 .. n : /\ Traded(j)' <=> Traded(j)
                        /\ Traded(j) => (AboveVwap(j)' <=> AboveVwap(j))
  BY VwapStays
<1> QED
  BY <1>1, <1>2, <1>3 DEF WasAboveVwap

-----------------------------------------------------------------------------
(* The positions the rules give *)

\* What sma is promised for, and that no bar's cycle starts before the first bar.
SmaIsInBounds == made.name = "sma" => made.p1 <= made.p2

PlaceIsInCycle == \A i \in Nat \ {0} : Place(i) \in 1 .. i

\* What a bar's rules say depends on no later bar, and on no later position.
LEMMA LeavesStays ==
  ASSUME NEW n, NEW m, Grown(n, m), SmaIsInBounds, PlaceIsInCycle, NEW i \in 1 .. n
  PROVE  Leaves(i)' <=> Leaves(i)
<1>1. /\ made' = made /\ made.name \in Name /\ n \in Nat
      /\ made.p1 \in Nat \ {0} /\ made.p2 \in Nat \ {0}
  BY MadeWell, HistoryGrows DEF Grown
<1>2. CASE made.name = "sma"
  <2>1. i >= made.p2 => SmaSign(i)' = SmaSign(i)
    BY <1>1, <1>2, SmaStays DEF SmaIsInBounds
  <2> QED
    BY <1>1, <1>2, <2>1 DEF Leaves
<1>3. CASE made.name = "mean_reversion"
  <2>1. i >= made.p1 => CloseSum(i, made.p1)' = CloseSum(i, made.p1)
    BY <1>1, BandStays
  <2>2. Close(i)' = Close(i)
    BY HistoryGrows
  <2> QED
    BY <1>1, <1>3, <2>1, <2>2 DEF Leaves
<1>4. CASE made.name = "momentum"
  <2>1. i > made.p1 => (Falls(i)' <=> Falls(i))
    BY <1>1, MomentumStays
  <2> QED
    BY <1>1, <1>4, <2>1 DEF Leaves
<1>5. CASE made.name = "rsi"
  <2>1. i > made.p1 + 1 => Average(i, 1)' = Average(i, 1) /\ Average(i, -1)' = Average(i, -1)
    BY <1>1, AverageStays
  <2> QED
    BY <1>1, <1>5, <2>1 DEF Leaves
<1>6. CASE made.name = "scalping"
  <2>1. FastAbove(i)' <=> FastAbove(i)
    BY AveragesStay
  <2>2. i > 1 => (FastAbove(i - 1)' <=> FastAbove(i - 1))
    <3>1. i > 1 => i - 1 \in 1 .. n
      BY <1>1
    <3> QED
      BY <3>1, AveragesStay
  <2> QED
    BY <1>1, <1>6, <2>1, <2>2 DEF Leaves
<1>7. CASE made.name = "pullback"
  BY <1>1, <1>7, AveragesStay DEF Leaves
<1>8. CASE made.name = "breakout"
  <2>1. i > made.p1 => \A j \in Latest(i - 1, made.p1) : j \in 1 .. n
    BY <1>1 DEF Latest
  <2>2. \A j \in 1 .. n : (Close(i) < Low(j))' <=> Close(i) < Low(j)
    BY ChannelStays
  <2>3. Latest(i - 1, made.p1)' = Latest(i - 1, made.p1)
    BY <1>1 DEF Latest
  <2> QED
    BY <1>1, <1>8, <2>1, <2>2, <2>3 DEF Leaves
<1>9. CASE made.name = "vwap"
  BY <1>1, <1>9, VwapStays, WasAboveStays DEF Leaves
<1>10. CASE made.name = "orb"
  <2>1. Place(i)' = Place(i) /\ Range1(i)' = Range1(i)
    BY <1>1 DEF Place, Range1
  <2>2. Place(i) > made.p1 => \A j \in Range1(i) : j \in 1 .. n
    BY <1>1 DEF Range1, PlaceIsInCycle
  <2>3. \A j \in 1 .. n : (Close(i) < Low(j))' <=> Close(i) < Low(j)
    BY ChannelStays
  <2> QED
    BY <1>1, <1>10, <2>1, <2>2, <2>3 DEF Leaves
<1> QED
  BY <1>1, <1>2, <1>3, <1>4, <1>5, <1>6, <1>7, <1>8, <1>9, <1>10 DEF Name, Defaults

\* The same of entering, given the same positions.
LEMMA EntersStays ==
  ASSUME NEW n, NEW m, Grown(n, m), SmaIsInBounds, PlaceIsInCycle, NEW i \in 1 .. n, NEW h
  PROVE  Enters(i, h)' <=> Enters(i, h)
<1>1. /\ made' = made /\ made.name \in Name /\ n \in Nat
      /\ made.p1 \in Nat \ {0} /\ made.p2 \in Nat \ {0}
  BY MadeWell, HistoryGrows DEF Grown
<1>2. CASE made.name = "sma"
  <2>1. i >= made.p2 => SmaSign(i)' = SmaSign(i)
    BY <1>1, <1>2, SmaStays DEF SmaIsInBounds
  <2> QED
    BY <1>1, <1>2, <2>1 DEF Enters
<1>3. CASE made.name = "mean_reversion"
  <2>1. i >= made.p1 => (BelowBand(i)' <=> BelowBand(i))
    BY <1>1, BandStays
  <2> QED
    BY <1>1, <1>3, <2>1 DEF Enters
<1>4. CASE made.name = "momentum"
  <2>1. i > made.p1 => (Rises(i)' <=> Rises(i))
    BY <1>1, MomentumStays
  <2> QED
    BY <1>1, <1>4, <2>1 DEF Enters
<1>5. CASE made.name = "rsi"
  <2>1. i > made.p1 + 1 => Average(i, 1)' = Average(i, 1) /\ Average(i, -1)' = Average(i, -1)
    BY <1>1, AverageStays
  <2> QED
    BY <1>1, <1>5, <2>1 DEF Enters
<1>6. CASE made.name = "scalping"
  <2>1. FastAbove(i)' <=> FastAbove(i)
    BY AveragesStay
  <2>2. i > 1 => (FastAbove(i - 1)' <=> FastAbove(i - 1))
    <3>1. i > 1 => i - 1 \in 1 .. n
      BY <1>1
    <3> QED
      BY <3>1, AveragesStay
  <2> QED
    BY <1>1, <1>6, <2>1, <2>2 DEF Enters
<1>7. CASE made.name = "pullback"
  <2>1. \A j \in 1 .. n : (Uptrend(j)' <=> Uptrend(j)) /\ (Dips(j)' <=> Dips(j))
    BY AveragesStay
  <2>2. EmaAt(i, made.p2)' = EmaAt(i, made.p2) /\ Close(i)' = Close(i)
    BY AveragesStay, HistoryGrows
  <2>3. i > 1 => EmaAt(i - 1, made.p2)' = EmaAt(i - 1, made.p2)
    <3>1. i > 1 => i - 1 \in 1 .. n
      BY <1>1
    <3> QED
      BY <3>1, AveragesStay
  <2>4. \A k \in 2 .. i : k \in 1 .. n /\ \A j \in k .. i : j \in 1 .. n
    BY <1>1
  <2> DEFINE Dipped == \E k \in 2 .. i : /\ k >= made.p1 /\ Dips(k)
                                         /\ \A j \in k .. i : Uptrend(j) /\ ~h[j - 1]
  <2>5. Dipped' <=> Dipped
    BY <1>1, <2>1, <2>4
  <2> HIDE DEF Dipped
  <2>6. /\ Above(Fraction(Close(i)), EmaAt(i, made.p2))' <=> Above(Fraction(Close(i)), EmaAt(i, made.p2))
        /\ i > 1 => (Above(EmaAt(i - 1, made.p2), Fraction(Close(i)))'
                       <=> Above(EmaAt(i - 1, made.p2), Fraction(Close(i))))
    BY <2>2, <2>3
  <2>7. /\ Enters(i, h) <=> /\ i > 1 /\ i >= made.p1 /\ Dipped
                            /\ Above(Fraction(Close(i)), EmaAt(i, made.p2))
                            /\ ~Above(EmaAt(i - 1, made.p2), Fraction(Close(i)))
        /\ Enters(i, h)' <=> (/\ i > 1 /\ i >= made.p1 /\ Dipped
                              /\ Above(Fraction(Close(i)), EmaAt(i, made.p2))
                              /\ ~Above(EmaAt(i - 1, made.p2), Fraction(Close(i))))'
    BY <1>1, <1>7 DEF Enters, Dipped
  <2> QED
    BY <1>1, <2>5, <2>6, <2>7
<1>8. CASE made.name = "breakout"
  <2>1. i > made.p1 => \A j \in Latest(i - 1, made.p1) : j \in 1 .. n
    BY <1>1 DEF Latest
  <2>2. \A j \in 1 .. n : (Close(i) > High(j))' <=> Close(i) > High(j)
    BY ChannelStays
  <2>3. Latest(i - 1, made.p1)' = Latest(i - 1, made.p1)
    BY <1>1 DEF Latest
  <2> QED
    BY <1>1, <1>8, <2>1, <2>2, <2>3 DEF Enters
<1>9. CASE made.name = "vwap"
  BY <1>1, <1>9, VwapStays, WasAboveStays DEF Enters
<1>10. CASE made.name = "orb"
  <2>1. Place(i)' = Place(i) /\ Range1(i)' = Range1(i)
    BY <1>1 DEF Place, Range1
  <2>2. Place(i) > made.p1 => \A j \in Range1(i) : j \in 1 .. n
    BY <1>1 DEF Range1, PlaceIsInCycle
  <2>3. \A j \in 1 .. n : (Close(i) > High(j))' <=> Close(i) > High(j)
    BY ChannelStays
  <2> QED
    BY <1>1, <1>10, <2>1, <2>2, <2>3 DEF Enters
<1> QED
  BY <1>1, <1>2, <1>3, <1>4, <1>5, <1>6, <1>7, <1>8, <1>9, <1>10 DEF Name, Defaults

LEMMA RemainderIs ==
  ASSUME NEW a \in Nat, NEW m \in Nat \ {0}, NEW q \in Nat, NEW t \in Nat,
         a = m * q + t, t < m
  PROVE  a % m = t
<1> DEFINE p == a \div m
           r == a % m
<1>1. p \in Int /\ r \in 0 .. m - 1 /\ a = m * p + r
  OBVIOUS
<1> HIDE DEF p, r
<1>2. m * q + t = m * p + r
  BY <1>1
<1>3. \A x \in Int, y \in Int : x > y => m * x >= m * y + m
  <2> SUFFICES ASSUME NEW x \in Int, NEW y \in Int, x > y PROVE m * x >= m * y + m
    OBVIOUS
  <2>1. PICK k \in Nat : x = y + 1 + k
    <3>1. x - y - 1 \in Nat /\ x = y + 1 + (x - y - 1)
      OBVIOUS
    <3> QED
      BY <3>1
  <2>2. m * x = m * y + m + m * k /\ m * k >= 0
    BY <2>1
  <2> QED
    BY <2>2
<1>4. m * p \in Int /\ m * q \in Int
  BY <1>1
<1>5. ~(q > p) /\ ~(p > q)
  BY <1>1, <1>2, <1>3, <1>4
<1>6. p = q
  BY <1>1, <1>5
<1> QED
  BY <1>1, <1>2, <1>4, <1>6 DEF r

LEMMA DivisionIs ==
  ASSUME NEW a \in Nat, NEW c \in Nat \ {0}
  PROVE  a \div c \in Int /\ a % c \in 0 .. c - 1 /\ a = c * (a \div c) + (a % c)
OBVIOUS

\* The place of a bar in its cycle counts up to the cycle's length.
LEMMA PlacesCycle ==
  ASSUME made.p2 \in Nat \ {0}
  PROVE  /\ PlaceIsInCycle /\ Place(1) = 1
         /\ \A i \in Nat \ {0} : /\ Place(i) <= made.p2
                                 /\ Place(i + 1) = IF Place(i) >= made.p2 THEN 1 ELSE Place(i) + 1
<1> SUFFICES ASSUME NEW c \in Nat \ {0}, c = made.p2, NEW i \in Nat \ {0}
             PROVE  /\ Place(i) \in 1 .. i /\ Place(1) = 1 /\ Place(i) <= c
                    /\ Place(i + 1) = IF Place(i) >= c THEN 1 ELSE Place(i) + 1
  BY DEF PlaceIsInCycle
<1> DEFINE a == i - 1
<1>0. a \in Nat /\ i = a + 1 /\ c \in Nat /\ c > 0
  OBVIOUS
<1> HIDE DEF a
<1> DEFINE q == a \div c
           r == a % c
<1>1. q \in Int /\ r \in 0 .. c - 1 /\ a = c * q + r
  BY <1>0, DivisionIs
<1> HIDE DEF q, r
<1>2. q \in Nat
  <2>1. \A x \in Int : x <= -1 => c * x <= -c
    <3> SUFFICES ASSUME NEW x \in Int, x <= -1 PROVE c * x <= -c
      OBVIOUS
    <3>1. PICK k \in Nat : x = -1 - k
      <4>1. -1 - x \in Nat /\ x = -1 - (-1 - x)
        OBVIOUS
      <4> QED
        BY <4>1
    <3>2. c * x = -c - c * k /\ c * k \in Nat
      BY <3>1
    <3> QED
      BY <3>2
  <2>2. c * q \in Int
    BY <1>1
  <2>3. ~(q <= -1)
    BY <1>0, <1>1, <2>1, <2>2
  <2> QED
    BY <1>1, <2>3
<1>3. Place(i) = r + 1 /\ Place(i + 1) = (i % c) + 1 /\ Place(1) = (0 % c) + 1
  BY <1>0 DEF Place, r, a
<1>4. 0 % c = 0
  BY RemainderIs
<1>5. c * q \in Nat /\ c * (q + 1) = c * q + c /\ q + 1 \in Nat
  BY <1>0, <1>2
<1> DEFINE next == i % c
<1>8. r + 1 \in 1 .. i /\ r + 1 <= c /\ r \in Nat
  BY <1>0, <1>1, <1>5
<1>9. Place(i) = r + 1 /\ Place(i + 1) = next + 1 /\ Place(1) = 1
  BY <1>3, <1>4
<1> HIDE DEF next
<1>6. CASE r + 1 < c
  <2>1. i = c * q + (r + 1) /\ i \in Nat /\ r + 1 \in Nat
    BY <1>0, <1>1, <1>5
  <2>2. next = r + 1
    BY <1>2, <1>6, <2>1, RemainderIs DEF next
  <2> QED
    BY <1>6, <1>8, <1>9, <2>2
<1>7. CASE r + 1 = c
  <2>1. i = c * (q + 1) + 0 /\ i \in Nat /\ 0 < c /\ 0 \in Nat
    BY <1>0, <1>1, <1>5, <1>7
  <2>2. next = 0
    BY <1>5, <2>1, RemainderIs DEF next
  <2> QED
    BY <1>7, <1>8, <1>9, <2>2
<1>10. r + 1 < c \/ r + 1 = c
  BY <1>8
<1> QED
  BY <1>6, <1>7, <1>10

\* h tells the positions after the first n bars, each from those before it.
\* Held chooses such a function; that there is one, bar after bar, is part of the
\* invariant, since no theorem about recursion can be cited.
HeldBy(h, n) ==
  h = [i \in 0 .. n |-> i > 0 /\ IF h[i - 1] THEN ~Leaves(i) ELSE Enters(i, h)]

\* What such a function says of a bar, and that saying so of every bar is enough.
LEMMA HeldSteps ==
  ASSUME NEW n \in Nat, NEW h, HeldBy(h, n)
  PROVE  /\ h[0] = FALSE
         /\ \A i \in 1 .. n : h[i] <=> IF h[i - 1] THEN ~Leaves(i) ELSE Enters(i, h)
         /\ \A i \in 0 .. n : h[i] \in BOOLEAN
<1>1. \A i \in 0 .. n : h[i] = (i > 0 /\ IF h[i - 1] THEN ~Leaves(i) ELSE Enters(i, h))
  BY Zenon DEF HeldBy
<1>2. 0 \in 0 .. n /\ ~(0 > 0) /\ \A i \in 1 .. n : i \in 0 .. n /\ i > 0
  OBVIOUS
<1>3. h[0] = FALSE
  BY <1>1, <1>2, Zenon
<1>4. \A i \in 0 .. n : h[i] \in BOOLEAN
  BY <1>1, Zenon
<1>5. \A i \in 1 .. n : h[i] <=> IF h[i - 1] THEN ~Leaves(i) ELSE Enters(i, h)
  BY <1>1, <1>2, Zenon
<1> QED
  BY <1>3, <1>4, <1>5

LEMMA HeldWhen ==
  ASSUME NEW n \in Nat, NEW h, h = [i \in 0 .. n |-> h[i]], h[0] = FALSE,
         \A i \in 0 .. n : h[i] \in BOOLEAN,
         \A i \in 1 .. n : h[i] <=> IF h[i - 1] THEN ~Leaves(i) ELSE Enters(i, h)
  PROVE  HeldBy(h, n)
<1> DEFINE v(i) == i > 0 /\ IF h[i - 1] THEN ~Leaves(i) ELSE Enters(i, h)
<1>1. \A i \in 0 .. n : h[i] = v(i)
  <2> SUFFICES ASSUME NEW i \in 0 .. n PROVE h[i] = v(i)
    OBVIOUS
  <2>1. CASE i = 0
    <3>1. ~(i > 0)
      BY <2>1
    <3> QED
      BY <2>1, <3>1, Zenon
  <2>2. CASE i # 0
    <3>1. i \in 1 .. n /\ i > 0
      BY <2>2
    <3>2. h[i] <=> v(i)
      BY <3>1, Zenon
    <3>3. h[i] \in BOOLEAN
      OBVIOUS
    <3> QED
      BY <3>2, <3>3, Zenon
  <2> QED
    BY <2>1, <2>2
<1> QED
  BY <1>1, Zenon DEF HeldBy

\* The positions are the ones FollowsItsRule computes.
LEMMA HeldIsHeldBy ==
  ASSUME \E h : HeldBy(h, Len(history))
  PROVE  HeldBy(Held, Len(history))
<1> DEFINE g == CHOOSE h : HeldBy(h, Len(history))
<1>1. HeldBy(g, Len(history))
  OBVIOUS
<1>2. Held = g
  BY Zenon DEF Held, HeldBy
<1> HIDE DEF g
<1> QED
  BY <1>1, <1>2

\* A rule looks at the positions before its bar only.
LEMMA EntersLooksBack ==
  ASSUME made.name \in Name, NEW i \in Nat \ {0}, NEW h, NEW g, \A j \in 0 .. i - 1 : h[j] = g[j]
  PROVE  Enters(i, h) <=> Enters(i, g)
<1>1. \A k \in 2 .. i : (\A j \in k .. i : Uptrend(j) /\ ~h[j - 1])
                          <=> (\A j \in k .. i : Uptrend(j) /\ ~g[j - 1])
  <2>1. \A k \in 2 .. i : \A j \in k .. i : h[j - 1] = g[j - 1]
    OBVIOUS
  <2> QED
    BY <2>1
<1>2. CASE made.name = "pullback"
  BY <1>1, <1>2 DEF Enters
<1>3. CASE made.name # "pullback"
  BY <1>3, Zenon DEF Enters, Name, Defaults
<1> QED
  BY <1>2, <1>3

\* The same of the state a step leads to.
LEMMA NextHeldSteps ==
  ASSUME NEW n \in Nat, NEW h
  PROVE  ( HeldBy(h, n) =>
             /\ h[0] = FALSE
             /\ \A i \in 1 .. n : h[i] <=> IF h[i - 1] THEN ~Leaves(i) ELSE Enters(i, h)
             /\ \A i \in 0 .. n : h[i] \in BOOLEAN )'
<1>1. HeldBy(h, n) =>
        /\ h[0] = FALSE
        /\ \A i \in 1 .. n : h[i] <=> IF h[i - 1] THEN ~Leaves(i) ELSE Enters(i, h)
        /\ \A i \in 0 .. n : h[i] \in BOOLEAN
  BY HeldSteps
<1> QED
  BY <1>1, PTL

LEMMA NextHeldWhen ==
  ASSUME NEW n \in Nat, NEW h, h = [i \in 0 .. n |-> h[i]], h[0] = FALSE,
         \A i \in 0 .. n : h[i] \in BOOLEAN
  PROVE  ( (\A i \in 1 .. n : h[i] <=> IF h[i - 1] THEN ~Leaves(i) ELSE Enters(i, h))
             => HeldBy(h, n) )'
<1>1. (\A i \in 1 .. n : h[i] <=> IF h[i - 1] THEN ~Leaves(i) ELSE Enters(i, h)) => HeldBy(h, n)
  BY HeldWhen
<1> QED
  BY <1>1, PTL

LEMMA NextEntersLooksBack ==
  ASSUME NEW i \in Nat \ {0}, NEW h, NEW g, \A j \in 0 .. i - 1 : h[j] = g[j]
  PROVE  (made.name \in Name => (Enters(i, h) <=> Enters(i, g)))'
<1>1. made.name \in Name => (Enters(i, h) <=> Enters(i, g))
  BY EntersLooksBack
<1> QED
  BY <1>1, PTL

\* The positions after a bar are those before it and one more.
LEMMA HeldRestricts ==
  ASSUME NEW n, NEW m, Grown(n, m), SmaIsInBounds, NEW h, HeldBy(h, n + 1)'
  PROVE  \E g : HeldBy(g, n) /\ \A i \in 0 .. n : g[i] = h[i]
<1> DEFINE g == [i \in 0 .. n |-> h[i]]
<1>1. n \in Nat /\ made.name \in Name /\ PlaceIsInCycle
  BY HistoryGrows, MadeWell, PlacesCycle DEF Grown
<1>2. /\ h[0] = FALSE
      /\ \A i \in 1 .. n + 1 : h[i] <=> IF h[i - 1] THEN ~Leaves(i)' ELSE Enters(i, h)'
      /\ \A i \in 0 .. n + 1 : h[i] \in BOOLEAN
  <2>1. n + 1 \in Nat
    BY <1>1
  <2> QED
    BY <2>1, NextHeldSteps
<1>3. g = [i \in 0 .. n |-> g[i]] /\ \A i \in 0 .. n : g[i] = h[i]
  OBVIOUS
<1> HIDE DEF g
<1>4. ASSUME NEW i \in 1 .. n PROVE g[i] <=> IF g[i - 1] THEN ~Leaves(i) ELSE Enters(i, g)
  <2>1. /\ i \in 0 .. n /\ i - 1 \in 0 .. n /\ i \in 1 .. n + 1 /\ i \in Nat \ {0}
        /\ \A j \in 0 .. i - 1 : h[j] = g[j]
    BY <1>1, <1>3
  <2>2. Leaves(i)' <=> Leaves(i)
    BY <1>1, LeavesStays
  <2>3. Enters(i, h)' <=> Enters(i, h)
    BY <1>1, EntersStays
  <2>4. Enters(i, h) <=> Enters(i, g)
    BY <1>1, <2>1, EntersLooksBack
  <2>5. h[i] <=> IF h[i - 1] THEN ~Leaves(i)' ELSE Enters(i, h)'
    BY <1>2, <2>1
  <2>6. g[i] = h[i] /\ g[i - 1] = h[i - 1]
    BY <1>3, <2>1
  <2> QED
    BY <2>2, <2>3, <2>4, <2>5, <2>6
<1>5. g[0] = FALSE /\ \A i \in 0 .. n : g[i] \in BOOLEAN
  <2>1. 0 \in 0 .. n /\ \A i \in 0 .. n : i \in 0 .. n + 1
    BY <1>1
  <2> QED
    BY <1>2, <1>3, <2>1
<1>6. HeldBy(g, n)
  BY <1>1, <1>3, <1>4, <1>5, HeldWhen
<1> QED
  BY <1>3, <1>6

\* The positions before a bar extend to those after it.
LEMMA HeldExtends ==
  ASSUME NEW n, NEW m, Grown(n, m), SmaIsInBounds, NEW g, HeldBy(g, n)
  PROVE  \E h : HeldBy(h, n + 1)'
<1>1. n \in Nat /\ made.name \in Name /\ made' = made /\ PlaceIsInCycle
  BY HistoryGrows, MadeWell, PlacesCycle DEF Grown
<1>2. /\ g[0] = FALSE
      /\ \A i \in 1 .. n : g[i] <=> IF g[i - 1] THEN ~Leaves(i) ELSE Enters(i, g)
      /\ \A i \in 0 .. n : g[i] \in BOOLEAN
  BY <1>1, HeldSteps
<1>3. PICK b \in BOOLEAN : b <=> IF g[n] THEN ~Leaves(n + 1)' ELSE Enters(n + 1, g)'
  BY Zenon
<1> DEFINE h == [i \in 0 .. n + 1 |-> IF i = n + 1 THEN b ELSE g[i]]
<1>4. h = [i \in 0 .. n + 1 |-> h[i]] /\ h[n + 1] = b /\ \A i \in 0 .. n : h[i] = g[i]
  BY <1>1
<1> HIDE DEF h
<1>5. ASSUME NEW i \in 1 .. n + 1 PROVE h[i] <=> IF h[i - 1] THEN ~Leaves(i)' ELSE Enters(i, h)'
  <2>1. /\ i \in Nat \ {0} /\ i - 1 \in 0 .. n /\ \A j \in 0 .. i - 1 : g[j] = h[j]
    <3>1. i \in Nat \ {0} /\ i - 1 \in 0 .. n
      BY <1>1
    <3>2. \A j \in 0 .. i - 1 : j \in 0 .. n
      BY <1>1, <3>1
    <3> QED
      BY <1>4, <3>1, <3>2
  <2>2. Enters(i, g)' <=> Enters(i, h)'
    <3>1. made.name' \in Name
      BY <1>1
    <3>2. (made.name \in Name => (Enters(i, g) <=> Enters(i, h)))'
      BY <2>1, NextEntersLooksBack
    <3> QED
      BY <3>1, <3>2
  <2>3. CASE i = n + 1
    <3>1. i - 1 = n /\ n \in 0 .. n
      BY <1>1, <2>3
    <3>2. h[i] = b /\ h[i - 1] = g[n]
      BY <1>4, <2>3, <3>1
    <3>3. b <=> IF g[n] THEN ~Leaves(i)' ELSE Enters(i, g)'
      BY <1>3, <2>3
    <3> QED
      BY <2>2, <3>2, <3>3
  <2>4. CASE i # n + 1
    <3>1. i \in 1 .. n /\ i \in 0 .. n
      BY <1>1, <2>4
    <3>2. (Leaves(i)' <=> Leaves(i)) /\ (Enters(i, g)' <=> Enters(i, g))
      BY <1>1, <3>1, LeavesStays, EntersStays
    <3>3. g[i] <=> IF g[i - 1] THEN ~Leaves(i) ELSE Enters(i, g)
      BY <1>2, <3>1
    <3>4. h[i] = g[i] /\ h[i - 1] = g[i - 1]
      BY <1>4, <2>1, <3>1
    <3> QED
      BY <2>2, <3>2, <3>3, <3>4
  <2> QED
    BY <2>3, <2>4
<1>6. h[0] = FALSE /\ \A i \in 0 .. n + 1 : h[i] \in BOOLEAN
  <2>1. 0 \in 0 .. n /\ \A i \in 0 .. n + 1 : i = n + 1 \/ i \in 0 .. n
    BY <1>1
  <2> QED
    BY <1>2, <1>4, <2>1
<1>7. HeldBy(h, n + 1)'
  <2>1. n + 1 \in Nat
    BY <1>1
  <2>2. (\A i \in 1 .. n + 1 : h[i] <=> IF h[i - 1] THEN ~Leaves(i) ELSE Enters(i, h))'
    BY <1>5
  <2>3. (\A i \in 1 .. n + 1 : h[i] <=> IF h[i - 1] THEN ~Leaves(i) ELSE Enters(i, h))'
          => HeldBy(h, n + 1)'
    BY <1>4, <1>6, <2>1, NextHeldWhen
  <2> QED
    BY <2>2, <2>3
<1> QED
  BY <1>7

-----------------------------------------------------------------------------
(* Strategies on a window of closes *)

\* The signal and the flag are those of the i-th bar's rules.
Answers(i, h) ==
  \E enter, leave \in BOOLEAN : /\ Decide(enter, leave)
                                /\ enter <=> Enters(i, h)'
                                /\ leave <=> Leaves(i)'

LEMMA DecisionAnswers ==
  ASSUME NEW i, NEW h, NEW enter \in BOOLEAN, NEW leave \in BOOLEAN,
         Decide(enter, leave), enter <=> Enters(i, h)', leave <=> Leaves(i)'
  PROVE  Answers(i, h)
BY DEF Answers

LEMMA SilenceAnswers ==
  ASSUME NEW i, NEW h, Silent, ~Enters(i, h)', ~Leaves(i)'
  PROVE  Answers(i, h)
BY DEF Answers, Decide

\* What the windows hold.
WindowsKept ==
  /\ made.name = "sma" => st.prices = Recent(Closes, made.p2)
  /\ made.name = "mean_reversion" => st.prices = Recent(Closes, made.p1)
  /\ made.name = "momentum" => st.prices = Recent(Closes, made.p1 + 1)

\* A slid window is the bar's, full once the bar has enough before it.
LEMMA ClosesKept ==
  ASSUME NEW n, NEW m, Grown(n, m), NEW size \in Nat \ {0},
         st.prices = Recent(Closes, size), st' = [prices |-> Slide(st.prices, m.close, size)]
  PROVE  /\ st'.prices = Recent(Closes', size)
         /\ st'.prices \in Seq(Int)
         /\ Len(st'.prices) < size <=> n + 1 < size
         /\ n + 1 >= size => /\ st'.prices = LatestOf(Closes', n + 1, size)
                             /\ Len(st'.prices) = size
                             /\ \A i \in 1 .. size : st'.prices[i] = Close(n + 1 - size + i)'
<1>1. /\ Closes \in Seq(Int) /\ Len(Closes) = n /\ Closes' = Append(Closes, m.close)
      /\ m.close \in Int /\ n \in Nat
  BY ColumnsGrow, HistoryGrows, BarIsWhole DEF Grown
<1>2. Closes' \in Seq(Int) /\ Len(Closes') = n + 1
  BY <1>1, AppendIs
<1>3. st'.prices = Recent(Closes', size)
  <2>1. st'.prices = Slide(Recent(Closes, size), m.close, size)
    OBVIOUS
  <2> QED
    BY <1>1, <2>1, WindowSlides
<1> DEFINE k == Shorter(n + 1, size)
<1>4. /\ k \in 0 .. n + 1 /\ (size <= n + 1 => k = size) /\ (size > n + 1 => k = n + 1)
  BY <1>1 DEF Shorter
<1>5. /\ Recent(Closes', size) = LatestOf(Closes', n + 1, k)
  BY <1>2 DEF Recent
<1> HIDE DEF k
<1>6. /\ Recent(Closes', size) \in Seq(Int) /\ Len(Recent(Closes', size)) = k
      /\ \A i \in 1 .. k : Recent(Closes', size)[i] = Closes'[n + 1 - k + i]
  <2>1. PICK c \in Seq(Int) : c = Closes'
    BY <1>2
  <2>2. PICK j \in 0 .. n + 1 : j = k
    BY <1>4
  <2>3. PICK l \in 0 .. Len(c) : l = n + 1
    BY <1>1, <1>2, <2>1
  <2>4. /\ LatestOf(c, l, j) \in Seq(Int) /\ Len(LatestOf(c, l, j)) = j
        /\ \A i \in 1 .. j : LatestOf(c, l, j)[i] = c[l - j + i]
    <3>1. j \in 0 .. l
      BY <2>3
    <3> QED
      BY <3>1, LatestAre
  <2>5. Recent(Closes', size) = LatestOf(c, l, j)
    BY <1>5, <2>1, <2>2, <2>3
  <2> DEFINE r == Recent(Closes', size)
  <2>6. r = LatestOf(c, l, j)
    BY <2>5
  <2> HIDE DEF r
  <2>7. r \in Seq(Int) /\ Len(r) = j /\ \A i \in 1 .. j : r[i] = c[l - j + i]
    BY <2>4, <2>6
  <2>8. \A i \in 1 .. k : r[i] = c[n + 1 - k + i]
    BY <1>1, <2>2, <2>3, <2>7
  <2> QED
    BY <2>1, <2>2, <2>7, <2>8 DEF r
<1>7. ASSUME n + 1 >= size
      PROVE  \A i \in 1 .. size : st'.prices[i] = Close(n + 1 - size + i)'
  <2> SUFFICES ASSUME NEW i \in 1 .. size PROVE st'.prices[i] = Close(n + 1 - size + i)'
    OBVIOUS
  <2>1. k = size /\ n + 1 - size + i \in 1 .. n + 1
    BY <1>1, <1>4, <1>7
  <2>2. st'.prices[i] = Closes'[n + 1 - size + i]
    BY <1>3, <1>6, <2>1
  <2> QED
    BY <2>1, <2>2, ColumnsGrow
<1> QED
  BY <1>1, <1>3, <1>4, <1>5, <1>6, <1>7

\* A common factor turns a comparison when it is negative.
LEMMA SignedFactor ==
  ASSUME NEW x \in Int, NEW y \in Int, NEW o \in Int
  PROVE  /\ o > 0 => (x * o > y * o <=> x > y) /\ (x * o < -(y * o) <=> -x > y)
         /\ o < 0 => (x * o > y * o <=> x < y) /\ (x * o < -(y * o) <=> -x < y)
         /\ o = 0 => x * o = 0 /\ y * o = 0
<1>1. ASSUME NEW a \in Int, NEW b \in Int, o > 0 PROVE a * o > b * o <=> a > b
  BY <1>1, SMT
<1>2. ASSUME NEW a \in Int, NEW b \in Int, o < 0 PROVE a * o > b * o <=> a < b
  BY <1>2, SMT
<1>3. (-x) * o = -(x * o) /\ -x \in Int
  BY SMT
<1>4. x * o < -(y * o) <=> (-x) * o > y * o
  BY <1>3
<1>5. o = 0 => x * o = 0 /\ y * o = 0
  OBVIOUS
<1> QED
  BY <1>1, <1>2, <1>3, <1>4, <1>5

\* momentum: the oldest and the newest close of a full window are those of the rule;
\* multiplying the comparison by the oldest close is multiplying by its sign.
LEMMA MomentumFollows ==
  ASSUME NEW n, NEW m, Grown(n, m), made.name = "momentum",
         WindowsKept, Momentum(m), NEW h
  PROVE  WindowsKept' /\ Answers(n + 1, h)
<1>1. /\ made' = made /\ made.p1 \in Nat \ {0} /\ made.fp \in Nat /\ n \in Nat
  BY MadeWell, HistoryGrows DEF Grown
<1>2. PICK size \in Nat \ {0} : size = made.p1 + 1
  BY <1>1
<1>3. st.prices = Recent(Closes, size) /\ st' = [prices |-> Slide(st.prices, m.close, size)]
  BY <1>2 DEF WindowsKept, Momentum
<1>4. /\ st'.prices = Recent(Closes', size)
      /\ Len(st'.prices) < size <=> n + 1 < size
      /\ n + 1 >= size => /\ Len(st'.prices) = size
                          /\ \A i \in 1 .. size : st'.prices[i] = Close(n + 1 - size + i)'
  BY <1>3, ClosesKept
<1>5. WindowsKept'
  BY <1>1, <1>2, <1>4 DEF WindowsKept
<1>6. /\ Enters(n + 1, h)' <=> n + 1 > made.p1 /\ Rises(n + 1)'
      /\ Leaves(n + 1)' <=> n + 1 > made.p1 /\ Falls(n + 1)'
  BY <1>1 DEF Enters, Leaves
<1>7. CASE n + 1 < size
  <2>1. Silent
    BY <1>2, <1>4, <1>7 DEF Momentum
  <2> QED
    BY <1>1, <1>2, <1>5, <1>6, <1>7, <2>1, SilenceAnswers
<1>8. CASE n + 1 >= size
  <2> DEFINE oldest == Head(st'.prices)
             change == 1000 * (m.close - oldest) * oldest
             threshold == made.fp * oldest * oldest
             enter == change > threshold \/ (oldest = 0 /\ m.close > 0)
             leave == change < -threshold \/ (oldest = 0 /\ m.close < 0)
  <2>1. Decide(enter, leave)
    <3>1. ~(Len(st'.prices) < made.p1 + 1)
      BY <1>2, <1>4, <1>8
    <3> QED
      BY <3>1, Zenon DEF Momentum
  <2>2. oldest = Close(n + 1 - made.p1)' /\ m.close = Close(n + 1)' /\ oldest \in Int /\ m.close \in Int
    <3>1. Head(st'.prices) = st'.prices[1]
      BY <1>2, <1>4, <1>8
    <3>2. 1 \in 1 .. size /\ n + 1 - size + 1 = n + 1 - made.p1
      BY <1>1, <1>2
    <3>3. st'.prices[1] = Close(n + 1 - size + 1)'
      BY <1>4, <1>8, <3>2
    <3>4. n + 1 - size + 1 \in 1 .. n + 1 /\ n + 1 \in 1 .. n + 1
      BY <1>1, <1>2, <1>8
    <3>5. Close(n + 1 - size + 1)' = Close(n + 1 - made.p1)'
      BY <1>1, <3>2
    <3> QED
      BY <3>1, <3>3, <3>4, <3>5, HistoryGrows
  <2> DEFINE x == 1000 * (m.close - oldest)
             y == made.fp * oldest
  <2>3. x \in Int /\ y \in Int /\ change = x * oldest /\ threshold = y * oldest
    BY <1>1, <2>2
  <2>4. /\ Rises(n + 1)' <=> \/ oldest > 0 /\ x > y
                             \/ oldest < 0 /\ x < y
                             \/ oldest = 0 /\ m.close > 0
        /\ Falls(n + 1)' <=> \/ oldest > 0 /\ -x > y
                             \/ oldest < 0 /\ -x < y
                             \/ oldest = 0 /\ m.close < 0
    BY <1>1, <2>2 DEF Rises, Falls
  <2> HIDE DEF oldest, change, threshold, x, y
  <2>5. /\ oldest > 0 => /\ change > threshold <=> x > y
                         /\ change < -threshold <=> -x > y
        /\ oldest < 0 => /\ change > threshold <=> x < y
                         /\ change < -threshold <=> -x < y
        /\ oldest = 0 => change = 0 /\ threshold = 0
    BY <2>2, <2>3, SignedFactor
  <2>6. (enter <=> Rises(n + 1)') /\ (leave <=> Falls(n + 1)')
    BY <2>2, <2>4, <2>5
  <2>7. n + 1 > made.p1
    BY <1>1, <1>2, <1>8
  <2>8. (enter <=> Enters(n + 1, h)') /\ (leave <=> Leaves(n + 1)')
    BY <1>6, <2>6, <2>7
  <2>9. enter \in BOOLEAN /\ leave \in BOOLEAN
    BY Zenon
  <2> HIDE DEF enter, leave
  <2> QED
    BY <1>5, <2>1, <2>8, <2>9, DecisionAnswers
<1> QED
  BY <1>1, <1>7, <1>8

\* The latest of the latest numbers are the latest.
LEMMA LatestOfLatest ==
  ASSUME NEW col \in Seq(Int), NEW n \in 0 .. Len(col), NEW k \in 0 .. n, NEW j \in 0 .. k
  PROVE  LatestOf(LatestOf(col, n, k), k, j) = LatestOf(col, n, j)
<1> DEFINE w == LatestOf(col, n, k)
           u == LatestOf(w, k, j)
           v == LatestOf(col, n, j)
<1>1. w \in Seq(Int) /\ Len(w) = k /\ \A i \in 1 .. k : w[i] = col[n - k + i]
  BY LatestAre
<1>2. v \in Seq(Int) /\ Len(v) = j /\ \A i \in 1 .. j : v[i] = col[n - j + i]
  <2>1. j \in 0 .. n
    BY LenProperties
  <2> QED
    BY <2>1, LatestAre
<1> HIDE DEF w
<1>3. u \in Seq(Int) /\ Len(u) = j /\ \A i \in 1 .. j : u[i] = w[k - j + i]
  <2>1. k \in 0 .. Len(w)
    BY <1>1, LenProperties
  <2> QED
    BY <1>1, <2>1, LatestAre
<1> HIDE DEF u, v
<1>4. ASSUME NEW i \in 1 .. j PROVE u[i] = v[i]
  <2>1. k - j + i \in 1 .. k /\ n - k + (k - j + i) = n - j + i
    BY LenProperties
  <2> QED
    BY <1>1, <1>2, <1>3, <2>1
<1>5. u = v
  BY <1>2, <1>3, <1>4, SameSequence
<1> QED
  BY <1>5 DEF u, v, w

\* sma: both sums are over the latest closes of one window.
LEMMA SmaFollows ==
  ASSUME NEW n, NEW m, Grown(n, m), made.name = "sma", SmaIsInBounds,
         WindowsKept, SmaCross(m), NEW h
  PROVE  WindowsKept' /\ Answers(n + 1, h)
<1>1. /\ made' = made /\ made.p1 \in Nat \ {0} /\ made.p2 \in Nat \ {0} /\ n \in Nat
      /\ made.p1 <= made.p2
  BY MadeWell, HistoryGrows DEF Grown, SmaIsInBounds
<1>2. PICK slow \in Nat \ {0}, fast \in Nat \ {0} : slow = made.p2 /\ fast = made.p1 /\ fast <= slow
  BY <1>1
<1>3. st.prices = Recent(Closes, slow) /\ st' = [prices |-> Slide(st.prices, m.close, slow)]
  BY <1>2 DEF WindowsKept, SmaCross
<1>4. /\ st'.prices = Recent(Closes', slow)
      /\ Len(st'.prices) < slow <=> n + 1 < slow
      /\ n + 1 >= slow => Len(st'.prices) = slow /\ st'.prices = LatestOf(Closes', n + 1, slow)
  BY <1>3, ClosesKept
<1>5. WindowsKept'
  BY <1>1, <1>2, <1>4 DEF WindowsKept
<1>6. /\ Enters(n + 1, h)' <=> n + 1 >= made.p2 /\ SmaSign(n + 1)' > 0
      /\ Leaves(n + 1)' <=> n + 1 >= made.p2 /\ SmaSign(n + 1)' < 0
  BY <1>1 DEF Enters, Leaves
<1>7. CASE n + 1 < slow
  <2>1. Silent
    BY <1>2, <1>4, <1>7 DEF SmaCross
  <2> QED
    BY <1>1, <1>2, <1>5, <1>6, <1>7, <2>1, SilenceAnswers
<1>8. CASE n + 1 >= slow
  <2> DEFINE prices == st'.prices
             sign == slow * SumOf(LatestOf(Closes', n + 1, fast)) - fast * SumOf(prices)
  <2>1. SumOf(SubSeq(prices, slow - fast + 1, slow)) = SumOf(LatestOf(Closes', n + 1, fast))
    <3>1. PICK c \in Seq(Int) : c = Closes' /\ Len(c) = n + 1
      <4>1. Closes \in Seq(Int) /\ m.close \in Int /\ Len(Closes) = n /\ Closes' = Append(Closes, m.close)
        BY ColumnsGrow, BarIsWhole DEF Grown
      <4>2. Append(Closes, m.close) \in Seq(Int) /\ Len(Append(Closes, m.close)) = n + 1
        BY <4>1, AppendIs
      <4> QED
        BY <4>1, <4>2
    <3>2. PICK l \in 0 .. Len(c) : l = n + 1
      BY <1>1, <3>1
    <3>3. slow \in 0 .. l /\ fast \in 0 .. slow
      BY <1>2, <1>8, <3>2
    <3>4. LatestOf(LatestOf(c, l, slow), slow, fast) = LatestOf(c, l, fast)
      BY <3>3, LatestOfLatest
    <3>5. prices = LatestOf(c, l, slow)
      BY <1>4, <1>8, <3>1, <3>2
    <3>6. SubSeq(prices, slow - fast + 1, slow) = LatestOf(prices, slow, fast)
      BY DEF LatestOf
    <3> HIDE DEF prices
    <3> QED
      BY <3>1, <3>2, <3>4, <3>5, <3>6
  <2>2. SmaSpreads(prices, made.p1, made.p2) = {sign}
    <3>1. fast <= Len(prices) /\ Len(prices) = slow
      BY <1>2, <1>4, <1>8
    <3> HIDE DEF prices
    <3> QED
      BY <1>2, <2>1, <3>1 DEF SmaSpreads
  <2>3. Decide(sign > 0, sign < 0)
    <3>1. ~(Len(st'.prices) < made.p2)
      BY <1>2, <1>4, <1>8
    <3>2. \E spread \in {sign} : Decide(spread > 0, spread < 0)
      BY <2>2, <3>1, Zenon DEF SmaCross
    <3> HIDE DEF sign
    <3> QED
      BY <3>2, Zenon
  <2>4. SmaSign(n + 1)' = sign
    BY <1>1, <1>2, <1>4, <1>8 DEF SmaSign, CloseSum
  <2> HIDE DEF sign
  <2> DEFINE enter == sign > 0
             leave == sign < 0
  <2>5. (enter <=> Enters(n + 1, h)') /\ (leave <=> Leaves(n + 1)')
    BY <1>2, <1>6, <1>8, <2>4
  <2>6. enter \in BOOLEAN /\ leave \in BOOLEAN
    OBVIOUS
  <2>7. Decide(enter, leave)
    BY <2>3, Zenon
  <2> HIDE DEF enter, leave
  <2> QED
    BY <1>5, <2>5, <2>6, <2>7, DecisionAnswers
<1> QED
  BY <1>1, <1>7, <1>8

\* The squares of the distances from the mean, by way of the mean of squares.
LEMMA DeviationsSum ==
  ASSUME NEW w \in Seq(Int)
  PROVE  /\ SumOf(w) \in Int /\ SumOf(Squares(w)) \in Int
         /\ SumOf(Deviations(w)) = (Len(w) * SumOf(Squares(w)) - SumOf(w) * SumOf(w)) * Len(w)
<1> DEFINE k == Len(w)
           s == SumOf(w)
           sq == Squares(w)
           dev == Deviations(w)
<1>1. k \in Nat /\ s \in Int /\ DOMAIN w = 1 .. k /\ \A i \in 1 .. k : w[i] \in Int
  BY LenProperties, SumOfSeq, ElementOfSeq
<1>2. /\ sq = [i \in 1 .. k |-> w[i] * w[i]]
      /\ dev = [i \in 1 .. k |-> (k * w[i] - s) * (k * w[i] - s)]
  BY <1>1 DEF Squares, Deviations
<1> HIDE DEF k, s, sq, dev
<1>3. sq \in [1 .. k -> Int] /\ dev \in [1 .. k -> Int]
  <2>1. \A x \in Int : x * x \in Int /\ (k * x - s) * (k * x - s) \in Int
    BY <1>1
  <2> QED
    BY <1>1, <1>2, <2>1
<1>4. Len(sq) = k /\ Len(dev) = k /\ sq \in Seq(Int)
  BY <1>1, <1>3, SequenceOf
<1>5. SumOf(sq) = SumTo(sq, k) /\ SumOf(dev) = SumTo(dev, k) /\ s = SumTo(w, k)
  BY <1>4 DEF SumOf, k, s
<1> DEFINE Poly(a, q, j) == k * k * q - 2 * k * s * a + j * s * s
           G == { j \in Nat : j <= k => SumTo(dev, j) = Poly(SumTo(w, j), SumTo(sq, j), j) }
<1>10. 0 \in G
  <2>1. SumTo(dev, 0) = 0 /\ SumTo(w, 0) = 0 /\ SumTo(sq, 0) = 0
    BY SumNext
  <2>2. Poly(0, 0, 0) = 0
    BY <1>1
  <2> HIDE DEF Poly
  <2> QED
    BY <2>1, <2>2
<1>11. ASSUME NEW j \in Nat, j \in G PROVE j + 1 \in G
  <2> SUFFICES ASSUME j + 1 <= k
               PROVE  SumTo(dev, j + 1) = Poly(SumTo(w, j + 1), SumTo(sq, j + 1), j + 1)
    OBVIOUS
  <2>1. \A x, a, q \in Int : Poly(a, q, j) + (k * x - s) * (k * x - s) = Poly(a + x, q + x * x, j + 1)
    BY <1>1
  <2> HIDE DEF Poly
  <2>2. /\ SumTo(dev, j) = Poly(SumTo(w, j), SumTo(sq, j), j)
        /\ w[j + 1] \in Int /\ sq[j + 1] = w[j + 1] * w[j + 1]
        /\ dev[j + 1] = (k * w[j + 1] - s) * (k * w[j + 1] - s)
    BY <1>1, <1>2, <1>11
  <2>3. SumTo(w, j) \in Int /\ SumTo(sq, j) \in Int
    <3>1. \A i \in 1 .. j : w[i] \in Int /\ sq[i] \in Int
      BY <1>1, <1>3
    <3> QED
      BY <3>1, SumType
  <2>4. /\ SumTo(w, j + 1) = SumTo(w, j) + w[j + 1]
        /\ SumTo(sq, j + 1) = SumTo(sq, j) + sq[j + 1]
        /\ SumTo(dev, j + 1) = SumTo(dev, j) + dev[j + 1]
    BY SumNext
  <2>5. Poly(SumTo(w, j), SumTo(sq, j), j) + (k * w[j + 1] - s) * (k * w[j + 1] - s)
          = Poly(SumTo(w, j) + w[j + 1], SumTo(sq, j) + w[j + 1] * w[j + 1], j + 1)
    BY <2>1, <2>2, <2>3, Zenon
  <2>6. SumTo(dev, j + 1) = Poly(SumTo(w, j), SumTo(sq, j), j) + (k * w[j + 1] - s) * (k * w[j + 1] - s)
    BY <2>2, <2>4, Zenon
  <2>7. Poly(SumTo(w, j + 1), SumTo(sq, j + 1), j + 1)
          = Poly(SumTo(w, j) + w[j + 1], SumTo(sq, j) + w[j + 1] * w[j + 1], j + 1)
    BY <2>2, <2>4, Zenon
  <2> QED
    BY <2>5, <2>6, <2>7, Zenon
<1>12. \A j \in Nat : j \in G
  <2> HIDE DEF G
  <2> QED
    BY <1>10, <1>11, AllReached
<1>6. SumTo(dev, k) = k * k * SumTo(sq, k) - 2 * k * s * SumTo(w, k) + k * s * s
  <2> HIDE DEF Poly
  <2>1. SumTo(dev, k) = Poly(SumTo(w, k), SumTo(sq, k), k)
    BY <1>1, <1>12
  <2> QED
    BY <2>1 DEF Poly
<1>7. SumOf(sq) \in Int
  BY <1>4, SumOfSeq
<1>8. \A q \in Int : k * k * q - 2 * k * s * s + k * s * s = (k * q - s * s) * k
  BY <1>1
<1>9. SumOf(dev) = (k * SumOf(sq) - s * s) * k
  BY <1>5, <1>6, <1>7, <1>8
<1> QED
  BY <1>1, <1>7, <1>9 DEF k, s, sq, dev

\* mean_reversion: the variance as the code computes it is the mean of the squared
\* deviations, and the comparison is the rule's times the number of closes.
LEMMA MeanReversionFollows ==
  ASSUME NEW n, NEW m, Grown(n, m), made.name = "mean_reversion",
         WindowsKept, MeanReversion(m), NEW h
  PROVE  WindowsKept' /\ Answers(n + 1, h)
<1>1. /\ made' = made /\ made.p1 \in Nat \ {0} /\ made.fp \in Nat /\ n \in Nat
      /\ m.close = Close(n + 1)' /\ m.close \in Int
  BY MadeWell, HistoryGrows, BarIsWhole DEF Grown
<1>2. PICK size \in Nat \ {0} : size = made.p1
  BY <1>1
<1>3. st.prices = Recent(Closes, size) /\ st' = [prices |-> Slide(st.prices, m.close, size)]
  BY <1>2 DEF WindowsKept, MeanReversion
<1>4. /\ st'.prices = Recent(Closes', size) /\ st'.prices \in Seq(Int)
      /\ Len(st'.prices) < size <=> n + 1 < size
      /\ n + 1 >= size => Len(st'.prices) = size /\ st'.prices = LatestOf(Closes', n + 1, size)
  BY <1>3, ClosesKept
<1>5. WindowsKept'
  BY <1>1, <1>2, <1>4 DEF WindowsKept
<1>6. /\ Enters(n + 1, h)' <=> n + 1 >= made.p1 /\ BelowBand(n + 1)'
      /\ Leaves(n + 1)' <=> n + 1 >= made.p1 /\ made.p1 * Close(n + 1)' >= CloseSum(n + 1, made.p1)'
  BY <1>1 DEF Enters, Leaves
<1>7. CASE n + 1 < size
  <2>1. Silent
    BY <1>2, <1>4, <1>7 DEF MeanReversion
  <2> QED
    BY <1>1, <1>2, <1>5, <1>6, <1>7, <2>1, SilenceAnswers
<1>8. CASE n + 1 >= size
  <2> DEFINE prices == st'.prices
             k == made.p1
             sum == SumOf(prices)
             squares == SumOf(Squares(prices))
             dip == sum - k * m.close
             variance == k * squares - sum * sum
             enter == dip > 0 /\ 100 * dip * dip > made.fp * made.fp * variance
             leave == dip <= 0
  <2>1. Decide(enter, leave)
    <3>1. ~(Len(st'.prices) < made.p1)
      BY <1>2, <1>4, <1>8
    <3> QED
      BY <3>1, Zenon DEF MeanReversion
  <2>2. sum \in Int /\ squares \in Int /\ SumOf(Deviations(prices)) = (size * squares - sum * sum) * size
    BY <1>4, <1>8, DeviationsSum
  <2>3. prices = LatestOf(Closes', n + 1, made.p1')
    BY <1>1, <1>2, <1>4, <1>8
  <2> HIDE DEF prices
  <2>4. CloseSum(n + 1, made.p1)' = sum
    BY <2>3 DEF CloseSum
  <2>5. BelowBand(n + 1)' <=> /\ dip > 0
                              /\ 100 * k * dip * dip > made.fp * made.fp * SumOf(Deviations(prices))
    BY <1>1, <2>3, <2>4 DEF BelowBand
  <2>6. SumOf(Deviations(prices)) = variance * k /\ variance \in Int /\ dip \in Int
    BY <1>1, <1>2, <2>2
  <2> HIDE DEF sum, squares
  <2>7. made.p1 * Close(n + 1)' >= CloseSum(n + 1, made.p1)' <=> dip <= 0
    <3>1. sum \in Int /\ k * m.close \in Int
      BY <1>1, <2>2
    <3> QED
      BY <1>1, <2>4, <3>1
  <2> HIDE DEF variance, dip
  <2> DEFINE x == 100 * dip * dip
             y == made.fp * made.fp * variance
  <2>8. x \in Int /\ y \in Int /\ k \in Int /\ k > 0
    BY <1>1, <2>6
  <2>9. 100 * k * dip * dip = x * k /\ made.fp * made.fp * (variance * k) = y * k
    BY <1>1, <2>6
  <2>10. x * k > y * k <=> x > y
    <3> HIDE DEF x, y, k
    <3> QED
      BY <2>8, SignedFactor
  <2>11. (enter <=> Enters(n + 1, h)') /\ (leave <=> Leaves(n + 1)')
    <3>1. n + 1 >= made.p1
      BY <1>2, <1>8
    <3> HIDE DEF x, y, k
    <3>2. BelowBand(n + 1)' <=> dip > 0 /\ x > y
      BY <2>5, <2>6, <2>9, <2>10
    <3> QED
      BY <1>6, <2>7, <3>1, <3>2 DEF x, y
  <2>12. enter \in BOOLEAN /\ leave \in BOOLEAN
    OBVIOUS
  <2> HIDE DEF enter, leave
  <2> QED
    BY <1>5, <2>1, <2>11, <2>12, DecisionAnswers
<1> QED
  BY <1>1, <1>7, <1>8

-----------------------------------------------------------------------------
(* Strategies on highs and lows *)

\* Of the numbers of a sequence there is a greatest and a least.
LEMMA Extremes ==
  ASSUME NEW f, NEW n \in Nat, \A i \in 1 .. n + 1 : f[i] \in Int
  PROVE  /\ \E i \in 1 .. n + 1 : \A j \in 1 .. n + 1 : f[i] >= f[j]
         /\ \E i \in 1 .. n + 1 : \A j \in 1 .. n + 1 : f[i] <= f[j]
<1> DEFINE Greatest(k) == \E i \in 1 .. k + 1 : \A j \in 1 .. k + 1 : f[i] >= f[j]
           Least(k) == \E i \in 1 .. k + 1 : \A j \in 1 .. k + 1 : f[i] <= f[j]
           G == { k \in Nat : k <= n => Greatest(k) /\ Least(k) }
<1>1. 0 \in G
  <2>1. 1 \in 1 .. 0 + 1 /\ (\A j \in 1 .. 0 + 1 : j = 1) /\ f[1] \in Int
    OBVIOUS
  <2>2. f[1] >= f[1] /\ f[1] <= f[1]
    BY <2>1
  <2>3. Greatest(0) /\ Least(0)
    BY <2>1, <2>2
  <2> QED
    BY <2>3
<1>2. ASSUME NEW k \in Nat, k \in G PROVE k + 1 \in G
  <2> SUFFICES ASSUME k + 1 <= n PROVE Greatest(k + 1) /\ Least(k + 1)
    OBVIOUS
  <2>1. PICK a \in 1 .. k + 1 : \A j \in 1 .. k + 1 : f[a] >= f[j]
    BY <1>2
  <2>2. PICK b \in 1 .. k + 1 : \A j \in 1 .. k + 1 : f[b] <= f[j]
    BY <1>2
  <2> DEFINE l == k + 1 + 1
  <2>3. /\ l \in 1 .. l /\ a \in 1 .. l /\ b \in 1 .. l
        /\ \A j \in 1 .. l : (j = l \/ j \in 1 .. k + 1) /\ f[j] \in Int
    OBVIOUS
  <2> HIDE DEF l
  <2>4. \E i \in 1 .. l : \A j \in 1 .. l : f[i] >= f[j]
    <3>1. CASE f[a] >= f[l]
      BY <2>1, <2>3, <3>1
    <3>2. CASE ~(f[a] >= f[l])
      <4>1. \A j \in 1 .. l : f[l] >= f[j]
        BY <2>1, <2>3, <3>2
      <4> QED
        BY <2>3, <4>1
    <3> QED
      BY <3>1, <3>2
  <2>5. \E i \in 1 .. l : \A j \in 1 .. l : f[i] <= f[j]
    <3>1. CASE f[b] <= f[l]
      BY <2>2, <2>3, <3>1
    <3>2. CASE ~(f[b] <= f[l])
      <4>1. \A j \in 1 .. l : f[l] <= f[j]
        BY <2>2, <2>3, <3>2
      <4> QED
        BY <2>3, <4>1
    <3> QED
      BY <3>1, <3>2
  <2> QED
    BY <2>4, <2>5 DEF l
<1>3. \A k \in Nat : k \in G
  <2> HIDE DEF G
  <2> QED
    BY <1>1, <1>2, AllReached
<1> QED
  BY <1>3

\* To be beyond the greatest is to be beyond all.
LEMMA BeyondAll ==
  ASSUME NEW w \in Seq(Int), Len(w) # 0, NEW c \in Int
  PROVE  /\ c > Max(ToSet(w)) <=> \A i \in 1 .. Len(w) : c > w[i]
         /\ c < Min(ToSet(w)) <=> \A i \in 1 .. Len(w) : c < w[i]
<1>1. Len(w) \in Nat /\ DOMAIN w = 1 .. Len(w) /\ \A i \in 1 .. Len(w) : w[i] \in Int
  BY LenProperties, ElementOfSeq
<1>2. PICK n \in Nat : Len(w) = n + 1
  <2>1. Len(w) - 1 \in Nat /\ Len(w) = (Len(w) - 1) + 1
    BY <1>1
  <2> QED
    BY <2>1
<1>3. /\ \E i \in 1 .. n + 1 : \A j \in 1 .. n + 1 : w[i] >= w[j]
      /\ \E i \in 1 .. n + 1 : \A j \in 1 .. n + 1 : w[i] <= w[j]
  BY <1>1, <1>2, Extremes
<1>4. ToSet(w) = { w[i] : i \in 1 .. n + 1 }
  BY <1>1, <1>2 DEF ToSet
<1>5. /\ \E x \in ToSet(w) : \A y \in ToSet(w) : x >= y
      /\ \E x \in ToSet(w) : \A y \in ToSet(w) : x <= y
  BY <1>3, <1>4
<1>6. /\ Max(ToSet(w)) \in ToSet(w) /\ \A y \in ToSet(w) : Max(ToSet(w)) >= y
      /\ Min(ToSet(w)) \in ToSet(w) /\ \A y \in ToSet(w) : Min(ToSet(w)) <= y
  BY <1>5 DEF Max, Min
<1>7. PICK a \in 1 .. n + 1, b \in 1 .. n + 1 : Max(ToSet(w)) = w[a] /\ Min(ToSet(w)) = w[b]
  BY <1>4, <1>6
<1>8. \A i \in 1 .. n + 1 : w[a] >= w[i] /\ w[b] <= w[i]
  BY <1>4, <1>6, <1>7
<1>9. \A i \in 1 .. n + 1 : w[i] \in Int
  BY <1>1, <1>2
<1> QED
  BY <1>2, <1>7, <1>8, <1>9

\* breakout: the two windows are those of the latest highs and lows, and the
\* channel is there once they were full before the bar.
ChannelKept ==
  made.name = "breakout" =>
    /\ st.highs = Recent(Highs, made.p1) /\ st.lows = Recent(Lows, made.p1)
    /\ st.channel_ready <=> Len(history) > made.p1

LEMMA NextBreakoutRules ==
  ASSUME NEW i \in Nat, NEW h
  PROVE  ( made.name = "breakout" =>
             /\ Enters(i, h) <=> i > made.p1 /\ \A j \in Latest(i - 1, made.p1) : Close(i) > High(j)
             /\ Leaves(i) <=> i > made.p1 /\ \A j \in Latest(i - 1, made.p1) : Close(i) < Low(j) )'
<1>1. made.name = "breakout" =>
        /\ Enters(i, h) <=> i > made.p1 /\ \A j \in Latest(i - 1, made.p1) : Close(i) > High(j)
        /\ Leaves(i) <=> i > made.p1 /\ \A j \in Latest(i - 1, made.p1) : Close(i) < Low(j)
  BY DEF Enters, Leaves
<1> QED
  BY <1>1, PTL

\* breakout: the channel is that of the bars before this one.
LEMMA BreakoutFollows ==
  ASSUME NEW n, NEW m, Grown(n, m), made.name = "breakout",
         ChannelKept, Breakout(m), NEW h
  PROVE  ChannelKept' /\ Answers(n + 1, h)
<1>1. /\ made' = made /\ made.p1 \in Nat \ {0} /\ n \in Nat /\ n = Len(history) /\ Len(history)' = n + 1
      /\ m.high \in Int /\ m.low \in Int /\ m.close \in Int /\ m.close = Close(n + 1)'
  BY MadeWell, HistoryGrows, BarIsWhole DEF Grown
<1>2. PICK p \in Nat \ {0} : p = made.p1
  BY <1>1
<1>3. /\ Highs \in Seq(Int) /\ Len(Highs) = n /\ Highs' = Append(Highs, m.high)
      /\ Lows \in Seq(Int) /\ Len(Lows) = n /\ Lows' = Append(Lows, m.low)
  BY ColumnsGrow
<1>4. /\ st.highs = Recent(Highs, p) /\ st.lows = Recent(Lows, p)
      /\ st.channel_ready <=> n > p
  BY <1>1, <1>2 DEF ChannelKept
<1> DEFINE full == Len(st.highs) = made.p1
<1>5. /\ st'.highs = Slide(st.highs, m.high, p) /\ st'.lows = Slide(st.lows, m.low, p)
      /\ st'.channel_high = IF full THEN Max(ToSet(st.highs)) ELSE st.channel_high
      /\ st'.channel_low = IF full THEN Min(ToSet(st.lows)) ELSE st.channel_low
      /\ st'.channel_ready = (full \/ st.channel_ready)
  BY <1>2 DEF Breakout
<1> HIDE DEF full
<1>6. full <=> n >= p
  <2>1. Len(st.highs) = Shorter(n, p)
    BY <1>3, <1>4, RecentAre
  <2> QED
    BY <1>1, <1>2, <2>1 DEF Shorter, full
<1>11. st'.channel_ready <=> n >= p
  <2>1. st'.channel_ready <=> full \/ st.channel_ready
    BY <1>5, Zenon
  <2>2. n > p => n >= p
    BY <1>1
  <2> QED
    BY <1>4, <1>6, <2>1, <2>2, Zenon
<1>7. ChannelKept'
  <2>1. st'.highs = Recent(Highs', p) /\ st'.lows = Recent(Lows', p)
    BY <1>1, <1>3, <1>4, <1>5, WindowSlides
  <2>2. st'.channel_ready <=> n + 1 > p
    BY <1>1, <1>11
  <2> QED
    BY <1>1, <1>2, <2>1, <2>2 DEF ChannelKept
<1>8. /\ Enters(n + 1, h)' <=> /\ n + 1 > p
                               /\ \A i \in n - p + 1 .. n : m.close > High(i)
      /\ Leaves(n + 1)' <=> /\ n + 1 > p
                            /\ \A i \in n - p + 1 .. n : m.close < Low(i)
  <2> DEFINE k == n + 1
  <2>1. k \in Nat /\ k - 1 = n /\ n + 1 = k
    BY <1>1
  <2> HIDE DEF k
  <2>2. ( made.name = "breakout" =>
           /\ Enters(k, h) <=> k > made.p1 /\ \A j \in Latest(k - 1, made.p1) : Close(k) > High(j)
           /\ Leaves(k) <=> k > made.p1 /\ \A j \in Latest(k - 1, made.p1) : Close(k) < Low(j) )'
    BY <2>1, NextBreakoutRules
  <2>3. made.name' = "breakout" /\ Close(k)' = m.close
    BY <1>1, <2>1
  <2>4. Latest(k - 1, made.p1)' = n - p + 1 .. n
    BY <1>1, <1>2, <2>1 DEF Latest
  <2>5. k > p => \A i \in n - p + 1 .. n : High(i)' = High(i) /\ Low(i)' = Low(i)
    BY <1>1, <2>1, HistoryGrows
  <2>6. (k > made.p1)' <=> k > p
    BY <1>1, <1>2
  <2> DEFINE Up == \A j \in n - p + 1 .. n : m.close > High(j)
             Down == \A j \in n - p + 1 .. n : m.close < Low(j)
  <2>7. (Enters(k, h)' <=> k > p /\ Up') /\ (Leaves(k)' <=> k > p /\ Down')
    BY <2>2, <2>3, <2>4, <2>6
  <2>8. k > p => (Up' <=> Up) /\ (Down' <=> Down)
    BY <2>5
  <2> HIDE DEF Up, Down
  <2>9. (Enters(k, h)' <=> k > p /\ Up) /\ (Leaves(k)' <=> k > p /\ Down)
    BY <2>7, <2>8, Zenon
  <2> QED
    BY <2>1, <2>9 DEF Up, Down, k
<1>9. CASE n < p
  <2>1. Silent
    <3>1. ~st'.channel_ready
      BY <1>1, <1>11, <1>9
    <3> QED
      BY <3>1, Zenon DEF Breakout
  <2>2. ~Enters(n + 1, h)' /\ ~Leaves(n + 1)'
    BY <1>1, <1>8, <1>9
  <2> QED
    BY <1>7, <2>1, <2>2, SilenceAnswers
<1>10. CASE n >= p
  <2> DEFINE enter == m.close > st'.channel_high
             leave == m.close < st'.channel_low
  <2>1. Decide(enter, leave)
    <3>1. st'.channel_ready
      BY <1>11, <1>10
    <3> QED
      BY <3>1, Zenon DEF Breakout
  <2>2. /\ st.highs \in Seq(Int) /\ Len(st.highs) = p
        /\ \A i \in 1 .. p : st.highs[i] = Highs[n - p + i]
        /\ st.lows \in Seq(Int) /\ Len(st.lows) = p
        /\ \A i \in 1 .. p : st.lows[i] = Lows[n - p + i]
    <3>1. Shorter(n, p) = p
      BY <1>1, <1>10 DEF Shorter
    <3>2. PICK c \in Seq(Int), d \in Seq(Int) : c = Highs /\ d = Lows
      BY <1>3
    <3>3. /\ Recent(c, p) \in Seq(Int) /\ Len(Recent(c, p)) = Shorter(Len(c), p)
          /\ \A i \in 1 .. Shorter(Len(c), p) : Recent(c, p)[i] = c[Len(c) - Shorter(Len(c), p) + i]
          /\ Recent(d, p) \in Seq(Int) /\ Len(Recent(d, p)) = Shorter(Len(d), p)
          /\ \A i \in 1 .. Shorter(Len(d), p) : Recent(d, p)[i] = d[Len(d) - Shorter(Len(d), p) + i]
      BY RecentAre
    <3>4. Len(c) = n /\ Len(d) = n /\ st.highs = Recent(c, p) /\ st.lows = Recent(d, p)
      BY <1>3, <1>4, <3>2
    <3>5. /\ Recent(c, p) \in Seq(Int) /\ Len(Recent(c, p)) = p
          /\ \A i \in 1 .. p : Recent(c, p)[i] = c[n - p + i]
      <4>1. Len(c) = n /\ Shorter(Len(c), p) = p
        BY <3>1, <3>4
      <4> QED
        BY <3>3, <4>1
    <3>6. /\ Recent(d, p) \in Seq(Int) /\ Len(Recent(d, p)) = p
          /\ \A i \in 1 .. p : Recent(d, p)[i] = d[n - p + i]
      <4>1. Len(d) = n /\ Shorter(Len(d), p) = p
        BY <3>1, <3>4
      <4> QED
        BY <3>3, <4>1
    <3> QED
      BY <3>2, <3>4, <3>5, <3>6, Zenon
  <2>3. /\ st'.channel_high = Max(ToSet(st.highs)) /\ st'.channel_low = Min(ToSet(st.lows))
    BY <1>5, <1>6, <1>10
  <2>4. /\ enter <=> \A i \in 1 .. p : m.close > st.highs[i]
        /\ leave <=> \A i \in 1 .. p : m.close < st.lows[i]
    BY <1>1, <2>2, <2>3, BeyondAll
  <2>5. /\ \A i \in 1 .. p : n - p + i \in n - p + 1 .. n
        /\ \A j \in n - p + 1 .. n : j - (n - p) \in 1 .. p /\ n - p + (j - (n - p)) = j
        /\ \A j \in n - p + 1 .. n : j \in 1 .. n
    BY <1>1, <1>10
  <2>6. \A j \in n - p + 1 .. n : Highs[j] = High(j) /\ Lows[j] = Low(j)
    BY <2>5, ColumnsGrow
  <2>7. /\ (\A i \in 1 .. p : m.close > st.highs[i]) <=> \A j \in n - p + 1 .. n : m.close > High(j)
        /\ (\A i \in 1 .. p : m.close < st.lows[i]) <=> \A j \in n - p + 1 .. n : m.close < Low(j)
    <3>1. \A i \in 1 .. p : st.highs[i] = High(n - p + i) /\ st.lows[i] = Low(n - p + i)
      BY <2>2, <2>5, <2>6
    <3>2. (\A i \in 1 .. p : m.close > st.highs[i]) <=> \A i \in 1 .. p : m.close > High(n - p + i)
      BY <3>1
    <3>3. (\A i \in 1 .. p : m.close < st.lows[i]) <=> \A i \in 1 .. p : m.close < Low(n - p + i)
      BY <3>1
    <3>4. (\A i \in 1 .. p : m.close > High(n - p + i)) <=> \A j \in n - p + 1 .. n : m.close > High(j)
      BY <2>5, Zenon
    <3>5. (\A i \in 1 .. p : m.close < Low(n - p + i)) <=> \A j \in n - p + 1 .. n : m.close < Low(j)
      BY <2>5, Zenon
    <3> QED
      BY <3>2, <3>3, <3>4, <3>5
  <2>8. (enter <=> Enters(n + 1, h)') /\ (leave <=> Leaves(n + 1)')
    <3>1. n + 1 > p
      BY <1>1, <1>10
    <3> HIDE DEF enter, leave
    <3> QED
      BY <1>8, <2>4, <2>7, <3>1
  <2>9. enter \in BOOLEAN /\ leave \in BOOLEAN
    OBVIOUS
  <2> HIDE DEF enter, leave
  <2> QED
    BY <1>7, <2>1, <2>8, <2>9, DecisionAnswers
<1> QED
  BY <1>1, <1>9, <1>10

\* The opening range is that of the bars of it so far.
OrbKept ==
  made.name = "orb" =>
    LET n == Len(history)
    IN  /\ st.bar_in_cycle = IF n = 0 THEN 0 ELSE Place(n)
        /\ n = 0 => st.range_high = -Infinity /\ st.range_low = Infinity
        /\ n > 0 => /\ \A j \in Range1(n) : j <= n => High(j) <= st.range_high /\ Low(j) >= st.range_low
                    /\ \E j \in Range1(n) : j <= n /\ High(j) = st.range_high
                    /\ \E j \in Range1(n) : j <= n /\ Low(j) = st.range_low

LEMMA NextOrbRules ==
  ASSUME NEW i \in Nat, NEW h
  PROVE  ( made.name = "orb" =>
             /\ Enters(i, h) <=> Place(i) > made.p1 /\ \A j \in Range1(i) : Close(i) > High(j)
             /\ Leaves(i) <=> \/ Place(i) = 1
                              \/ Place(i) > made.p1 /\ \A j \in Range1(i) : Close(i) < Low(j) )'
<1>1. made.name = "orb" =>
        /\ Enters(i, h) <=> Place(i) > made.p1 /\ \A j \in Range1(i) : Close(i) > High(j)
        /\ Leaves(i) <=> \/ Place(i) = 1
                         \/ Place(i) > made.p1 /\ \A j \in Range1(i) : Close(i) < Low(j)
  BY DEF Enters, Leaves
<1> QED
  BY <1>1, PTL

\* The bars of a range, counted from the place of the present bar.
LEMMA RangeBars ==
  ASSUME NEW n \in Nat, NEW bar \in 1 .. n + 1, NEW p \in Nat
  PROVE  \A j \in n + 1 - bar + 1 .. n + 1 - bar + p :
           /\ j <= n => j \in 1 .. n /\ j <= n + 1
           /\ j <= n + 1 => j <= n \/ j = n + 1
           /\ p < bar => j <= n /\ j \in 1 .. n
OBVIOUS

\* orb: the counter is the bar's place in its cycle; a reset exits.
LEMMA OrbFollows ==
  ASSUME NEW n, NEW m, Grown(n, m), made.name = "orb", n = 0 => ~in_position,
         OrbKept, Orb(m), NEW h
  PROVE  OrbKept' /\ Answers(n + 1, h)
<1>1. /\ made' = made /\ made.p1 \in Nat \ {0} /\ made.p2 \in Nat \ {0} /\ n \in Nat
      /\ n = Len(history) /\ Len(history)' = n + 1
  BY MadeWell, HistoryGrows DEF Grown
<1>2. /\ m.high \in Int /\ m.low \in Int /\ m.close \in Int
      /\ -Infinity < m.high /\ m.low < Infinity /\ Infinity \in Nat
  <2>1. m \in [high : Price, low : Price, close : Price, volume : Nat] /\ Infinity \in Nat
    BY StrategiesAssumption DEF Grown
  <2>2. m.high \in Price /\ m.low \in Price /\ m.close \in Price
    BY <2>1
  <2> QED
    BY <2>1, <2>2 DEF Price
<1>3. PICK p \in Nat \ {0} : p = made.p1
  BY <1>1
<1> DEFINE k == n + 1
<1>4. k \in Nat \ {0} /\ n + 1 = k /\ k \in 1 .. k /\ k - 1 = n
  BY <1>1
<1> HIDE DEF k
<1>5. /\ \A j \in 1 .. n : High(j)' = High(j) /\ Low(j)' = Low(j) /\ High(j) \in Int /\ Low(j) \in Int
      /\ High(k)' = m.high /\ Low(k)' = m.low /\ Close(k)' = m.close
  BY <1>4, HistoryGrows
<1>6. /\ Place(1) = 1 /\ Place(k) \in 1 .. k
      /\ n > 0 => /\ Place(n) \in 1 .. n
                  /\ Place(k) = IF Place(n) >= made.p2 THEN 1 ELSE Place(n) + 1
  <2>1. n > 0 => n \in Nat \ {0}
    BY <1>1
  <2> QED
    BY <1>1, <1>4, <2>1, PlacesCycle DEF PlaceIsInCycle
<1>7. Place(k)' = Place(k) /\ Range1(k)' = Range1(k)
  BY <1>1 DEF Place, Range1
<1> DEFINE reset == st.bar_in_cycle >= made.p2
           bar == IF reset THEN 1 ELSE st.bar_in_cycle + 1
           high == IF reset THEN -Infinity ELSE st.range_high
           low == IF reset THEN Infinity ELSE st.range_low
           Kept(hi, lo, i) == /\ \A j \in Range1(i) : j <= i => High(j) <= hi /\ Low(j) >= lo
                              /\ \E j \in Range1(i) : j <= i /\ High(j) = hi
                              /\ \E j \in Range1(i) : j <= i /\ Low(j) = lo
<1>8. /\ n = 0 => st.bar_in_cycle = 0 /\ st.range_high = -Infinity /\ st.range_low = Infinity
      /\ n > 0 => st.bar_in_cycle = Place(n) /\ Kept(st.range_high, st.range_low, n)
  BY <1>1 DEF OrbKept
<1>9. bar = Place(k) /\ bar \in 1 .. k /\ (n = 0 => ~reset /\ bar = 1)
  <2>1. CASE n = 0
    <3>1. k = 1 /\ st.bar_in_cycle = 0 /\ ~(0 >= made.p2)
      BY <1>1, <1>4, <1>8, <2>1
    <3>2. ~reset
      BY <3>1
    <3>3. bar = 1
      BY <3>1, <3>2
    <3> HIDE DEF bar, reset
    <3> QED
      BY <1>6, <3>1, <3>2, <3>3
  <2>2. CASE n # 0
    <3>1. n > 0 /\ st.bar_in_cycle = Place(n)
      BY <1>1, <1>8, <2>2
    <3>2. bar = Place(k)
      BY <1>6, <3>1
    <3> HIDE DEF bar, reset
    <3> QED
      BY <1>6, <2>2, <3>2
  <2> HIDE DEF bar, reset
  <2> QED
    BY <2>1, <2>2
<1>10. (bar = 1 => high = -Infinity /\ low = Infinity) /\ (bar # 1 => ~reset /\ n > 0)
  <2>1. CASE reset
    BY <1>1, <1>9, <2>1
  <2>2. CASE ~reset
    <3>1. n = 0 => bar = 1 /\ high = -Infinity /\ low = Infinity
      BY <1>8, <1>9, <2>2
    <3>2. n > 0 => bar = Place(n) + 1 /\ Place(n) \in 1 .. n
      BY <1>6, <1>8, <2>2
    <3> HIDE DEF bar, high, low, reset
    <3>3. n > 0 => bar # 1
      BY <1>1, <3>2
    <3> QED
      BY <1>1, <2>2, <3>1, <3>3
  <2> QED
    BY <2>1, <2>2
<1>11. Range1(k) = k - bar + 1 .. k - bar + p
  BY <1>3, <1>9 DEF Range1
<1>12. bar # 1 => /\ Range1(n) = Range1(k) /\ Kept(high, low, n) /\ bar = Place(n) + 1
                  /\ high = st.range_high /\ low = st.range_low
  <2> SUFFICES ASSUME bar # 1 PROVE Range1(n) = Range1(k) /\ Kept(high, low, n) /\ bar = Place(n) + 1
                                    /\ high = st.range_high /\ low = st.range_low
    OBVIOUS
  <2>1. ~reset /\ n > 0 /\ bar = Place(n) + 1
    BY <1>8, <1>10
  <2>2. Range1(n) = n - Place(n) + 1 .. n - Place(n) + p
    BY <1>3 DEF Range1
  <2>3. n - Place(n) = k - bar
    <3>1. Place(n) \in Int
      BY <1>1, <1>6, <2>1
    <3> HIDE DEF bar, reset
    <3> QED
      BY <1>1, <1>4, <2>1, <3>1
  <2>4. Range1(n) = Range1(k)
    BY <1>11, <2>2, <2>3
  <2>5. high = st.range_high /\ low = st.range_low
    BY <2>1
  <2> HIDE DEF high, low, bar, reset
  <2> QED
    BY <1>8, <2>1, <2>4, <2>5
<1> HIDE DEF bar, high, low
<1>13. /\ bar <= made.p1 => /\ st'.bar_in_cycle = bar
                            /\ st'.range_high = IF m.high > high THEN m.high ELSE high
                            /\ st'.range_low = IF m.low < low THEN m.low ELSE low
       /\ ~(bar <= made.p1) => st'.bar_in_cycle = bar /\ st'.range_high = high /\ st'.range_low = low
  <2>1. bar <= made.p1 => st' = [bar_in_cycle |-> bar,
                                 range_high |-> IF m.high > high THEN m.high ELSE high,
                                 range_low |-> IF m.low < low THEN m.low ELSE low]
    BY Zenon DEF Orb, OrbBar, bar, high, low
  <2>2. ~(bar <= made.p1) => st' = [bar_in_cycle |-> bar, range_high |-> high, range_low |-> low]
    BY Zenon DEF Orb, OrbBar, bar, high, low
  <2> QED
    BY <2>1, <2>2
<1>14. /\ bar <= made.p1 => IF reset THEN Decide(FALSE, TRUE) ELSE Silent
       /\ ~(bar <= made.p1) => Decide(m.close > high, m.close < low)
  BY Zenon DEF Orb, OrbBar, bar, high, low
<1>15. n > 0 => high \in Int /\ low \in Int
  <2>1. ASSUME bar # 1, n > 0 PROVE high \in Int /\ low \in Int
    <3>1. \A j \in Range1(n) : j <= n => j \in 1 .. n
      BY <1>1, <1>4, <1>9, <1>11, <1>12, <2>1
    <3> HIDE DEF reset
    <3> QED
      BY <1>5, <1>12, <2>1, <3>1
  <2>2. CASE bar = 1
    <3> HIDE DEF reset
    <3> QED
      BY <1>2, <1>10, <2>2
  <2> QED
    BY <2>1, <2>2
<1>16. OrbKept'
  <2> SUFFICES Kept(st.range_high, st.range_low, k)'
    <3>1. st'.bar_in_cycle = Place(k)'
      BY <1>1, <1>7, <1>9, <1>13
    <3>2. k # 0 /\ k > 0
      BY <1>4
    <3> QED
      BY <1>1, <1>4, <3>1, <3>2 DEF OrbKept
  <2> SUFFICES /\ \A j \in Range1(k) : j <= k => High(j)' <= st'.range_high /\ Low(j)' >= st'.range_low
               /\ \E j \in Range1(k) : j <= k /\ High(j)' = st'.range_high
               /\ \E j \in Range1(k) : j <= k /\ Low(j)' = st'.range_low
    BY <1>7
  <2>1. CASE bar = 1
    <3>1. st'.range_high = m.high /\ st'.range_low = m.low
      BY <1>1, <1>2, <1>10, <1>13, <2>1
    <3>2. k \in Range1(k) /\ \A j \in Range1(k) : j <= k => j = k
      BY <1>3, <1>4, <1>11, <2>1
    <3>3. k <= k
      BY <1>4
    <3> QED
      BY <1>2, <1>5, <3>1, <3>2, <3>3
  <2>2. CASE bar # 1
    <3>1. /\ \A j \in Range1(k) : j <= n => j \in 1 .. n
          /\ \A j \in Range1(k) : j <= k => j <= n \/ j = k
          /\ k \in Range1(k) <=> bar <= made.p1
          /\ \A j \in Range1(k) : j <= n => j <= k
          /\ k <= k
      <4>1. Range1(k) = n + 1 - bar + 1 .. n + 1 - bar + p /\ bar \in 1 .. n + 1
        BY <1>4, <1>9, <1>11
      <4>2. k \in Range1(k) <=> bar <= p
        BY <1>1, <1>4, <4>1
      <4> QED
        BY <1>1, <1>3, <1>4, <4>1, <4>2, RangeBars
    <3>2. /\ \A j \in Range1(k) : j <= n => High(j)' <= high /\ Low(j)' >= low
          /\ \E j \in Range1(k) : j <= n /\ High(j)' = high
          /\ \E j \in Range1(k) : j <= n /\ Low(j)' = low
      BY <1>5, <1>12, <2>2, <3>1
    <3>3. high \in Int /\ low \in Int
      BY <1>10, <1>15, <2>2
    <3>4. CASE bar <= made.p1
      <4>1. /\ st'.range_high = IF m.high > high THEN m.high ELSE high
            /\ st'.range_low = IF m.low < low THEN m.low ELSE low
        BY <1>13, <3>4
      <4>2. \A j \in Range1(k) : j <= k => High(j)' \in Int /\ Low(j)' \in Int
        BY <1>2, <1>5, <3>1
      <4>3. \A j \in Range1(k) : j <= k => High(j)' <= st'.range_high /\ Low(j)' >= st'.range_low
        <5> SUFFICES ASSUME NEW j \in Range1(k), j <= k
                     PROVE  High(j)' <= st'.range_high /\ Low(j)' >= st'.range_low
          OBVIOUS
        <5>1. CASE j = k
          BY <1>2, <1>5, <3>3, <4>1, <5>1
        <5>2. CASE j <= n
          BY <1>2, <3>2, <3>3, <4>1, <4>2, <5>2
        <5> QED
          BY <3>1, <5>1, <5>2
      <4>4. \E j \in Range1(k) : j <= k /\ High(j)' = st'.range_high
        <5>1. CASE m.high > high
          BY <1>5, <3>1, <3>4, <4>1, <5>1
        <5>2. CASE ~(m.high > high)
          BY <3>1, <3>2, <4>1, <5>2
        <5> QED
          BY <5>1, <5>2
      <4>5. \E j \in Range1(k) : j <= k /\ Low(j)' = st'.range_low
        <5>1. CASE m.low < low
          BY <1>5, <3>1, <3>4, <4>1, <5>1
        <5>2. CASE ~(m.low < low)
          BY <3>1, <3>2, <4>1, <5>2
        <5> QED
          BY <5>1, <5>2
      <4> QED
        BY <4>3, <4>4, <4>5
    <3>5. CASE ~(bar <= made.p1)
      <4>1. st'.range_high = high /\ st'.range_low = low
        BY <1>13, <3>5
      <4>2. \A j \in Range1(k) : j <= k => j <= n
        BY <3>1, <3>5
      <4> QED
        BY <3>1, <3>2, <4>1, <4>2
    <3> QED
      BY <3>4, <3>5
  <2> QED
    BY <2>1, <2>2
<1>17. /\ Enters(k, h)' <=> bar > made.p1 /\ \A j \in Range1(k) : m.close > High(j)'
       /\ Leaves(k)' <=> \/ bar = 1
                         \/ bar > made.p1 /\ \A j \in Range1(k) : m.close < Low(j)'
  <2>1. ( made.name = "orb" =>
             /\ Enters(k, h) <=> Place(k) > made.p1 /\ \A j \in Range1(k) : Close(k) > High(j)
             /\ Leaves(k) <=> \/ Place(k) = 1
                              \/ Place(k) > made.p1 /\ \A j \in Range1(k) : Close(k) < Low(j) )'
    BY <1>4, NextOrbRules
  <2>2. made.name' = "orb" /\ made.p1' = made.p1
    BY <1>1
  <2> QED
    BY <1>5, <1>7, <1>9, <2>1, <2>2
<1>18. CASE bar = 1
  <2>1. ~Enters(k, h)' /\ Leaves(k)'
    BY <1>1, <1>17, <1>18
  <2>2. Decide(FALSE, TRUE)
    <3>1. CASE reset
      <4>1. bar <= made.p1
        BY <1>1, <1>18
      <4> QED
        BY <1>14, <3>1, <4>1, Zenon
    <3>2. CASE ~reset
      <4>1. Silent /\ n = 0
        <5>1. bar <= made.p1
          BY <1>1, <1>18
        <5>2. n = 0
          BY <1>1, <1>6, <1>8, <1>9, <1>18, <3>2 DEF bar
        <5> HIDE DEF reset
        <5> QED
          BY <1>14, <3>2, <5>1, <5>2, Zenon
      <4>2. ~in_position
        BY <4>1
      <4> QED
        BY <4>1, <4>2 DEF Decide, Silent
    <3> QED
      BY <3>1, <3>2
  <2>3. Answers(k, h)
    BY <2>1, <2>2, DecisionAnswers
  <2> QED
    BY <1>4, <1>16, <2>3
<1>19. CASE bar # 1 /\ bar <= made.p1
  <2>1. Silent
    BY <1>10, <1>14, <1>19
  <2>2. ~Enters(k, h)' /\ ~Leaves(k)'
    BY <1>1, <1>9, <1>17, <1>19
  <2>3. Answers(k, h)
    BY <2>1, <2>2, SilenceAnswers
  <2> QED
    BY <1>4, <1>16, <2>3
<1>20. CASE ~(bar <= made.p1)
  <2>1. bar # 1 /\ bar > made.p1
    BY <1>1, <1>9, <1>20
  <2>2. \A j \in Range1(k) : j <= n /\ j \in 1 .. n
    <3>1. Range1(k) = n + 1 - bar + 1 .. n + 1 - bar + p /\ bar \in 1 .. n + 1
      BY <1>4, <1>9, <1>11
    <3>2. p < bar
      BY <1>3, <2>1
    <3> QED
      BY <1>1, <3>1, <3>2, RangeBars
  <2>3. /\ \A j \in Range1(k) : High(j) <= high /\ Low(j) >= low
        /\ \E j \in Range1(k) : High(j) = high
        /\ \E j \in Range1(k) : Low(j) = low
    BY <1>12, <2>1, <2>2
  <2>4. high \in Int /\ low \in Int
    BY <1>10, <1>15, <2>1
  <2> DEFINE enter == m.close > high
             leave == m.close < low
  <2>5. enter <=> \A j \in Range1(k) : m.close > High(j)'
    BY <1>2, <1>5, <2>2, <2>3, <2>4
  <2>6. leave <=> \A j \in Range1(k) : m.close < Low(j)'
    BY <1>2, <1>5, <2>2, <2>3, <2>4
  <2>7. enter \in BOOLEAN /\ leave \in BOOLEAN
    OBVIOUS
  <2>8. Decide(enter, leave)
    BY <1>14, <1>20
  <2> HIDE DEF enter, leave
  <2>9. (enter <=> Enters(k, h)') /\ (leave <=> Leaves(k)')
    BY <1>17, <2>1, <2>5, <2>6, Zenon
  <2>10. Answers(k, h)
    BY <2>7, <2>8, <2>9, DecisionAnswers
  <2> QED
    BY <1>4, <1>16, <2>10
<1> QED
  BY <1>18, <1>19, <1>20

\* The sums of the two windows, and the side of the latest bar that was traded.
VwapKept ==
  made.name = "vwap" =>
    /\ st.tp_vol = Recent(Paid, made.p1) /\ st.sum_tp_vol = SumOf(st.tp_vol)
    /\ st.volumes = Recent(Volumes, made.p1) /\ st.sum_vol = SumOf(st.volumes)
    /\ st.prev_above \in BOOLEAN
    /\ st.prev_above <=> WasAboveVwap(Len(history) + 1)

\* The last bar that was traded in is this one, or was the last one before it.
LEMMA NextWasAbove ==
  ASSUME NEW k \in Nat \ {0}
  PROVE  ( WasAboveVwap(k + 1) <=> \/ Traded(k) /\ AboveVwap(k)
                                   \/ ~Traded(k) /\ WasAboveVwap(k) )'
<1>1. WasAboveVwap(k + 1) <=> \/ Traded(k) /\ AboveVwap(k)
                              \/ ~Traded(k) /\ WasAboveVwap(k)
  <2> DEFINE LatestTraded(i, l) == Traded(i) /\ AboveVwap(i) /\ \A j \in i + 1 .. l : ~Traded(j)
  <2>1. /\ WasAboveVwap(k + 1) <=> \E i \in 1 .. k : LatestTraded(i, k)
        /\ WasAboveVwap(k) <=> \E i \in 1 .. k - 1 : LatestTraded(i, k - 1)
    <3>1. k + 1 - 1 = k
      OBVIOUS
    <3> QED
      BY <3>1 DEF WasAboveVwap
  <2>2. /\ k \in 1 .. k /\ (\A j \in k + 1 .. k : FALSE)
        /\ \A i \in 1 .. k - 1 : i \in 1 .. k
        /\ \A i \in 1 .. k : i = k \/ i \in 1 .. k - 1
        /\ \A i \in 1 .. k - 1 : /\ k \in i + 1 .. k
                                 /\ \A j \in i + 1 .. k - 1 : j \in i + 1 .. k
                                 /\ \A j \in i + 1 .. k : j = k \/ j \in i + 1 .. k - 1
    OBVIOUS
  <2>3. LatestTraded(k, k) <=> Traded(k) /\ AboveVwap(k)
    BY <2>2
  <2>4. \A i \in 1 .. k - 1 : LatestTraded(i, k) <=> ~Traded(k) /\ LatestTraded(i, k - 1)
    <3> SUFFICES ASSUME NEW i \in 1 .. k - 1
                 PROVE  (\A j \in i + 1 .. k : ~Traded(j))
                          <=> ~Traded(k) /\ \A j \in i + 1 .. k - 1 : ~Traded(j)
      BY Zenon
    <3> QED
      BY <2>2, Zenon
  <2> HIDE DEF LatestTraded
  <2>5. (\E i \in 1 .. k : LatestTraded(i, k)) <=> LatestTraded(k, k) \/ \E i \in 1 .. k - 1 : LatestTraded(i, k)
    BY <2>2, Zenon
  <2> QED
    BY <2>1, <2>3, <2>4, <2>5, Zenon
<1> QED
  BY <1>1, PTL

LEMMA NextVwapRules ==
  ASSUME NEW i \in Nat, NEW h
  PROVE  ( made.name = "vwap" =>
             /\ Enters(i, h) <=> Traded(i) /\ AboveVwap(i) /\ ~WasAboveVwap(i)
             /\ Leaves(i) <=> Traded(i) /\ ~AboveVwap(i) /\ WasAboveVwap(i) )'
<1>1. made.name = "vwap" =>
        /\ Enters(i, h) <=> Traded(i) /\ AboveVwap(i) /\ ~WasAboveVwap(i)
        /\ Leaves(i) <=> Traded(i) /\ ~AboveVwap(i) /\ WasAboveVwap(i)
  BY DEF Enters, Leaves
<1> QED
  BY <1>1, PTL

\* A window of volumes has been traded in when their sum is not 0.
LEMMA WindowTraded ==
  ASSUME NEW col \in Seq(Int), NEW p \in Nat \ {0}, NEW k \in Nat, k = Len(col), p <= k,
         \A i \in 1 .. k : col[i] \in Nat
  PROVE  SumOf(Recent(col, p)) # 0 <=> \E i \in k - p + 1 .. k : col[i] > 0
<1> DEFINE w == Recent(col, p)
<1>1. w \in Seq(Int) /\ Len(w) = p /\ \A i \in 1 .. p : w[i] = col[k - p + i]
  <2>1. Shorter(Len(col), p) = p
    BY RecentAre
  <2> QED
    BY <2>1, RecentAre
<1> HIDE DEF w
<1>2. /\ \A i \in 1 .. p : k - p + i \in 1 .. k /\ k - p + i \in k - p + 1 .. k
      /\ \A j \in k - p + 1 .. k : j - (k - p) \in 1 .. p /\ k - p + (j - (k - p)) = j
  OBVIOUS
<1>3. \A i \in 1 .. p : w[i] \in Nat
  BY <1>1, <1>2
<1>4. SumTo(w, p) # 0 <=> \E i \in 1 .. p : w[i] > 0
  BY <1>3, SumOfNats
<1>5. (\E i \in 1 .. p : w[i] > 0) <=> \E i \in k - p + 1 .. k : col[i] > 0
  <2>1. (\E i \in 1 .. p : w[i] > 0) <=> \E i \in 1 .. p : col[k - p + i] > 0
    BY <1>1
  <2>2. (\E i \in 1 .. p : col[k - p + i] > 0) <=> \E i \in k - p + 1 .. k : col[i] > 0
    BY <1>2, Zenon
  <2> QED
    BY <2>1, <2>2
<1>6. SumOf(w) = SumTo(w, p)
  BY <1>1 DEF SumOf
<1> QED
  BY <1>4, <1>5, <1>6 DEF w

\* vwap: the running sums are the window's, and the flag is the last traded
\* bar's, on whichever bars the strategy returned early.
LEMMA VwapFollows ==
  ASSUME NEW n, NEW m, Grown(n, m), made.name = "vwap",
         VwapKept, Vwap(m), NEW h
  PROVE  VwapKept' /\ Answers(n + 1, h)
<1>1. /\ made' = made /\ made.p1 \in Nat \ {0} /\ n \in Nat
      /\ n = Len(history) /\ Len(history)' = n + 1
      /\ m.high \in Int /\ m.low \in Int /\ m.close \in Int /\ m.volume \in Nat
  BY MadeWell, HistoryGrows, BarIsWhole DEF Grown
<1>2. PICK p \in Nat \ {0} : p = made.p1
  BY <1>1
<1> DEFINE k == n + 1
<1>3. k \in Nat \ {0} /\ n + 1 = k /\ k \in 1 .. k
  BY <1>1
<1> HIDE DEF k
<1> DEFINE paid == (m.high + m.low + m.close) * m.volume
<1>4. paid \in Int
  BY <1>1
<1>5. /\ Volumes \in Seq(Int) /\ Len(Volumes) = n /\ Volumes' = Append(Volumes, m.volume)
      /\ Paid \in Seq(Int) /\ Len(Paid) = n /\ Paid' = Append(Paid, paid)
      /\ \A i \in 1 .. k : Volumes'[i] = Volume(i)'
  BY <1>3, ColumnsGrow
<1>6. \A i \in 1 .. k : Volume(i)' \in Nat
  BY <1>3, HistoryGrows
<1>7. Close(k)' = m.close
  BY <1>3, HistoryGrows
<1> DEFINE full == Len(st.tp_vol) >= made.p1
<1>8. /\ st'.tp_vol = Slide(st.tp_vol, paid, p)
      /\ st'.volumes = Slide(st.volumes, m.volume, p)
      /\ st'.sum_tp_vol = st.sum_tp_vol + paid - (IF full THEN Head(st.tp_vol) ELSE 0)
      /\ st'.sum_vol = st.sum_vol + m.volume - (IF full THEN Head(st.volumes) ELSE 0)
  BY <1>2 DEF Vwap
<1> DEFINE trades == Len(st'.volumes) >= made.p1 /\ st'.sum_vol # 0
           curr_above == 3 * m.close * st'.sum_vol > st'.sum_tp_vol
<1>9. /\ st'.prev_above = IF trades THEN curr_above ELSE st.prev_above
      /\ IF trades THEN Decide(~st.prev_above /\ curr_above, st.prev_above /\ ~curr_above)
                   ELSE Silent
  BY DEF Vwap
<1> HIDE DEF paid
<1>10. /\ st.tp_vol = Recent(Paid, p) /\ st.sum_tp_vol = SumOf(st.tp_vol)
       /\ st.volumes = Recent(Volumes, p) /\ st.sum_vol = SumOf(st.volumes)
       /\ st.prev_above \in BOOLEAN /\ (st.prev_above <=> WasAboveVwap(k))
  BY <1>1, <1>2, <1>3 DEF VwapKept
<1>11. /\ st.tp_vol \in Seq(Int) /\ st.volumes \in Seq(Int)
       /\ Len(st.tp_vol) = Shorter(n, p) /\ Len(st.volumes) = Shorter(n, p)
  BY <1>5, <1>10, RecentAre
<1>12. st'.tp_vol = Recent(Paid', p) /\ st'.volumes = Recent(Volumes', p)
  BY <1>1, <1>4, <1>5, <1>8, <1>10, WindowSlides
<1>13. /\ SumOf(Slide(st.tp_vol, paid, p))
            = SumOf(st.tp_vol) + paid - (IF Len(st.tp_vol) >= p THEN Head(st.tp_vol) ELSE 0)
       /\ SumOf(Slide(st.volumes, m.volume, p))
            = SumOf(st.volumes) + m.volume - (IF Len(st.volumes) >= p THEN Head(st.volumes) ELSE 0)
  <2>1. PICK v \in Seq(Int), w \in Seq(Int) : v = st.tp_vol /\ w = st.volumes
    BY <1>11
  <2>2. m.volume \in Int
    BY <1>1
  <2>3. /\ SumOf(Slide(v, paid, p)) = SumOf(v) + paid - (IF Len(v) >= p THEN Head(v) ELSE 0)
        /\ SumOf(Slide(w, m.volume, p))
             = SumOf(w) + m.volume - (IF Len(w) >= p THEN Head(w) ELSE 0)
    BY <1>4, <2>2, SumSlides
  <2> QED
    BY <2>1, <2>3
<1>14. st'.sum_tp_vol = SumOf(st'.tp_vol) /\ st'.sum_vol = SumOf(st'.volumes)
  BY <1>2, <1>8, <1>10, <1>11, <1>13
<1> HIDE DEF full
<1>15. PICK vols \in Seq(Int), pays \in Seq(Int) : vols = Volumes' /\ pays = Paid'
  <2>1. PICK v \in Seq(Int), w \in Seq(Int) : v = Volumes /\ w = Paid
    BY <1>5
  <2>2. m.volume \in Int
    BY <1>1
  <2>3. Append(v, m.volume) \in Seq(Int) /\ Append(w, paid) \in Seq(Int)
    BY <1>4, <2>2, AppendIs
  <2> QED
    BY <1>5, <2>1, <2>3
<1>16. Len(vols) = k /\ Len(pays) = k
  BY <1>1, <1>3, <1>4, <1>5, <1>15, AppendIs
<1>17. Len(st'.volumes) >= made.p1 <=> k >= p
  <2>1. Len(Recent(vols, p)) = Shorter(k, p)
    BY <1>16, RecentAre
  <2>2. Shorter(k, p) >= p <=> k >= p
    BY <1>3 DEF Shorter
  <2> QED
    BY <1>2, <1>12, <1>15, <2>1, <2>2
<1>18. trades <=> Traded(k)'
  <2>1. Traded(k)' <=> k >= p /\ \E i \in k - p + 1 .. k : Volume(i)' > 0
    BY <1>1, <1>2 DEF Traded, Latest
  <2>2. k >= p => (SumOf(Recent(vols, p)) # 0 <=> \E i \in k - p + 1 .. k : vols[i] > 0)
    <3>1. \A i \in 1 .. k : vols[i] \in Nat
      BY <1>5, <1>6, <1>15
    <3> QED
      BY <1>3, <1>16, <3>1, WindowTraded
  <2>3. k >= p => ((\E i \in k - p + 1 .. k : vols[i] > 0) <=> \E i \in k - p + 1 .. k : Volume(i)' > 0)
    <3>1. k >= p => \A i \in k - p + 1 .. k : i \in 1 .. k
      BY <1>3
    <3> QED
      BY <1>5, <1>15, <3>1
  <2>4. st'.sum_vol = SumOf(Recent(vols, p))
    BY <1>12, <1>14, <1>15
  <2> QED
    BY <1>17, <2>1, <2>2, <2>3, <2>4
<1>19. ASSUME trades PROVE curr_above <=> AboveVwap(k)'
  <2>1. k >= p
    BY <1>17, <1>19
  <2>2. Shorter(k, p) = p
    BY <1>3, <2>1 DEF Shorter
  <2>3. Recent(vols, p) = LatestOf(vols, k, p) /\ Recent(pays, p) = LatestOf(pays, k, p)
    BY <1>16, <2>2 DEF Recent
  <2>4. st'.sum_vol = SumOf(LatestOf(Volumes', k, made.p1')) /\ st'.sum_tp_vol = SumOf(LatestOf(Paid', k, made.p1'))
    BY <1>1, <1>2, <1>12, <1>14, <1>15, <2>3
  <2> QED
    BY <1>7, <2>4 DEF AboveVwap
<1>20. curr_above \in BOOLEAN
  OBVIOUS
<1> HIDE DEF trades, curr_above
<1>21. WasAboveVwap(k)' <=> WasAboveVwap(k)
  BY <1>3, WasAboveStays
<1>22. VwapKept'
  <2>1. WasAboveVwap(k + 1)' <=> \/ Traded(k)' /\ AboveVwap(k)'
                                 \/ ~Traded(k)' /\ WasAboveVwap(k)'
    BY <1>3, NextWasAbove
  <2>2. st'.prev_above \in BOOLEAN
    BY <1>9, <1>10, <1>20
  <2>3. st'.prev_above <=> WasAboveVwap(k + 1)'
    <3>1. CASE trades
      BY <1>9, <1>18, <1>19, <2>1, <3>1, Zenon
    <3>2. CASE ~trades
      BY <1>9, <1>10, <1>18, <1>21, <2>1, <3>2, Zenon
    <3> QED
      BY <3>1, <3>2
  <2> QED
    BY <1>1, <1>2, <1>3, <1>12, <1>14, <2>2, <2>3 DEF VwapKept
<1>23. /\ Enters(k, h)' <=> Traded(k)' /\ AboveVwap(k)' /\ ~WasAboveVwap(k)'
       /\ Leaves(k)' <=> Traded(k)' /\ ~AboveVwap(k)' /\ WasAboveVwap(k)'
  <2>1. ( made.name = "vwap" =>
             /\ Enters(k, h) <=> Traded(k) /\ AboveVwap(k) /\ ~WasAboveVwap(k)
             /\ Leaves(k) <=> Traded(k) /\ ~AboveVwap(k) /\ WasAboveVwap(k) )'
    BY <1>3, NextVwapRules
  <2>2. made.name' = "vwap"
    BY <1>1
  <2> QED
    BY <2>1, <2>2, Zenon
<1>24. CASE trades
  <2> DEFINE enter == ~st.prev_above /\ curr_above
             leave == st.prev_above /\ ~curr_above
  <2>1. (enter <=> Enters(k, h)') /\ (leave <=> Leaves(k)')
    BY <1>10, <1>18, <1>19, <1>21, <1>23, <1>24, Zenon
  <2>2. enter \in BOOLEAN /\ leave \in BOOLEAN
    BY Zenon
  <2>3. Decide(enter, leave)
    BY <1>9, <1>24, Zenon
  <2> HIDE DEF enter, leave
  <2>4. Answers(k, h)
    BY <2>1, <2>2, <2>3, DecisionAnswers
  <2> QED
    BY <1>3, <1>22, <2>4
<1>25. CASE ~trades
  <2>1. Silent /\ ~Enters(k, h)' /\ ~Leaves(k)'
    BY <1>9, <1>18, <1>23, <1>25, Zenon
  <2>2. Answers(k, h)
    BY <2>1, SilenceAnswers
  <2> QED
    BY <1>3, <1>22, <2>2
<1> QED
  BY <1>24, <1>25

-----------------------------------------------------------------------------
(* Strategies on running averages *)

\* The average of one close is that close.
LEMMA EmaStarts ==
  ASSUME NEW p \in Nat \ {0}, Close(1) \in Int
  PROVE  EmaAt(1, p) = Fraction(Close(1))
<1> DEFINE weighed == [i \in 1 .. 1 - 1 |->
                         2 * Close(i + 1) * Power(p + 1, i - 1) * Power(p - 1, 1 - 1 - i)]
<1>1. weighed \in [1 .. 0 -> Int] /\ 0 \in Nat
  OBVIOUS
<1>2. EmaAt(1, p) = [num |-> Close(1) * Power(p - 1, 1 - 1) + SumOf(weighed), den |-> Power(p + 1, 1 - 1)]
  BY DEF EmaAt
<1> HIDE DEF weighed
<1>3. Len(weighed) = 0
  BY <1>1, SequenceOf
<1>4. SumOf(weighed) = 0
  BY <1>3, SumNext DEF SumOf
<1>5. Power(p - 1, 0) = 1 /\ Power(p + 1, 0) = 1
  <2>1. p - 1 \in Nat /\ p + 1 \in Nat
    OBVIOUS
  <2>2. \A x \in Nat : Power(x, 0) = 1
    BY PowerNext
  <2> QED
    BY <2>1, <2>2, Zenon
<1>6. Close(1) * 1 + 0 = Close(1) /\ 1 - 1 = 0
  OBVIOUS
<1> QED
  BY <1>2, <1>4, <1>5, <1>6 DEF Fraction

\* The numbers of a weighted sum, and one more of them.
LEMMA WeightsGrow ==
  ASSUME NEW a, NEW b, NEW c \in Nat, NEW r \in Nat,
         \A i \in 1 .. r + 1 : a[i] \in Int,
         \A i \in 1 .. r : b[i] \in Int /\ a[i] = b[i] * c
  PROVE  SumTo(a, r + 1) = SumTo(b, r) * c + a[r + 1]
<1>1. SumTo(a, r) = SumTo(b, r) * c
  BY SumScales
<1>2. SumTo(a, r + 1) = SumTo(a, r) + a[r + 1]
  BY SumNext
<1> QED
  BY <1>1, <1>2

EmaOf(r, q, s) ==
  [num |-> Close(1) * Power(q, r)
           + SumOf([i \in 1 .. r |-> 2 * Close(i + 1) * Power(s, i - 1) * Power(q, r - i)]),
   den |-> Power(s, r)]

LEMMA EmaIs ==
  ASSUME NEW n, NEW p, NEW r, NEW q, NEW s, n - 1 = r, p - 1 = q, p + 1 = s
  PROVE  EmaAt(n, p) = EmaOf(r, q, s)
<1> DEFINE y == [i \in 1 .. n - 1 |->
                   2 * Close(i + 1) * Power(p + 1, i - 1) * Power(p - 1, n - 1 - i)]
           z == [i \in 1 .. r |-> 2 * Close(i + 1) * Power(s, i - 1) * Power(q, r - i)]
<1>1. EmaAt(n, p) = [num |-> Close(1) * Power(p - 1, n - 1) + SumOf(y), den |-> Power(p + 1, n - 1)]
  BY DEF EmaAt
<1>2. y = z
  OBVIOUS
<1> HIDE DEF y, z
<1>3. EmaAt(n, p) = [num |-> Close(1) * Power(q, r) + SumOf(z), den |-> Power(s, r)]
  BY <1>1, <1>2, Zenon
<1> QED
  BY <1>3, Zenon DEF z, EmaOf

\* One step of the recurrence adds the newest close to the spelled-out average and
\* multiplies the weight of every earlier one.
LEMMA EmaSteps ==
  ASSUME NEW n \in Nat \ {0}, NEW p \in Nat \ {0}, \A i \in 1 .. n + 1 : Close(i) \in Int
  PROVE  EmaAt(n + 1, p) = Ema(EmaAt(n, p), Close(n + 1), p)
<1> DEFINE r == n - 1
           q == p - 1
           s == p + 1
           W(i, l) == 2 * Close(i + 1) * Power(s, i - 1) * Power(q, l - i)
           a == [i \in 1 .. r + 1 |-> W(i, r + 1)]
           b == [i \in 1 .. r |-> W(i, r)]
<1>1. /\ r \in Nat /\ n = r + 1 /\ n + 1 - 1 = r + 1 /\ n - 1 = r /\ n \in 1 .. n + 1
      /\ q \in Nat /\ s \in Nat /\ p - 1 = q /\ p + 1 = s /\ s > 0 /\ 1 \in 1 .. n + 1
  OBVIOUS
<1>2. /\ EmaAt(n + 1, p) = [num |-> Close(1) * Power(q, r + 1) + SumOf(a), den |-> Power(s, r + 1)]
      /\ EmaAt(n, p) = [num |-> Close(1) * Power(q, r) + SumOf(b), den |-> Power(s, r)]
  <2> HIDE DEF r, q, s
  <2>1. PICK l, k : l = n + 1 /\ k = r + 1
    OBVIOUS
  <2>2. l - 1 = k
    BY <1>1, <2>1
  <2>3. EmaAt(l, p) = EmaOf(k, q, s)
    BY <1>1, <2>2, EmaIs
  <2>4. EmaAt(n, p) = EmaOf(r, q, s)
    BY <1>1, EmaIs
  <2> QED
    BY <2>1, <2>3, <2>4, Zenon DEF EmaOf
<1> HIDE DEF r, q, s
<1>3. ASSUME NEW l \in Nat, l <= n, NEW i \in 1 .. l
      PROVE  W(i, l) \in Int /\ (l + 1 <= n => W(i, l + 1) = W(i, l) * q)
  <2>1. i - 1 \in Nat /\ l - i \in Nat /\ l + 1 - i = (l - i) + 1 /\ i + 1 \in 1 .. n + 1
    BY <1>1, <1>3
  <2>2. /\ Power(s, i - 1) \in Nat /\ Power(q, l - i) \in Nat
        /\ Power(q, (l - i) + 1) = Power(q, l - i) * q /\ Close(i + 1) \in Int
    BY <1>1, <2>1, PowerNext
  <2>3. \A x, y, z \in Int : /\ 2 * x * y * z \in Int
                             /\ 2 * x * y * (z * q) = (2 * x * y * z) * q
    BY <1>1
  <2> QED
    BY <2>1, <2>2, <2>3
<1>4. /\ \A i \in 1 .. r + 1 : a[i] \in Int
      /\ \A i \in 1 .. r : b[i] \in Int /\ a[i] = b[i] * q
  <2>1. \A i \in 1 .. r + 1 : a[i] = W(i, r + 1)
    OBVIOUS
  <2>2. \A i \in 1 .. r : b[i] = W(i, r) /\ i \in 1 .. r + 1
    BY <1>1
  <2>3. \A i \in 1 .. r + 1 : W(i, r + 1) \in Int
    <3>1. r + 1 \in Nat /\ r + 1 <= n
      BY <1>1
    <3> HIDE DEF W
    <3> QED
      BY <1>3, <3>1
  <2>4. \A i \in 1 .. r : W(i, r) \in Int /\ W(i, r + 1) = W(i, r) * q
    <3>1. r \in Nat /\ r <= n /\ r + 1 <= n
      BY <1>1
    <3> HIDE DEF W
    <3> QED
      BY <1>3, <3>1
  <2> HIDE DEF W, a, b
  <2> QED
    BY <2>1, <2>2, <2>3, <2>4
<1>5. a[r + 1] = 2 * Close(n + 1) * Power(s, r)
  <2>1. r + 1 \in 1 .. r + 1 /\ r + 1 - 1 = r /\ r + 1 - (r + 1) = 0 /\ r + 1 + 1 = n + 1
    BY <1>1
  <2>2. a[r + 1] = W(r + 1, r + 1)
    BY <2>1
  <2>3. W(r + 1, r + 1) = 2 * Close(n + 1) * Power(s, r) * Power(q, 0)
    <3>1. PICK j : j = r + 1
      OBVIOUS
    <3>2. W(j, j) = 2 * Close(j + 1) * Power(s, j - 1) * Power(q, j - j)
      OBVIOUS
    <3>3. j - 1 = r /\ j - j = 0 /\ j + 1 = n + 1
      BY <1>1, <2>1, <3>1
    <3> HIDE DEF W
    <3>4. W(j, j) = 2 * Close(n + 1) * Power(s, r) * Power(q, 0)
      BY <3>2, <3>3, Zenon
    <3> QED
      BY <3>1, <3>4, Zenon
  <2>4. Power(q, 0) = 1 /\ Power(s, r) \in Nat /\ Close(n + 1) \in Int
    <3>1. n + 1 \in 1 .. n + 1
      OBVIOUS
    <3>2. Power(q, 0) = 1 /\ Power(s, r) \in Nat
      BY <1>1, PowerNext
    <3> QED
      BY <3>1, <3>2
  <2> HIDE DEF a, W
  <2> QED
    BY <2>2, <2>3, <2>4
<1>6. Len(a) = r + 1 /\ Len(b) = r
  <2>1. a \in [1 .. r + 1 -> Int] /\ b \in [1 .. r -> Int]
    BY <1>4
  <2> HIDE DEF a, b
  <2>2. r + 1 \in Nat
    BY <1>1
  <2> QED
    BY <1>1, <2>1, <2>2, SequenceOf
<1> HIDE DEF a, b
<1>7. SumOf(a) = SumOf(b) * q + 2 * Close(n + 1) * Power(s, r) /\ SumOf(b) \in Int
  <2>1. SumTo(a, r + 1) = SumTo(b, r) * q + a[r + 1]
    BY <1>1, <1>4, WeightsGrow
  <2>2. SumTo(b, r) \in Int
    BY <1>1, <1>4, SumType
  <2> QED
    BY <1>5, <1>6, <2>1, <2>2 DEF SumOf
<1>8. /\ Power(q, r + 1) = Power(q, r) * q /\ Power(s, r + 1) = Power(s, r) * s
      /\ Power(q, r) \in Nat /\ Power(s, r) \in Nat
  BY <1>1, PowerNext
<1>10. Close(1) * Power(q, r + 1) + SumOf(a)
         = 2 * Close(n + 1) * Power(s, r) + q * (Close(1) * Power(q, r) + SumOf(b))
  <2>1. Close(1) \in Int /\ Close(n + 1) \in Int
    <3>1. n + 1 \in 1 .. n + 1
      OBVIOUS
    <3> QED
      BY <1>1, <3>1
  <2>2. PICK c \in Int, y \in Int, u \in Int, v \in Int, x \in Int :
          c = Close(1) /\ y = Close(n + 1) /\ u = Power(q, r) /\ v = Power(s, r) /\ x = SumOf(b)
    BY <1>7, <1>8, <2>1
  <2>3. c * (u * q) + (x * q + 2 * y * v) = 2 * y * v + q * (c * u + x)
    BY <1>1
  <2> QED
    BY <1>7, <1>8, <2>2, <2>3, Zenon
<1>11. Power(s, r) * s = s * Power(s, r)
  BY <1>1, <1>8
<1> QED
  BY <1>1, <1>2, <1>8, <1>10, <1>11 DEF Ema

LEMMA NextEma ==
  ASSUME NEW n \in Nat, NEW p \in Nat \ {0}
  PROVE  ( (\A i \in 1 .. n + 1 : Close(i) \in Int) =>
             IF n = 0 THEN EmaAt(n + 1, p) = Fraction(Close(n + 1))
             ELSE EmaAt(n + 1, p) = Ema(EmaAt(n, p), Close(n + 1), p) )'
<1>1. (\A i \in 1 .. n + 1 : Close(i) \in Int) =>
        IF n = 0 THEN EmaAt(n + 1, p) = Fraction(Close(n + 1))
        ELSE EmaAt(n + 1, p) = Ema(EmaAt(n, p), Close(n + 1), p)
  <2> SUFFICES ASSUME \A i \in 1 .. n + 1 : Close(i) \in Int
               PROVE  IF n = 0 THEN EmaAt(n + 1, p) = Fraction(Close(n + 1))
                      ELSE EmaAt(n + 1, p) = Ema(EmaAt(n, p), Close(n + 1), p)
    OBVIOUS
  <2>1. CASE n = 0
    <3>1. n + 1 = 1 /\ Close(1) \in Int
      BY <2>1
    <3> QED
      BY <2>1, <3>1, EmaStarts
  <2>2. CASE n # 0
    <3>1. n \in Nat \ {0}
      BY <2>2
    <3> QED
      BY <2>2, <3>1, EmaSteps
  <2> QED
    BY <2>1, <2>2
<1> QED
  BY <1>1, PTL

\* What an average that is stepped with each bar holds.
LEMMA EmaKept ==
  ASSUME NEW n, NEW m, Grown(n, m), NEW p \in Nat \ {0}
  PROVE  IF n = 0 THEN EmaAt(n + 1, p)' = Fraction(m.close)
         ELSE EmaAt(n + 1, p)' = Ema(EmaAt(n, p), m.close, p)
<1>1. /\ n \in Nat /\ Close(n + 1)' = m.close
      /\ \A i \in 1 .. n + 1 : Close(i)' \in Int
  BY HistoryGrows
<1>2. IF n = 0 THEN EmaAt(n + 1, p)' = Fraction(m.close)
      ELSE EmaAt(n + 1, p)' = Ema(EmaAt(n, p)', m.close, p)
  <2>1. ( (\A i \in 1 .. n + 1 : Close(i) \in Int) =>
             IF n = 0 THEN EmaAt(n + 1, p) = Fraction(Close(n + 1))
             ELSE EmaAt(n + 1, p) = Ema(EmaAt(n, p), Close(n + 1), p) )'
    BY <1>1, NextEma
  <2> QED
    BY <1>1, <2>1
<1>3. n # 0 => EmaAt(n, p)' = EmaAt(n, p)
  <2>1. n # 0 => n \in 1 .. n
    BY <1>1
  <2> QED
    BY <2>1, EmaStays
<1> QED
  BY <1>2, <1>3

\* scalping and pullback: the recurrences are the averages spelled out.
AveragesKept ==
  LET n == Len(history)
  IN  /\ made.name = "scalping" =>
           /\ st.bars_seen = n
           /\ n > 0 => st.fast_ema = EmaAt(n, made.p1) /\ st.slow_ema = EmaAt(n, made.p2)
      /\ made.name = "pullback" =>
           /\ st.bars_seen = n
           /\ n > 0 => st.trend_ema = EmaAt(n, made.p1) /\ st.pullback_ema = EmaAt(n, made.p2)

LEMMA NextScalpingRules ==
  ASSUME NEW i \in Nat, NEW h
  PROVE  ( made.name = "scalping" =>
             /\ Enters(i, h) <=> i > 1 /\ i >= made.p2 /\ ~FastAbove(i - 1) /\ FastAbove(i)
             /\ Leaves(i) <=> i > 1 /\ i >= made.p2 /\ FastAbove(i - 1) /\ ~FastAbove(i) )'
<1>1. made.name = "scalping" =>
        /\ Enters(i, h) <=> i > 1 /\ i >= made.p2 /\ ~FastAbove(i - 1) /\ FastAbove(i)
        /\ Leaves(i) <=> i > 1 /\ i >= made.p2 /\ FastAbove(i - 1) /\ ~FastAbove(i)
  BY DEF Enters, Leaves
<1> QED
  BY <1>1, PTL

\* scalping: the averages before and after the bar are the rule's on two bars.
LEMMA ScalpingFollows ==
  ASSUME NEW n, NEW m, Grown(n, m), made.name = "scalping",
         AveragesKept, Scalping(m), NEW h
  PROVE  AveragesKept' /\ Answers(n + 1, h)
<1>1. /\ made' = made /\ made.p1 \in Nat \ {0} /\ made.p2 \in Nat \ {0} /\ n \in Nat
      /\ n = Len(history) /\ Len(history)' = n + 1
  BY MadeWell, HistoryGrows DEF Grown
<1> DEFINE k == n + 1
<1>2. k \in Nat \ {0} /\ n + 1 = k /\ k - 1 = n /\ k > 0
  BY <1>1
<1> HIDE DEF k
<1>3. /\ st.bars_seen = n
      /\ n # 0 => st.fast_ema = EmaAt(n, made.p1) /\ st.slow_ema = EmaAt(n, made.p2)
  BY <1>1 DEF AveragesKept
<1>4. /\ IF n = 0 THEN EmaAt(k, made.p1)' = Fraction(m.close)
         ELSE EmaAt(k, made.p1)' = Ema(EmaAt(n, made.p1), m.close, made.p1)
      /\ IF n = 0 THEN EmaAt(k, made.p2)' = Fraction(m.close)
         ELSE EmaAt(k, made.p2)' = Ema(EmaAt(n, made.p2), m.close, made.p2)
  <2>1. PICK a \in Nat \ {0}, b \in Nat \ {0} : a = made.p1 /\ b = made.p2
    BY <1>1
  <2>2. /\ IF n = 0 THEN EmaAt(k, a)' = Fraction(m.close)
           ELSE EmaAt(k, a)' = Ema(EmaAt(n, a), m.close, a)
        /\ IF n = 0 THEN EmaAt(k, b)' = Fraction(m.close)
           ELSE EmaAt(k, b)' = Ema(EmaAt(n, b), m.close, b)
    BY <1>2, EmaKept
  <2>3. made.p1' = a /\ made.p2' = b
    BY <1>1, <2>1
  <2> QED
    BY <2>1, <2>2, <2>3
<1>5. st' = [fast_ema |-> EmaAt(k, made.p1)', slow_ema |-> EmaAt(k, made.p2)', bars_seen |-> k]
  <2>1. CASE n = 0
    <3>1. st' = [fast_ema |-> Fraction(m.close), slow_ema |-> Fraction(m.close), bars_seen |-> 1]
      BY <1>3, <2>1, Zenon DEF Scalping
    <3> QED
      BY <1>2, <1>4, <2>1, <3>1
  <2>2. CASE n # 0
    <3>1. st' = [fast_ema |-> Ema(st.fast_ema, m.close, made.p1),
                 slow_ema |-> Ema(st.slow_ema, m.close, made.p2),
                 bars_seen |-> st.bars_seen + 1]
      BY <1>3, <2>2, Zenon DEF Scalping
    <3> QED
      BY <1>2, <1>3, <1>4, <2>2, <3>1
  <2> QED
    BY <2>1, <2>2
<1>6. AveragesKept'
  <2>1. made.name' # "pullback"
    BY <1>1
  <2> QED
    BY <1>1, <1>2, <1>5, <2>1 DEF AveragesKept
<1>7. /\ Enters(k, h)' <=> k > 1 /\ k >= made.p2 /\ ~FastAbove(n)' /\ FastAbove(k)'
      /\ Leaves(k)' <=> k > 1 /\ k >= made.p2 /\ FastAbove(n)' /\ ~FastAbove(k)'
  <2>1. ( made.name = "scalping" =>
             /\ Enters(k, h) <=> k > 1 /\ k >= made.p2 /\ ~FastAbove(k - 1) /\ FastAbove(k)
             /\ Leaves(k) <=> k > 1 /\ k >= made.p2 /\ FastAbove(k - 1) /\ ~FastAbove(k) )'
    BY <1>2, NextScalpingRules
  <2>2. made.name' = "scalping" /\ (k >= made.p2)' = (k >= made.p2)
    BY <1>1
  <2> QED
    BY <1>2, <2>1, <2>2
<1>8. CASE n = 0
  <2>1. Silent
    BY <1>3, <1>8, Zenon DEF Scalping
  <2>2. ~Enters(k, h)' /\ ~Leaves(k)'
    BY <1>2, <1>7, <1>8
  <2>3. Answers(k, h)
    BY <2>1, <2>2, SilenceAnswers
  <2> QED
    BY <1>2, <1>6, <2>3
<1>9. CASE n # 0
  <2> DEFINE prev_above == Above(st.fast_ema, st.slow_ema)
             curr_above == Above(st'.fast_ema, st'.slow_ema)
             enter == ~prev_above /\ curr_above
             leave == prev_above /\ ~curr_above
  <2>1. IF st'.bars_seen < made.p2 THEN Silent ELSE Decide(enter, leave)
    BY <1>3, <1>9, Zenon DEF Scalping
  <2>2. prev_above <=> FastAbove(n)'
    <3>1. n \in 1 .. n
      BY <1>1, <1>9
    <3>2. FastAbove(n)' <=> FastAbove(n)
      BY <3>1, AveragesStay
    <3> QED
      BY <1>3, <1>9, <3>2 DEF FastAbove
  <2>3. curr_above <=> FastAbove(k)'
    <3>1. st'.fast_ema = EmaAt(k, made.p1)' /\ st'.slow_ema = EmaAt(k, made.p2)'
      BY <1>5
    <3> QED
      BY <3>1 DEF FastAbove
  <2>4. st'.bars_seen = k /\ k > 1
    BY <1>1, <1>2, <1>5, <1>9
  <2>5. prev_above \in BOOLEAN /\ curr_above \in BOOLEAN
    BY DEF Above
  <2> HIDE DEF prev_above, curr_above
  <2>6. CASE k < made.p2
    <3>1. ~(k >= made.p2)
      BY <1>1, <1>2, <2>6
    <3>2. Silent /\ ~Enters(k, h)' /\ ~Leaves(k)'
      BY <1>7, <2>1, <2>4, <2>6, <3>1, Zenon
    <3>3. Answers(k, h)
      BY <3>2, SilenceAnswers
    <3> QED
      BY <1>2, <1>6, <3>3
  <2>7. CASE ~(k < made.p2)
    <3>1. k >= made.p2
      BY <1>1, <1>2, <2>7
    <3>2. Decide(enter, leave)
      BY <2>1, <2>4, <2>7, Zenon
    <3>3. enter \in BOOLEAN /\ leave \in BOOLEAN
      BY <2>5, Zenon
    <3>4. (enter <=> Enters(k, h)') /\ (leave <=> Leaves(k)')
      BY <1>7, <2>2, <2>3, <2>4, <3>1, Zenon
    <3> HIDE DEF enter, leave
    <3>5. Answers(k, h)
      BY <3>2, <3>3, <3>4, DecisionAnswers
    <3> QED
      BY <1>2, <1>6, <3>5
  <2> QED
    BY <2>6, <2>7
<1> QED
  BY <1>8, <1>9

\* A close below the pullback's average that a trend up, out of the position,
\* has followed ever since.
Dipped(n, h) ==
  \E i \in 2 .. n : /\ i >= made.p1 /\ Dips(i)
                    /\ \A j \in i .. n : Uptrend(j) /\ ~h[j - 1]

PullbackKept(h) ==
  made.name = "pullback" =>
    /\ st.had_pullback \in BOOLEAN
    /\ st.had_pullback <=> Dipped(Len(history), h) /\ ~in_position

\* A dip depends on the positions of its bars only.
LEMMA DippedSame ==
  ASSUME NEW n \in Nat, NEW g, NEW h, \A i \in 0 .. n : g[i] = h[i]
  PROVE  Dipped(n, g) <=> Dipped(n, h)
<1>1. \A k \in 2 .. n : (\A j \in k .. n : Uptrend(j) /\ ~g[j - 1])
                          <=> (\A j \in k .. n : Uptrend(j) /\ ~h[j - 1])
  <2>1. \A k \in 2 .. n : \A j \in k .. n : g[j - 1] = h[j - 1]
    OBVIOUS
  <2> QED
    BY <2>1
<1> QED
  BY <1>1 DEF Dipped

LEMMA DippedStays ==
  ASSUME NEW n, NEW m, Grown(n, m), NEW h
  PROVE  Dipped(n, h)' <=> Dipped(n, h)
<1>1. n \in Nat /\ made' = made
  BY HistoryGrows DEF Grown
<1>2. \A j \in 1 .. n : (Uptrend(j)' <=> Uptrend(j)) /\ (Dips(j)' <=> Dips(j))
  BY AveragesStay
<1>3. \A k \in 2 .. n : k \in 1 .. n /\ \A j \in k .. n : j \in 1 .. n
  BY <1>1
<1> QED
  BY <1>1, <1>2, <1>3 DEF Dipped

\* A dip lasts while the trend is up and no position is held.
LEMMA NextDipped ==
  ASSUME NEW n \in Nat \ {0}, NEW h
  PROVE  ( Dipped(n + 1, h) <=> /\ Uptrend(n + 1) /\ ~h[n]
                                /\ (n + 1 >= made.p1 /\ Dips(n + 1)) \/ Dipped(n, h) )'
<1>1. Dipped(n + 1, h) <=> /\ Uptrend(n + 1) /\ ~h[n]
                           /\ (n + 1 >= made.p1 /\ Dips(n + 1)) \/ Dipped(n, h)
  <2> DEFINE Up(i, l) == \A j \in i .. l : Uptrend(j) /\ ~h[j - 1]
             k == n + 1
  <2>1. /\ k \in 2 .. k /\ k - 1 = n /\ (\A j \in k .. k : j = k) /\ k \in k .. k
        /\ \A i \in 2 .. n : i \in 2 .. k
        /\ \A i \in 2 .. k : i = k \/ i \in 2 .. n
        /\ \A i \in 2 .. n : /\ k \in i .. k
                             /\ \A j \in i .. n : j \in i .. k
                             /\ \A j \in i .. k : j = k \/ j \in i .. n
    OBVIOUS
  <2> HIDE DEF k
  <2>2. Up(k, k) <=> Uptrend(k) /\ ~h[n]
    BY <2>1
  <2>3. \A i \in 2 .. n : Up(i, k) <=> (Uptrend(k) /\ ~h[n]) /\ Up(i, n)
    <3> SUFFICES ASSUME NEW i \in 2 .. n
                 PROVE  (\A j \in i .. k : Uptrend(j) /\ ~h[j - 1])
                          <=> (Uptrend(k) /\ ~h[n]) /\ \A j \in i .. n : Uptrend(j) /\ ~h[j - 1]
      BY Zenon
    <3> QED
      BY <2>1, Zenon
  <2>4. /\ Dipped(k, h) <=> \E i \in 2 .. k : i >= made.p1 /\ Dips(i) /\ Up(i, k)
        /\ Dipped(n, h) <=> \E i \in 2 .. n : i >= made.p1 /\ Dips(i) /\ Up(i, n)
    BY Zenon DEF Dipped
  <2> HIDE DEF Up
  <2>5. (\E i \in 2 .. k : i >= made.p1 /\ Dips(i) /\ Up(i, k))
          <=> \/ k >= made.p1 /\ Dips(k) /\ Up(k, k)
              \/ \E i \in 2 .. n : i >= made.p1 /\ Dips(i) /\ Up(i, k)
    BY <2>1, Zenon
  <2>6. (\E i \in 2 .. n : i >= made.p1 /\ Dips(i) /\ Up(i, k))
          <=> (Uptrend(k) /\ ~h[n]) /\ \E i \in 2 .. n : i >= made.p1 /\ Dips(i) /\ Up(i, n)
    BY <2>3, Zenon
  <2>7. Dipped(k, h) <=> /\ Uptrend(k) /\ ~h[n]
                         /\ (k >= made.p1 /\ Dips(k)) \/ Dipped(n, h)
    BY <2>2, <2>4, <2>5, <2>6, Zenon
  <2> QED
    BY <2>7 DEF k
<1> QED
  BY <1>1, PTL

LEMMA NextPullbackRules ==
  ASSUME NEW i \in Nat, NEW h
  PROVE  ( made.name = "pullback" =>
             /\ Enters(i, h) <=> /\ i > 1 /\ i >= made.p1 /\ Dipped(i, h)
                                 /\ Above(Fraction(Close(i)), EmaAt(i, made.p2))
                                 /\ ~Above(EmaAt(i - 1, made.p2), Fraction(Close(i)))
             /\ Leaves(i) <=> i > 1 /\ i >= made.p1 /\ ~Uptrend(i) )'
<1>1. made.name = "pullback" =>
        /\ Enters(i, h) <=> /\ i > 1 /\ i >= made.p1 /\ Dipped(i, h)
                            /\ Above(Fraction(Close(i)), EmaAt(i, made.p2))
                            /\ ~Above(EmaAt(i - 1, made.p2), Fraction(Close(i)))
        /\ Leaves(i) <=> i > 1 /\ i >= made.p1 /\ ~Uptrend(i)
  BY DEF Enters, Leaves, Dipped
<1> QED
  BY <1>1, PTL

\* pullback: the flag is the dip that lasts, and entering or losing the trend ends it.
LEMMA PullbackFollows ==
  ASSUME NEW n, NEW m, Grown(n, m), made.name = "pullback",
         DOMAIN st = DOMAIN Blank(made.name), AveragesKept, NEW h, PullbackKept(h), in_position \in BOOLEAN, in_position <=> h[n],
         Pullback(m)
  PROVE  AveragesKept' /\ PullbackKept(h)' /\ Answers(n + 1, h)
<1>1. /\ made' = made /\ made.p1 \in Nat \ {0} /\ made.p2 \in Nat \ {0} /\ n \in Nat
      /\ n = Len(history) /\ Len(history)' = n + 1 /\ made.name' = "pullback"
  BY MadeWell, HistoryGrows DEF Grown
<1> DEFINE k == n + 1
<1>2. k \in Nat \ {0} /\ n + 1 = k /\ k - 1 = n /\ k > 0
  BY <1>1
<1> HIDE DEF k
<1>3. /\ st.bars_seen = n
      /\ n # 0 => st.trend_ema = EmaAt(n, made.p1) /\ st.pullback_ema = EmaAt(n, made.p2)
  BY <1>1 DEF AveragesKept
<1>4. /\ st.had_pullback \in BOOLEAN
      /\ st.had_pullback <=> Dipped(n, h) /\ ~in_position
  BY <1>1 DEF PullbackKept
<1>5. /\ IF n = 0 THEN EmaAt(k, made.p1)' = Fraction(m.close)
         ELSE EmaAt(k, made.p1)' = Ema(EmaAt(n, made.p1), m.close, made.p1)
      /\ IF n = 0 THEN EmaAt(k, made.p2)' = Fraction(m.close)
         ELSE EmaAt(k, made.p2)' = Ema(EmaAt(n, made.p2), m.close, made.p2)
  <2>1. PICK a \in Nat \ {0}, b \in Nat \ {0} : a = made.p1 /\ b = made.p2
    BY <1>1
  <2>2. /\ IF n = 0 THEN EmaAt(k, a)' = Fraction(m.close)
           ELSE EmaAt(k, a)' = Ema(EmaAt(n, a), m.close, a)
        /\ IF n = 0 THEN EmaAt(k, b)' = Fraction(m.close)
           ELSE EmaAt(k, b)' = Ema(EmaAt(n, b), m.close, b)
    BY <1>2, EmaKept
  <2>3. made.p1' = a /\ made.p2' = b
    BY <1>1, <2>1
  <2> QED
    BY <2>1, <2>2, <2>3
<1>6. Close(k)' = m.close
  BY <1>2, HistoryGrows
<1>7. /\ Enters(k, h)' <=> /\ k > 1 /\ k >= made.p1 /\ Dipped(k, h)'
                           /\ Above(Fraction(m.close), EmaAt(k, made.p2)')
                           /\ ~Above(EmaAt(n, made.p2)', Fraction(m.close))
      /\ Leaves(k)' <=> k > 1 /\ k >= made.p1 /\ ~Uptrend(k)'
  <2>1. ( made.name = "pullback" =>
             /\ Enters(k, h) <=> /\ k > 1 /\ k >= made.p1 /\ Dipped(k, h)
                                 /\ Above(Fraction(Close(k)), EmaAt(k, made.p2))
                                 /\ ~Above(EmaAt(k - 1, made.p2), Fraction(Close(k)))
             /\ Leaves(k) <=> k > 1 /\ k >= made.p1 /\ ~Uptrend(k) )'
    BY <1>2, NextPullbackRules
  <2>2. (k >= made.p1)' = (k >= made.p1)
    BY <1>1
  <2>3. Fraction(Close(k))' = Fraction(m.close)
    BY <1>6 DEF Fraction
  <2> QED
    BY <1>1, <1>2, <2>1, <2>2, <2>3, Zenon DEF Above
<1>8. CASE n = 0
  <2>1. /\ st' = [st EXCEPT !.trend_ema = Fraction(m.close), !.pullback_ema = Fraction(m.close),
                            !.bars_seen = 1]
        /\ Silent
    BY <1>3, <1>8, Zenon DEF Pullback
  <2>2. DOMAIN st = {"had_pullback", "trend_ema", "pullback_ema", "bars_seen"}
    BY DEF Blank
  <2>3. /\ st'.trend_ema = Fraction(m.close) /\ st'.pullback_ema = Fraction(m.close)
        /\ st'.bars_seen = 1 /\ st'.had_pullback = st.had_pullback
    BY <2>1, <2>2
  <2>4. k = 1 /\ in_position' = in_position
    BY <1>2, <1>8, <2>1 DEF Silent
  <2>5. AveragesKept'
    BY <1>1, <1>2, <1>5, <1>8, <2>3, <2>4 DEF AveragesKept
  <2>6. ~Dipped(n, h) /\ ~Dipped(k, h)'
    <3>1. 2 .. n = {} /\ 2 .. k = {}
      BY <1>8, <2>4
    <3> QED
      BY <3>1, Zenon DEF Dipped
  <2>7. PullbackKept(h)'
    BY <1>1, <1>2, <1>4, <2>3, <2>6 DEF PullbackKept
  <2>8. ~Enters(k, h)' /\ ~Leaves(k)'
    BY <1>7, <2>4
  <2>9. Answers(k, h)
    BY <2>1, <2>8, SilenceAnswers
  <2> QED
    BY <1>2, <2>5, <2>7, <2>9
<1>9. CASE n # 0
  <2> DEFINE trend == Ema(st.trend_ema, m.close, made.p1)
             pullback == Ema(st.pullback_ema, m.close, made.p2)
             close == Fraction(m.close)
             uptrend == Above(close, trend)
             dipped == st.had_pullback \/ Above(pullback, close)
             enter == uptrend /\ dipped /\ Above(close, pullback) /\ ~Above(st.pullback_ema, close)
             warm == st.bars_seen + 1 >= made.p1
             had_pullback == IF ~warm THEN st.had_pullback
                             ELSE IF in_position THEN uptrend /\ st.had_pullback
                             ELSE uptrend /\ dipped /\ ~enter
  <2>1. /\ st' = [trend_ema |-> trend, pullback_ema |-> pullback,
                  bars_seen |-> st.bars_seen + 1, had_pullback |-> had_pullback]
        /\ IF warm THEN Decide(enter, ~uptrend) ELSE Silent
    BY <1>3, <1>9, Zenon DEF Pullback
  <2>2. /\ st'.trend_ema = trend /\ st'.pullback_ema = pullback
        /\ st'.bars_seen = k /\ st'.had_pullback = had_pullback
    BY <1>2, <1>3, <2>1
  <2>3. trend = EmaAt(k, made.p1)' /\ pullback = EmaAt(k, made.p2)'
    BY <1>3, <1>5, <1>9
  <2>4. n \in Nat \ {0} /\ n \in 1 .. n /\ k > 1
    BY <1>1, <1>2, <1>9
  <2>5. EmaAt(n, made.p2)' = st.pullback_ema
    BY <1>3, <1>9, <2>4, AveragesStay
  <2>6. warm <=> k >= made.p1
    BY <1>1, <1>2, <1>3
  <2>7. AveragesKept'
    BY <1>1, <1>2, <2>2, <2>3 DEF AveragesKept
  <2>8. (uptrend <=> Uptrend(k)') /\ (Above(pullback, close) <=> Dips(k)')
    <3>1. /\ Uptrend(k)' <=> Above(Fraction(Close(k)'), EmaAt(k, made.p1)')
          /\ Dips(k)' <=> Above(EmaAt(k, made.p2)', Fraction(Close(k)'))
      BY Zenon DEF Uptrend, Dips, Above, Fraction
    <3> HIDE DEF trend, pullback
    <3> QED
      BY <1>6, <2>3, <3>1
  <2> DEFINE up == Above(close, pullback)
             down == Above(st.pullback_ema, close)
             dips == Above(pullback, close)
  <2>9. /\ uptrend \in BOOLEAN /\ up \in BOOLEAN /\ down \in BOOLEAN /\ dips \in BOOLEAN
    BY DEF Above
  <2>10. Dipped(k, h)' <=> /\ uptrend /\ ~in_position
                           /\ (k >= made.p1 /\ dips) \/ Dipped(n, h)
    <3>1. ( Dipped(n + 1, h) <=> /\ Uptrend(n + 1) /\ ~h[n]
                                 /\ (n + 1 >= made.p1 /\ Dips(n + 1)) \/ Dipped(n, h) )'
      BY <2>4, NextDipped
    <3>2. Dipped(n, h)' <=> Dipped(n, h)
      BY DippedStays
    <3>3. (k >= made.p1)' = (k >= made.p1)
      BY <1>1
    <3> HIDE DEF uptrend, dips
    <3> QED
      BY <1>2, <2>8, <3>1, <3>2, <3>3, Zenon DEF dips
  <2>11. ~(k >= made.p1) => ~Dipped(n, h)
    <3>1. ~(k >= made.p1) => \A i \in 2 .. n : ~(i >= made.p1)
      BY <1>1, <1>2
    <3> QED
      BY <3>1, Zenon DEF Dipped
  <2>12. Enters(k, h)' <=> k >= made.p1 /\ Dipped(k, h)' /\ up /\ ~down
    <3> HIDE DEF trend, pullback
    <3> QED
      BY <1>7, <2>3, <2>4, <2>5, Zenon
  <2>13. Leaves(k)' <=> k >= made.p1 /\ ~uptrend
    BY <1>7, <2>4, <2>8, Zenon
  <2>14. /\ enter <=> uptrend /\ (st.had_pullback \/ dips) /\ up /\ ~down
         /\ had_pullback = IF ~warm THEN st.had_pullback
                           ELSE IF in_position THEN uptrend /\ st.had_pullback
                           ELSE uptrend /\ (st.had_pullback \/ dips) /\ ~enter
         /\ enter \in BOOLEAN /\ had_pullback \in BOOLEAN
    <3> HIDE DEF uptrend, warm
    <3>1. enter <=> uptrend /\ (st.had_pullback \/ dips) /\ up /\ ~down
      BY Zenon
    <3>2. had_pullback = IF ~warm THEN st.had_pullback
                         ELSE IF in_position THEN uptrend /\ st.had_pullback
                         ELSE uptrend /\ (st.had_pullback \/ dips) /\ ~enter
      BY Zenon
    <3>3. enter \in BOOLEAN
      BY Zenon
    <3> HIDE DEF dips, up, down, enter, had_pullback
    <3>4. had_pullback \in BOOLEAN
      BY <1>4, <2>9, <3>2, <3>3, Zenon
    <3> QED
      BY <3>1, <3>2, <3>3, <3>4, Zenon
  <2> HIDE DEF trend, pullback, close, uptrend, dipped, enter, warm, had_pullback, up, down, dips
  <2>15. CASE ~warm
    <3>1. Silent /\ in_position' = in_position
      BY <2>1, <2>15 DEF Silent
    <3>2. ~Dipped(k, h)' /\ ~Enters(k, h)' /\ ~Leaves(k)'
      BY <2>6, <2>10, <2>11, <2>12, <2>13, <2>15, Zenon
    <3>3. st'.had_pullback = FALSE
      BY <1>4, <2>2, <2>6, <2>11, <2>14, <2>15, Zenon
    <3>4. PullbackKept(h)'
      BY <1>1, <1>2, <3>2, <3>3 DEF PullbackKept
    <3>5. Answers(k, h)
      BY <3>1, <3>2, SilenceAnswers
    <3> QED
      BY <1>2, <2>7, <3>4, <3>5
  <2>16. CASE warm /\ in_position
    <3>1. Decide(enter, ~uptrend)
      BY <2>1, <2>16
    <3>2. Decide(FALSE, ~uptrend)
      BY <2>16, <3>1, Zenon DEF Decide
    <3>3. ~Dipped(k, h)' /\ ~Enters(k, h)' /\ (Leaves(k)' <=> ~uptrend)
      BY <2>6, <2>10, <2>12, <2>13, <2>16, Zenon
    <3>4. ~st.had_pullback
      BY <1>4, <2>16, Zenon
    <3>5. st'.had_pullback = FALSE
      BY <1>4, <2>2, <2>9, <2>14, <2>16, <3>4, Zenon
    <3>6. PullbackKept(h)'
      BY <1>1, <1>2, <3>3, <3>5 DEF PullbackKept
    <3>7. (~uptrend) \in BOOLEAN
      BY Zenon
    <3>8. Answers(k, h)
      BY <3>2, <3>3, <3>7, DecisionAnswers, Zenon
    <3> QED
      BY <1>2, <2>7, <3>6, <3>8
  <2>17. CASE warm /\ ~in_position
    <3>1. Decide(enter, ~uptrend)
      BY <2>1, <2>17
    <3>2. Dipped(k, h)' <=> uptrend /\ (st.had_pullback \/ dips)
      BY <1>4, <2>6, <2>10, <2>17, Zenon
    <3>3. (enter <=> Enters(k, h)') /\ (~uptrend <=> Leaves(k)')
      BY <2>6, <2>12, <2>13, <2>14, <2>17, <3>2, Zenon
    <3>4. in_position' <=> enter
      <4>1. CASE enter
        BY <2>17, <3>1, <4>1, Zenon DEF Decide
      <4>2. CASE ~enter
        BY <2>17, <3>1, <4>2, Zenon DEF Decide, Silent
      <4> QED
        BY <4>1, <4>2
    <3>5. st'.had_pullback \in BOOLEAN
      BY <2>2, <2>14
    <3>6. st'.had_pullback <=> Dipped(k, h)' /\ ~in_position'
      BY <2>2, <2>14, <2>17, <3>2, <3>4, Zenon
    <3>7. PullbackKept(h)'
      BY <1>1, <1>2, <3>5, <3>6 DEF PullbackKept
    <3>8. (~uptrend) \in BOOLEAN /\ enter \in BOOLEAN
      BY <2>14, Zenon
    <3>9. Answers(k, h)
      BY <3>1, <3>3, <3>8, DecisionAnswers, Zenon
    <3> QED
      BY <1>2, <2>7, <3>7, <3>9
  <2> QED
    BY <2>15, <2>16, <2>17
<1> QED
  BY <1>8, <1>9

\* Wilder's average, by the number of bars since the warm-up.
MovesUpTo(l, d) == SumTo([i \in 1 .. l |-> Move(i + 1, d)], l)

AverageOf(p, q, r, d) ==
  SumOf([i \in 1 .. p |-> Move(i + 1, d)]) * Power(q, r)
    + SumOf([i \in 1 .. r |-> Move(p + 1 + i, d) * Power(p, i) * Power(q, r - i)])

LEMMA AverageIs ==
  ASSUME NEW n, NEW p, NEW r, NEW q, NEW d, made.p1 = p, n - p - 1 = r, p - 1 = q
  PROVE  Average(n, d) = AverageOf(p, q, r, d)
<1> DEFINE x == [i \in 1 .. made.p1 |-> Move(i + 1, d)]
           y == [i \in 1 .. n - made.p1 - 1 |->
                   Move(made.p1 + 1 + i, d) * Power(made.p1, i) * Power(made.p1 - 1, n - made.p1 - 1 - i)]
           u == [i \in 1 .. p |-> Move(i + 1, d)]
           v == [i \in 1 .. r |-> Move(p + 1 + i, d) * Power(p, i) * Power(q, r - i)]
<1>1. Average(n, d) = SumOf(x) * Power(made.p1 - 1, n - made.p1 - 1) + SumOf(y)
  BY DEF Average
<1>2. x = u /\ y = v
  OBVIOUS
<1> HIDE DEF x, y, u, v
<1>3. Average(n, d) = SumOf(u) * Power(q, r) + SumOf(v)
  BY <1>1, <1>2, Zenon
<1> QED
  BY <1>3, Zenon DEF u, v, AverageOf

LEMMA MoveIsNat ==
  ASSUME NEW d \in {1, -1}, NEW i, Close(i) \in Int, Close(i - 1) \in Int
  PROVE  Move(i, d) \in Nat
<1>1. d * (Close(i) - Close(i - 1)) \in Int
  OBVIOUS
<1> QED
  BY <1>1, GainIsNat DEF Move

LEMMA AverageOfIs ==
  ASSUME NEW p \in Nat \ {0}, NEW q \in Nat, q = p - 1, NEW r \in Nat, NEW d,
         \A i \in 2 .. p + 1 + r : Move(i, d) \in Nat
  PROVE  /\ MovesUpTo(p, d) \in Nat
         /\ AverageOf(p, q, r, d) \in Nat
         /\ r = 0 => AverageOf(p, q, r, d) = MovesUpTo(p, d)
<1> DEFINE f == [i \in 1 .. p |-> Move(i + 1, d)]
           v == [i \in 1 .. r |-> Move(p + 1 + i, d) * Power(p, i) * Power(q, r - i)]
<1>1. f \in [1 .. p -> Int] /\ \A i \in 1 .. p : f[i] \in Nat
  <2>1. \A i \in 1 .. p : i + 1 \in 2 .. p + 1 + r
    OBVIOUS
  <2> QED
    BY <2>1
<1>2. v \in [1 .. r -> Int] /\ \A i \in 1 .. r : v[i] \in Nat
  <2>1. \A i \in 1 .. r : p + 1 + i \in 2 .. p + 1 + r /\ i \in Nat /\ r - i \in Nat
    OBVIOUS
  <2>2. \A i \in 1 .. r : /\ Move(p + 1 + i, d) \in Nat
                          /\ Power(p, i) \in Nat /\ Power(q, r - i) \in Nat
    BY <2>1, PowerNext
  <2>3. \A a, b, c \in Nat : a * b * c \in Nat
    OBVIOUS
  <2>4. \A i \in 1 .. r : Move(p + 1 + i, d) * Power(p, i) * Power(q, r - i) \in Nat
    BY <2>2, <2>3
  <2> QED
    BY <2>4
<1>3. AverageOf(p, q, r, d) = SumOf(f) * Power(q, r) + SumOf(v) /\ MovesUpTo(p, d) = SumTo(f, p)
  BY Zenon DEF AverageOf, MovesUpTo
<1> HIDE DEF f, v
<1>4. Len(f) = p /\ Len(v) = r
  BY <1>1, <1>2, SequenceOf
<1>5. SumTo(f, p) \in Nat /\ SumTo(v, r) \in Nat
  BY <1>1, <1>2, SumOfNats
<1>6. SumOf(f) = SumTo(f, p) /\ SumOf(v) = SumTo(v, r)
  BY <1>4 DEF SumOf
<1>7. Power(q, r) \in Nat /\ Power(q, 0) = 1
  BY PowerNext
<1>8. AverageOf(p, q, r, d) \in Nat
  <2>1. \A a, b, c \in Nat : a * b + c \in Nat
    OBVIOUS
  <2> QED
    BY <1>3, <1>5, <1>6, <1>7, <2>1
<1>9. ASSUME r = 0 PROVE AverageOf(p, q, r, d) = MovesUpTo(p, d)
  <2>1. SumTo(v, r) = 0
    BY <1>9, SumNext
  <2> QED
    BY <1>3, <1>5, <1>6, <1>7, <1>9, <2>1
<1> QED
  BY <1>3, <1>5, <1>8, <1>9

\* One step of Wilder's recurrence is one step of the average spelled out.
LEMMA AverageOfSteps ==
  ASSUME NEW p \in Nat \ {0}, NEW q \in Nat, q = p - 1, NEW r \in Nat, NEW d,
         \A i \in 2 .. p + 1 + r + 1 : Move(i, d) \in Nat
  PROVE  AverageOf(p, q, r + 1, d)
           = AverageOf(p, q, r, d) * q + Move(p + 1 + r + 1, d) * Power(p, r + 1)
<1> DEFINE f == [i \in 1 .. p |-> Move(i + 1, d)]
           W(i, l) == Move(p + 1 + i, d) * Power(p, i) * Power(q, l - i)
           a == [i \in 1 .. r + 1 |-> W(i, r + 1)]
           b == [i \in 1 .. r |-> W(i, r)]
<1>1. /\ AverageOf(p, q, r + 1, d) = SumOf(f) * Power(q, r + 1) + SumOf(a)
      /\ AverageOf(p, q, r, d) = SumOf(f) * Power(q, r) + SumOf(b)
  BY Zenon DEF AverageOf
<1>2. SumOf(f) \in Int
  <2>1. \A i \in 1 .. p : i + 1 \in 2 .. p + 1 + r + 1
    OBVIOUS
  <2>2. f \in [1 .. p -> Int]
    BY <2>1
  <2> HIDE DEF f
  <2> QED
    BY <2>2, SequenceOf, SumOfSeq
<1> HIDE DEF f
<1>3. ASSUME NEW l \in Nat, l <= r + 1, NEW i \in 1 .. l
      PROVE  W(i, l) \in Int /\ W(i, l + 1) = W(i, l) * q
  <2>1. i \in Nat /\ l - i \in Nat /\ l + 1 - i = (l - i) + 1 /\ p + 1 + i \in 2 .. p + 1 + r + 1
    BY <1>3
  <2>2. /\ Power(p, i) \in Nat /\ Power(q, l - i) \in Nat
        /\ Power(q, (l - i) + 1) = Power(q, l - i) * q /\ Move(p + 1 + i, d) \in Nat
    BY <2>1, PowerNext
  <2>3. \A x, y, z \in Int : x * y * z \in Int /\ x * y * (z * q) = (x * y * z) * q
    OBVIOUS
  <2> QED
    BY <2>1, <2>2, <2>3
<1>4. /\ \A i \in 1 .. r + 1 : a[i] \in Int
      /\ \A i \in 1 .. r : b[i] \in Int /\ a[i] = b[i] * q
  <2>1. \A i \in 1 .. r + 1 : a[i] = W(i, r + 1)
    OBVIOUS
  <2>2. \A i \in 1 .. r : b[i] = W(i, r) /\ i \in 1 .. r + 1
    OBVIOUS
  <2>3. \A i \in 1 .. r + 1 : W(i, r + 1) \in Int
    <3>1. r + 1 \in Nat /\ r + 1 <= r + 1
      OBVIOUS
    <3> HIDE DEF W
    <3> QED
      BY <1>3, <3>1
  <2>4. \A i \in 1 .. r : W(i, r) \in Int /\ W(i, r + 1) = W(i, r) * q
    <3>1. r \in Nat /\ r <= r + 1
      OBVIOUS
    <3> HIDE DEF W
    <3> QED
      BY <1>3, <3>1
  <2> HIDE DEF W, a, b
  <2> QED
    BY <2>1, <2>2, <2>3, <2>4
<1>5. a[r + 1] = Move(p + 1 + r + 1, d) * Power(p, r + 1) /\ a[r + 1] \in Int
  <2>1. r + 1 \in 1 .. r + 1 /\ p + 1 + r + 1 \in 2 .. p + 1 + r + 1 /\ r + 1 \in Nat
    OBVIOUS
  <2>2. a[r + 1] = W(r + 1, r + 1) /\ a[r + 1] \in Int
    BY <1>4, <2>1
  <2>3. PICK j : j = r + 1
    OBVIOUS
  <2>4. W(j, j) = Move(p + 1 + j, d) * Power(p, j) * Power(q, j - j)
    OBVIOUS
  <2>5. j - j = 0 /\ p + 1 + j = p + 1 + r + 1
    BY <2>1, <2>3
  <2> HIDE DEF W, a
  <2>6. Power(q, 0) = 1 /\ Power(p, j) \in Nat /\ Move(p + 1 + j, d) \in Nat
    BY <2>1, <2>3, <2>5, PowerNext
  <2>7. W(j, j) = Move(p + 1 + r + 1, d) * Power(p, j)
    <3>1. W(j, j) = Move(p + 1 + j, d) * Power(p, j) * 1
      BY <2>4, <2>5, <2>6, Zenon
    <3>2. Move(p + 1 + j, d) * Power(p, j) * 1 = Move(p + 1 + j, d) * Power(p, j)
      BY <2>6
    <3> QED
      BY <2>5, <3>1, <3>2, Zenon
  <2> QED
    BY <2>2, <2>3, <2>7, Zenon
<1>6. Len(a) = r + 1 /\ Len(b) = r
  <2>1. a \in [1 .. r + 1 -> Int] /\ b \in [1 .. r -> Int]
    BY <1>4
  <2> HIDE DEF a, b
  <2>2. r + 1 \in Nat
    OBVIOUS
  <2> QED
    BY <2>1, <2>2, SequenceOf
<1> HIDE DEF a, b
<1>7. SumOf(a) = SumOf(b) * q + a[r + 1] /\ SumOf(b) \in Int
  <2>1. SumTo(a, r + 1) = SumTo(b, r) * q + a[r + 1]
    BY <1>4, WeightsGrow
  <2>2. SumTo(b, r) \in Int
    BY <1>4, SumType
  <2> QED
    BY <1>6, <2>1, <2>2 DEF SumOf
<1>8. Power(q, r + 1) = Power(q, r) * q /\ Power(q, r) \in Nat
  BY PowerNext
<1>9. PICK c \in Int, u \in Int, x \in Int, y \in Int :
        c = SumOf(f) /\ u = Power(q, r) /\ x = SumOf(b) /\ y = a[r + 1]
  BY <1>2, <1>5, <1>7, <1>8
<1>10. c * (u * q) + (x * q + y) = (c * u + x) * q + y
  OBVIOUS
<1> QED
  BY <1>1, <1>5, <1>7, <1>8, <1>9, <1>10, Zenon

LEMMA NextAverage ==
  ASSUME NEW p \in Nat \ {0}, NEW n \in Nat, n >= p, NEW d \in {1, -1}
  PROVE  ( made.p1 = p /\ (\A i \in 1 .. n + 1 : Close(i) \in Int) =>
             /\ Average(n + 1, d) \in Nat
             /\ IF n = p THEN Average(n + 1, d) = MovesUpTo(p, d)
                ELSE Average(n + 1, d) = Average(n, d) * (p - 1) + Move(n + 1, d) * Power(p, n - p) )'
<1>1. made.p1 = p /\ (\A i \in 1 .. n + 1 : Close(i) \in Int) =>
        /\ Average(n + 1, d) \in Nat
        /\ IF n = p THEN Average(n + 1, d) = MovesUpTo(p, d)
           ELSE Average(n + 1, d) = Average(n, d) * (p - 1) + Move(n + 1, d) * Power(p, n - p)
  <2> SUFFICES ASSUME made.p1 = p, \A i \in 1 .. n + 1 : Close(i) \in Int
               PROVE  /\ Average(n + 1, d) \in Nat
                      /\ IF n = p THEN Average(n + 1, d) = MovesUpTo(p, d)
                         ELSE Average(n + 1, d)
                                = Average(n, d) * (p - 1) + Move(n + 1, d) * Power(p, n - p)
    OBVIOUS
  <2>1. PICK q \in Nat, r \in Nat : q = p - 1 /\ r = n - p
    <3>1. p - 1 \in Nat /\ n - p \in Nat
      OBVIOUS
    <3> QED
      BY <3>1
  <2>2. \A i \in 2 .. n + 1 : Move(i, d) \in Nat
    <3>1. \A i \in 2 .. n + 1 : i \in 1 .. n + 1 /\ i - 1 \in 1 .. n + 1
      OBVIOUS
    <3> QED
      BY <3>1, MoveIsNat
  <2>3. Average(n + 1, d) = AverageOf(p, q, r, d)
    <3>1. PICK l : l = n + 1
      OBVIOUS
    <3>2. l - p - 1 = r
      BY <2>1, <3>1
    <3>3. Average(l, d) = AverageOf(p, q, r, d)
      BY <2>1, <3>2, AverageIs
    <3> QED
      BY <3>1, <3>3
  <2>4. p + 1 + r = n + 1
    BY <2>1
  <2>5. /\ AverageOf(p, q, r, d) \in Nat
        /\ r = 0 => AverageOf(p, q, r, d) = MovesUpTo(p, d)
    BY <2>1, <2>2, <2>4, AverageOfIs
  <2>6. ASSUME n # p
        PROVE  Average(n + 1, d) = Average(n, d) * (p - 1) + Move(n + 1, d) * Power(p, n - p)
    <3>1. PICK s \in Nat : r = s + 1
      <4>1. r - 1 \in Nat /\ r = (r - 1) + 1
        BY <2>1, <2>6
      <4> QED
        BY <4>1
    <3>2. p + 1 + s + 1 = n + 1 /\ n - p - 1 = s
      BY <2>1, <3>1
    <3>3. Average(n, d) = AverageOf(p, q, s, d)
      BY <2>1, <3>2, AverageIs
    <3>4. AverageOf(p, q, s + 1, d)
            = AverageOf(p, q, s, d) * q + Move(p + 1 + s + 1, d) * Power(p, s + 1)
      BY <2>1, <2>2, <3>2, AverageOfSteps
    <3> QED
      BY <2>1, <2>3, <3>1, <3>2, <3>3, <3>4
  <2> QED
    BY <2>1, <2>3, <2>5, <2>6
<1> QED
  BY <1>1, PTL

LEMMA NextMoves ==
  ASSUME NEW l \in Nat, NEW d
  PROVE  (MovesUpTo(l + 1, d) = MovesUpTo(l, d) + Move(l + 1 + 1, d) /\ MovesUpTo(0, d) = 0)'
<1>1. MovesUpTo(l + 1, d) = MovesUpTo(l, d) + Move(l + 1 + 1, d) /\ MovesUpTo(0, d) = 0
  <2> DEFINE a == [i \in 1 .. l + 1 |-> Move(i + 1, d)]
             b == [i \in 1 .. l |-> Move(i + 1, d)]
             z == [i \in 1 .. 0 |-> Move(i + 1, d)]
  <2>1. a[l + 1] = Move(l + 1 + 1, d) /\ \A i \in 1 .. l : a[i] = b[i]
    OBVIOUS
  <2>2. MovesUpTo(l + 1, d) = SumTo(a, l + 1) /\ MovesUpTo(l, d) = SumTo(b, l) /\ MovesUpTo(0, d) = SumTo(z, 0)
    BY Zenon DEF MovesUpTo
  <2> HIDE DEF a, b, z
  <2>3. SumTo(a, l + 1) = SumTo(a, l) + a[l + 1] /\ SumTo(z, 0) = 0
    BY SumNext
  <2>4. SumTo(a, l) = SumTo(b, l)
    BY <2>1, SameSums
  <2> QED
    BY <2>1, <2>2, <2>3, <2>4, Zenon
<1> QED
  BY <1>1, PTL

\* rsi: the averages are plain sums while they warm up, and Wilder's from then on.
RsiKept ==
  made.name = "rsi" =>
    LET n == Len(history)
        p == made.p1
        Kept(avg, d) ==
          avg = IF n = 0 THEN [num |-> 0, den |-> 1]
                ELSE IF n <= p THEN [num |-> MovesUpTo(n - 1, d), den |-> 1]
                ELSE [num |-> Average(n, d), den |-> Power(p, n - p)]
    IN  /\ st.bars_seen = n
        /\ n > 0 => st.prev_close = Close(n)
        /\ st.warmed_up \in BOOLEAN /\ (st.warmed_up <=> n > p)
        /\ Kept(st.avg_gain, 1) /\ Kept(st.avg_loss, -1)

LEMMA NextRsiRules ==
  ASSUME NEW i \in Nat, NEW h
  PROVE  ( made.name = "rsi" =>
             /\ Enters(i, h) <=> /\ i > made.p1 + 1 /\ Average(i, -1) > 0
                                 /\ 1000 * Average(i, 1) < 300 * (Average(i, 1) + Average(i, -1))
             /\ Leaves(i) <=> /\ i > made.p1 + 1 /\ Average(i, -1) > 0
                              /\ 1000 * Average(i, 1) > made.fp * (Average(i, 1) + Average(i, -1)) )'
<1>1. made.name = "rsi" =>
        /\ Enters(i, h) <=> /\ i > made.p1 + 1 /\ Average(i, -1) > 0
                            /\ 1000 * Average(i, 1) < 300 * (Average(i, 1) + Average(i, -1))
        /\ Leaves(i) <=> /\ i > made.p1 + 1 /\ Average(i, -1) > 0
                         /\ 1000 * Average(i, 1) > made.fp * (Average(i, 1) + Average(i, -1))
  BY DEF Enters, Leaves
<1> QED
  BY <1>1, PTL

LEMMA MovesStay ==
  ASSUME NEW n, NEW m, Grown(n, m), NEW l \in Nat, l + 1 <= n, NEW d
  PROVE  MovesUpTo(l, d)' = MovesUpTo(l, d)
<1>1. n \in Nat /\ \A j \in 1 .. n : Close(j)' = Close(j)
  BY HistoryGrows
<1> DEFINE b == [i \in 1 .. l |-> Move(i + 1, d)]
<1>2. b' = b
  <2>1. \A i \in 1 .. l : i + 1 \in 1 .. n /\ i + 1 - 1 \in 1 .. n
    BY <1>1
  <2>2. \A i \in 1 .. l : Move(i + 1, d)' = Move(i + 1, d)
    BY <1>1, <2>1 DEF Move
  <2> QED
    BY <2>2
<1>3. MovesUpTo(l, d)' = SumTo(b', l) /\ MovesUpTo(l, d) = SumTo(b, l)
  BY DEF MovesUpTo
<1> QED
  BY <1>2, <1>3

\* rsi: of the first bar, of one that warms up, of the one that completes the
\* warm-up and of a later one.
LEMMA RsiFollows ==
  ASSUME NEW n, NEW m, Grown(n, m), made.name = "rsi",
         DOMAIN st = DOMAIN Blank(made.name), RsiKept, Rsi(m), NEW h
  PROVE  RsiKept' /\ Answers(n + 1, h)
<1>1. /\ made' = made /\ made.p1 \in Nat \ {0} /\ made.fp \in Nat \ {0} /\ n \in Nat
      /\ n = Len(history) /\ Len(history)' = n + 1 /\ made.name' = "rsi"
      /\ m.close \in Int
  BY MadeWell, HistoryGrows, BarIsWhole DEF Grown
<1>2. PICK p \in Nat \ {0} : p = made.p1
  BY <1>1
<1> DEFINE k == n + 1
<1>3. k \in Nat \ {0} /\ n + 1 = k /\ k - 1 = n /\ k > 0 /\ k # 0
  BY <1>1
<1> HIDE DEF k
<1>4. /\ \A i \in 1 .. n + 1 : Close(i)' \in Int
      /\ Close(k)' = m.close
      /\ n # 0 => Close(n)' = Close(n) /\ Close(n) \in Int
  <2>1. n # 0 => n \in 1 .. n
    BY <1>1
  <2> QED
    BY <1>3, <2>1, HistoryGrows
<1>5. DOMAIN st = {"prev_close", "avg_gain", "avg_loss", "bars_seen", "warmed_up"}
  BY DEF Blank
<1> DEFINE Then(d) == IF n < p THEN [num |-> MovesUpTo(n, d)', den |-> 1]
                      ELSE [num |-> Average(k, d)', den |-> Power(p, k - p)]
<1>6. /\ st.bars_seen = n /\ (n # 0 => st.prev_close = Close(n))
      /\ st.warmed_up \in BOOLEAN /\ (st.warmed_up <=> n > p)
      /\ \A d \in {1, -1} : (IF d = 1 THEN st.avg_gain ELSE st.avg_loss)
           = IF n = 0 THEN [num |-> 0, den |-> 1]
             ELSE IF n <= p THEN [num |-> MovesUpTo(n - 1, d), den |-> 1]
             ELSE [num |-> Average(n, d), den |-> Power(p, n - p)]
  BY <1>1, <1>2 DEF RsiKept
<1>7. ASSUME /\ st'.bars_seen = k /\ st'.prev_close = m.close
             /\ st'.warmed_up \in BOOLEAN /\ (st'.warmed_up <=> n >= p)
             /\ st'.avg_gain = Then(1) /\ st'.avg_loss = Then(-1)
      PROVE  RsiKept'
  <2>1. \A d \in {1, -1} :
          Then(d) = IF k = 0 THEN [num |-> 0, den |-> 1]
                    ELSE IF k <= p THEN [num |-> MovesUpTo(k - 1, d)', den |-> 1]
                    ELSE [num |-> Average(k, d)', den |-> Power(p, k - p)]
    BY <1>1, <1>3
  <2>2. n >= p <=> k > p
    BY <1>1, <1>3
  <2> HIDE DEF Then
  <2>3. made.p1' = p
    BY <1>1, <1>2
  <2> QED
    BY <1>1, <1>3, <1>4, <1>7, <2>1, <2>2, <2>3 DEF RsiKept
<1>8. /\ Enters(k, h)' <=> /\ k > p + 1 /\ Average(k, -1)' > 0
                           /\ 1000 * Average(k, 1)' < 300 * (Average(k, 1)' + Average(k, -1)')
      /\ Leaves(k)' <=> /\ k > p + 1 /\ Average(k, -1)' > 0
                        /\ 1000 * Average(k, 1)' > made.fp * (Average(k, 1)' + Average(k, -1)')
  <2>1. ( made.name = "rsi" =>
            /\ Enters(k, h) <=> /\ k > made.p1 + 1 /\ Average(k, -1) > 0
                                /\ 1000 * Average(k, 1) < 300 * (Average(k, 1) + Average(k, -1))
            /\ Leaves(k) <=> /\ k > made.p1 + 1 /\ Average(k, -1) > 0
                             /\ 1000 * Average(k, 1) > made.fp * (Average(k, 1) + Average(k, -1)) )'
    BY <1>3, NextRsiRules
  <2>2. made.p1' = p /\ made.fp' = made.fp
    BY <1>1, <1>2
  <2> QED
    BY <1>1, <2>1, <2>2
<1> DEFINE change == m.close - st.prev_close
<1>9. n # 0 => \A d \in {1, -1} : Move(k, d)' = Gain(d * change) /\ Move(k, d)' \in Nat
  <2>1. n # 0 => \A d \in {1, -1} : Move(k, d)' = Gain(d * change)
    BY <1>3, <1>4, <1>6 DEF Move
  <2>2. n # 0 => \A d \in {1, -1} : d * change \in Int
    BY <1>1, <1>4, <1>6
  <2> HIDE DEF change
  <2> QED
    BY <2>1, <2>2, GainIsNat
<1>10. n # 0 => -change = (-1) * change /\ change = 1 * change
  BY <1>1, <1>4, <1>6
<1> HIDE DEF change
<1>11. \A d \in {1, -1} : /\ MovesUpTo(0, d)' = 0
                          /\ n # 0 => MovesUpTo(n, d)' = MovesUpTo(n - 1, d) + Move(k, d)'
  <2> SUFFICES ASSUME NEW d \in {1, -1}
               PROVE  /\ MovesUpTo(0, d)' = 0
                      /\ n # 0 => MovesUpTo(n, d)' = MovesUpTo(n - 1, d) + Move(k, d)'
    OBVIOUS
  <2>1. MovesUpTo(0, d)' = 0
    <3>1. (MovesUpTo(0 + 1, d) = MovesUpTo(0, d) + Move(0 + 1 + 1, d) /\ MovesUpTo(0, d) = 0)'
      BY NextMoves
    <3> QED
      BY <3>1
  <2>2. ASSUME n # 0 PROVE MovesUpTo(n, d)' = MovesUpTo(n - 1, d) + Move(k, d)'
    <3>1. PICK l \in Nat : n = l + 1
      <4>1. n - 1 \in Nat /\ n = (n - 1) + 1
        BY <1>1, <2>2
      <4> QED
        BY <4>1
    <3>2. (MovesUpTo(l + 1, d) = MovesUpTo(l, d) + Move(l + 1 + 1, d) /\ MovesUpTo(0, d) = 0)'
      BY NextMoves
    <3>3. MovesUpTo(l, d)' = MovesUpTo(l, d)
      BY <3>1, MovesStay
    <3>4. l + 1 + 1 = k /\ n - 1 = l
      BY <1>3, <3>1
    <3> QED
      BY <3>1, <3>2, <3>3, <3>4
  <2> QED
    BY <2>1, <2>2
<1>12. n >= p => \A d \in {1, -1} :
          /\ Average(k, d)' \in Nat
          /\ n = p => Average(k, d)' = MovesUpTo(n, d)'
          /\ n # p => Average(k, d)' = Average(n, d) * (p - 1) + Move(k, d)' * Power(p, n - p)
  <2> SUFFICES ASSUME n >= p, NEW d \in {1, -1}
               PROVE  /\ Average(k, d)' \in Nat
                      /\ n = p => Average(k, d)' = MovesUpTo(n, d)'
                      /\ n # p => Average(k, d)' = Average(n, d) * (p - 1) + Move(k, d)' * Power(p, n - p)
    OBVIOUS
  <2>1. ( made.p1 = p /\ (\A i \in 1 .. n + 1 : Close(i) \in Int) =>
             /\ Average(n + 1, d) \in Nat
             /\ IF n = p THEN Average(n + 1, d) = MovesUpTo(p, d)
                ELSE Average(n + 1, d) = Average(n, d) * (p - 1) + Move(n + 1, d) * Power(p, n - p) )'
    BY <1>1, NextAverage
  <2>2. n # p => Average(n, d)' = Average(n, d)
    <3>1. n # p => n \in 1 .. n /\ p + 1 <= n
      BY <1>1
    <3> QED
      BY <1>1, <1>2, <3>1, AverageStays
  <2>3. made.p1' = p
    BY <1>1, <1>2
  <2> QED
    BY <1>3, <1>4, <2>1, <2>2, <2>3
<1>13. \A j \in Nat : Power(p, j) \in Nat /\ Power(p, j + 1) = Power(p, j) * p
  BY PowerNext
<1>14. Power(p, 1) = p
  <2>1. Power(p, 0) = 1 /\ Power(p, 0 + 1) = Power(p, 0) * p
    BY PowerNext
  <2> QED
    BY <2>1
<1>15. CASE n = 0
  <2>1. RsiFirst(m)
    <3>1. ~(n > 0) /\ ~(n > p)
      BY <1>1, <1>15
    <3> QED
      BY <1>6, <3>1 DEF Rsi, RsiWarmUp, RsiTrades
  <2>2. Silent /\ st' = [st EXCEPT !.prev_close = m.close, !.bars_seen = 1]
    BY <2>1 DEF RsiFirst
  <2>3. /\ st'.prev_close = m.close /\ st'.bars_seen = 1 /\ st'.avg_gain = st.avg_gain
        /\ st'.avg_loss = st.avg_loss /\ st'.warmed_up = st.warmed_up
    BY <1>5, <2>2
  <2>4. k = 1 /\ n < p /\ ~(n >= p) /\ ~(n > p) /\ ~(k > p + 1)
    BY <1>3, <1>15
  <2>5. Then(1) = st.avg_gain /\ Then(-1) = st.avg_loss
    BY <1>6, <1>11, <1>15, <2>4
  <2> HIDE DEF Then
  <2>6. RsiKept'
    BY <1>6, <1>7, <2>3, <2>4, <2>5
  <2>7. Answers(k, h)
    BY <1>8, <2>2, <2>4, SilenceAnswers
  <2> QED
    BY <1>3, <2>6, <2>7
<1>16. CASE n # 0 /\ n <= p
  <2>1. RsiWarmUp(m)
    <3>1. ~(n > p)
      BY <1>1, <1>16
    <3> QED
      BY <1>6, <1>16, <3>1 DEF Rsi, RsiFirst, RsiTrades
  <2> DEFINE full == st.bars_seen = made.p1
             More(avg, x) == [num |-> avg.num + x, den |-> IF full THEN made.p1 ELSE 1]
  <2>2. /\ Silent
        /\ st' = [prev_close |-> m.close, bars_seen |-> st.bars_seen + 1, warmed_up |-> full,
                  avg_gain |-> More(st.avg_gain, Gain(change)),
                  avg_loss |-> More(st.avg_loss, Gain(-change))]
    BY <2>1, Zenon DEF RsiWarmUp, change
  <2>3. /\ st'.prev_close = m.close /\ st'.bars_seen = k /\ st'.warmed_up = full
        /\ st'.avg_gain = More(st.avg_gain, Gain(change))
        /\ st'.avg_loss = More(st.avg_loss, Gain(-change))
    BY <1>3, <1>6, <2>2
  <2>4. full <=> n = p
    BY <1>2, <1>6
  <2>5. full \in BOOLEAN
    OBVIOUS
  <2> HIDE DEF full
  <2>6. \A d \in {1, -1} : [num |-> MovesUpTo(n - 1, d) + Move(k, d)', den |-> IF n = p THEN p ELSE 1] = Then(d)
    <3> SUFFICES ASSUME NEW d \in {1, -1}
                 PROVE  [num |-> MovesUpTo(n - 1, d) + Move(k, d)', den |-> IF n = p THEN p ELSE 1] = Then(d)
      OBVIOUS
    <3>1. MovesUpTo(n, d)' = MovesUpTo(n - 1, d) + Move(k, d)'
      BY <1>11, <1>16
    <3>2. CASE n = p
      <4>1. k - p = 1 /\ ~(n < p) /\ n >= p
        BY <1>1, <1>3, <3>2
      <4> QED
        BY <1>12, <1>14, <3>1, <3>2, <4>1
    <3>3. CASE n # p
      <4>1. n < p
        BY <1>1, <1>16, <3>3
      <4> QED
        BY <3>1, <3>3, <4>1
    <3> QED
      BY <3>2, <3>3
  <2>7. /\ st.avg_gain.num = MovesUpTo(n - 1, 1) /\ st.avg_loss.num = MovesUpTo(n - 1, -1)
    BY <1>6, <1>16
  <2>8. /\ Gain(change) = Move(k, 1)' /\ Gain(-change) = Move(k, -1)'
    BY <1>9, <1>10, <1>16
  <2>9. st'.avg_gain = Then(1) /\ st'.avg_loss = Then(-1)
    <3> HIDE DEF Then
    <3> QED
      BY <1>2, <2>3, <2>4, <2>6, <2>7, <2>8
  <2>10. full <=> n >= p
    BY <1>1, <1>16, <2>4
  <2> HIDE DEF Then, More
  <2>11. RsiKept'
    BY <1>7, <2>3, <2>5, <2>9, <2>10
  <2>12. ~(k > p + 1)
    BY <1>1, <1>3, <1>16
  <2>13. Answers(k, h)
    BY <1>8, <2>2, <2>12, SilenceAnswers
  <2> QED
    BY <1>3, <2>11, <2>13
<1>17. CASE n > p
  <2>1. RsiTrades(m)
    <3>1. n # 0
      BY <1>1, <1>17
    <3> QED
      BY <1>6, <1>17, <3>1 DEF Rsi, RsiFirst, RsiWarmUp
  <2>2. /\ st' = [st EXCEPT !.prev_close = m.close, !.bars_seen = @ + 1,
                            !.avg_gain = Wilder(@, Gain(change), made.p1),
                            !.avg_loss = Wilder(@, Gain(-change), made.p1)]
        /\ IF NoLoss(change, st'.avg_loss)
             THEN Silent
             ELSE Decide(1000 * st'.avg_gain.num < 300 * (st'.avg_gain.num + st'.avg_loss.num),
                         1000 * st'.avg_gain.num > made.fp * (st'.avg_gain.num + st'.avg_loss.num))
    BY <2>1, Zenon DEF RsiTrades, change
  <2>3. /\ st'.prev_close = m.close /\ st'.bars_seen = k /\ st'.warmed_up = st.warmed_up
        /\ st'.avg_gain = Wilder(st.avg_gain, Gain(change), p)
        /\ st'.avg_loss = Wilder(st.avg_loss, Gain(-change), p)
    BY <1>2, <1>3, <1>5, <1>6, <2>2
  <2>4. n # 0 /\ ~(n <= p) /\ ~(n < p) /\ n >= p /\ n # p /\ k > p + 1 /\ n - p \in Nat /\ k - p = (n - p) + 1
    BY <1>1, <1>3, <1>17
  <2>5. /\ Gain(change) = Move(k, 1)' /\ Gain(-change) = Move(k, -1)'
    BY <1>9, <1>10, <2>4
  <2>6. /\ st.avg_gain = [num |-> Average(n, 1), den |-> Power(p, n - p)]
        /\ st.avg_loss = [num |-> Average(n, -1), den |-> Power(p, n - p)]
    BY <1>6, <2>4
  <2>7. \A d \in {1, -1} : Wilder([num |-> Average(n, d), den |-> Power(p, n - p)], Move(k, d)', p)
                            = [num |-> Average(k, d)', den |-> Power(p, k - p)]
    <3> SUFFICES ASSUME NEW d \in {1, -1}
                 PROVE  Wilder([num |-> Average(n, d), den |-> Power(p, n - p)], Move(k, d)', p)
                            = [num |-> Average(k, d)', den |-> Power(p, k - p)]
      OBVIOUS
    <3>1. Average(k, d)' = Average(n, d) * (p - 1) + Move(k, d)' * Power(p, n - p)
      BY <1>12, <2>4
    <3>2. Power(p, k - p) = p * Power(p, n - p)
      <4>1. Power(p, (n - p) + 1) = Power(p, n - p) * p /\ Power(p, n - p) \in Nat
        BY <1>13, <2>4
      <4>2. Power(p, n - p) * p = p * Power(p, n - p)
        BY <4>1
      <4> QED
        BY <2>4, <4>1, <4>2
    <3> QED
      BY <3>1, <3>2 DEF Wilder
  <2>8. /\ st'.avg_gain = [num |-> Average(k, 1)', den |-> Power(p, k - p)]
        /\ st'.avg_loss = [num |-> Average(k, -1)', den |-> Power(p, k - p)]
    BY <2>3, <2>5, <2>6, <2>7
  <2>9. RsiKept'
    <3>1. st'.avg_gain = Then(1) /\ st'.avg_loss = Then(-1)
      BY <2>4, <2>8
    <3> HIDE DEF Then
    <3> QED
      BY <1>6, <1>7, <1>17, <2>3, <2>4, <3>1
  <2> DEFINE gain == st'.avg_gain.num
             loss == st'.avg_loss.num
             enter == 1000 * gain < 300 * (gain + loss)
             leave == 1000 * gain > made.fp * (gain + loss)
  <2>10. gain = Average(k, 1)' /\ loss = Average(k, -1)' /\ gain \in Nat /\ loss \in Nat
    BY <1>12, <2>4, <2>8
  <2>11. IF loss = 0 THEN Silent ELSE Decide(enter, leave)
    BY <2>2, Zenon DEF NoLoss
  <2> HIDE DEF gain, loss
  <2>12. enter \in BOOLEAN /\ leave \in BOOLEAN
    OBVIOUS
  <2>13. /\ Enters(k, h)' <=> loss > 0 /\ enter
         /\ Leaves(k)' <=> loss > 0 /\ leave
    BY <1>1, <1>8, <2>4, <2>10
  <2> HIDE DEF enter, leave
  <2>14. loss > 0 <=> loss # 0
    BY <2>10
  <2>15. CASE loss = 0
    <3>1. Silent /\ ~Enters(k, h)' /\ ~Leaves(k)'
      BY <2>11, <2>13, <2>14, <2>15, Zenon
    <3>2. Answers(k, h)
      BY <3>1, SilenceAnswers
    <3> QED
      BY <1>3, <2>9, <3>2
  <2>16. CASE loss # 0
    <3>1. /\ Decide(enter, leave)
          /\ enter <=> Enters(k, h)'
          /\ leave <=> Leaves(k)'
      BY <2>11, <2>13, <2>14, <2>16, Zenon
    <3>2. Answers(k, h)
      BY <2>12, <3>1, DecisionAnswers
    <3> QED
      BY <1>3, <2>9, <3>2
  <2> QED
    BY <2>15, <2>16
<1>18. n = 0 \/ (n # 0 /\ n <= p) \/ n > p
  BY <1>1
<1> QED
  BY <1>15, <1>16, <1>17, <1>18

-----------------------------------------------------------------------------
(* The rule of every strategy *)

\* The members of a strategy are what the whole history makes of them.
Kept ==
  /\ WindowsKept /\ ChannelKept /\ OrbKept
  /\ VwapKept /\ AveragesKept /\ RsiKept

\* The position and the signal after the n-th bar, by positions so far.
Shown(h, n) ==
  /\ in_position = h[n]
  /\ n > 0 => signals = IF h[n] = h[n - 1] THEN <<>>
                        ELSE IF h[n] THEN <<"LONG">> ELSE <<"EXIT">>

\* The members are kept, some function tells the positions by the rules, and any
\* that does tells the strategy's own.
FollowInv ==
  SmaIsInBounds =>
    /\ Kept
    /\ \E h : HeldBy(h, Len(history))
    /\ \A h : HeldBy(h, Len(history)) => PullbackKept(h) /\ Shown(h, Len(history))

\* A bar keeps the members of the strategy it is given to.
LEMMA BarFollows ==
  ASSUME NEW n, NEW m, Grown(n, m), SmaIsInBounds, DOMAIN st = DOMAIN Blank(made.name),
         in_position \in BOOLEAN, Kept, OnMarketEvent(m),
         NEW h, PullbackKept(h), in_position <=> h[n], n = 0 => ~in_position
  PROVE  Kept' /\ PullbackKept(h)' /\ Answers(n + 1, h)
<1>1. made' = made
  BY DEF Grown
<1>2. /\ made.name # "pullback" => PullbackKept(h)'
      /\ made.name \notin {"sma", "mean_reversion", "momentum"} => WindowsKept'
      /\ made.name # "breakout" => ChannelKept'
      /\ made.name # "orb" => OrbKept'
      /\ made.name # "vwap" => VwapKept'
      /\ made.name \notin {"scalping", "pullback"} => AveragesKept'
      /\ made.name # "rsi" => RsiKept'
  <2>1. /\ made.name # "pullback" => PullbackKept(h)'
        /\ made.name # "breakout" => ChannelKept'
        /\ made.name # "orb" => OrbKept'
        /\ made.name # "vwap" => VwapKept'
        /\ made.name # "rsi" => RsiKept'
    BY <1>1, Zenon DEF PullbackKept, ChannelKept, OrbKept, VwapKept, RsiKept
  <2>2. made.name \notin {"sma", "mean_reversion", "momentum"} => WindowsKept'
    BY <1>1, Zenon DEF WindowsKept
  <2>3. made.name \notin {"scalping", "pullback"} => AveragesKept'
    BY <1>1, Zenon DEF AveragesKept
  <2> QED
    BY <2>1, <2>2, <2>3
<1>3. WindowsKept /\ ChannelKept /\ OrbKept /\ VwapKept /\ AveragesKept /\ RsiKept
  BY DEF Kept
<1>4. CASE made.name = "sma" /\ SmaCross(m)
  BY <1>2, <1>3, <1>4, SmaFollows DEF Kept
<1>5. CASE made.name = "rsi" /\ Rsi(m)
  BY <1>2, <1>3, <1>5, RsiFollows DEF Kept
<1>6. CASE made.name = "mean_reversion" /\ MeanReversion(m)
  BY <1>2, <1>3, <1>6, MeanReversionFollows DEF Kept
<1>7. CASE made.name = "momentum" /\ Momentum(m)
  BY <1>2, <1>3, <1>7, MomentumFollows DEF Kept
<1>8. CASE made.name = "scalping" /\ Scalping(m)
  BY <1>2, <1>3, <1>8, ScalpingFollows DEF Kept
<1>9. CASE made.name = "breakout" /\ Breakout(m)
  BY <1>2, <1>3, <1>9, BreakoutFollows DEF Kept
<1>10. CASE made.name = "pullback" /\ Pullback(m)
  BY <1>2, <1>3, <1>10, PullbackFollows DEF Kept
<1>11. CASE made.name = "vwap" /\ Vwap(m)
  BY <1>2, <1>3, <1>11, VwapFollows DEF Kept
<1>12. CASE made.name = "orb" /\ Orb(m)
  BY <1>2, <1>3, <1>12, OrbFollows DEF Kept
<1> QED
  BY <1>4, <1>5, <1>6, <1>7, <1>8, <1>9, <1>10, <1>11, <1>12, Zenon DEF OnMarketEvent

\* A strategy that answers a bar by its rules is where they put it.
LEMMA AnswersShow ==
  ASSUME NEW n \in Nat, NEW h, HeldBy(h, n + 1)', Answers(n + 1, h),
         in_position \in BOOLEAN, in_position = h[n]
  PROVE  Shown(h, n + 1)'
<1>1. /\ \A i \in 1 .. n + 1 : h[i] <=> IF h[i - 1] THEN ~Leaves(i)' ELSE Enters(i, h)'
      /\ \A i \in 0 .. n + 1 : h[i] \in BOOLEAN
  <2>1. n + 1 \in Nat
    OBVIOUS
  <2> QED
    BY <2>1, NextHeldSteps
<1>2. PICK enter \in BOOLEAN, leave \in BOOLEAN :
        Decide(enter, leave) /\ (enter <=> Enters(n + 1, h)') /\ (leave <=> Leaves(n + 1)')
  BY DEF Answers
<1>3. h[n + 1] <=> IF h[n] THEN ~leave ELSE enter
  <2>1. n + 1 \in 1 .. n + 1 /\ n + 1 - 1 = n
    OBVIOUS
  <2>2. h[n + 1] <=> IF h[n] THEN ~Leaves(n + 1)' ELSE Enters(n + 1, h)'
    BY <1>1, <2>1
  <2> QED
    BY <1>2, <2>2
<1>4. h[n + 1] \in BOOLEAN /\ h[n] \in BOOLEAN
  BY <1>1
<1>5. /\ in_position' = h[n + 1]
      /\ signals' = IF h[n + 1] = h[n] THEN <<>> ELSE IF h[n + 1] THEN <<"LONG">> ELSE <<"EXIT">>
  <2>1. CASE in_position
    BY <1>2, <1>3, <1>4, <2>1 DEF Decide, Silent
  <2>2. CASE ~in_position
    BY <1>2, <1>3, <1>4, <2>2 DEF Decide, Silent
  <2> QED
    BY <2>1, <2>2
<1>6. n + 1 - 1 = n
  OBVIOUS
<1> QED
  BY <1>5, <1>6 DEF Shown

\* A window of nothing is empty.
LEMMA RecentOfNone == ASSUME NEW size \in Nat PROVE Recent(<<>>, size) = <<>>
<1>1. <<>> \in Seq(Int) /\ Len(<<>>) = 0
  OBVIOUS
<1>2. /\ Recent(<<>>, size) \in Seq(Int)
      /\ Len(Recent(<<>>, size)) = Shorter(0, size)
  BY <1>1, RecentAre
<1>3. Shorter(0, size) = 0
  BY DEF Shorter
<1> QED
  BY <1>1, <1>2, <1>3, EmptySeq

\* Before the first bar every member is blank, and no position is held.
LEMMA StartFollows == ASSUME Init PROVE FollowInv
<1>1. /\ history = <<>> /\ st = Blank(made.name) /\ in_position = FALSE
      /\ Len(history) = 0 /\ DOMAIN history = {}
      /\ made.p1 \in Nat \ {0} /\ made.p2 \in Nat \ {0}
  BY MadeWell DEF Init
<1>2. /\ Closes = <<>> /\ Highs = <<>> /\ Lows = <<>> /\ Volumes = <<>> /\ Paid = <<>>
  BY <1>1 DEF Closes, Highs, Lows, Volumes, Paid
<1>3. \A size \in Nat : Recent(<<>>, size) = <<>>
  BY RecentOfNone
<1>4. SumOf(<<>>) = 0
  BY SumNext DEF SumOf
<1>5. WindowsKept
  <2>1. made.p1 + 1 \in Nat
    BY <1>1
  <2> QED
    BY <1>1, <1>2, <1>3, <2>1 DEF WindowsKept, Blank
<1>6. ChannelKept
  BY <1>1, <1>2, <1>3 DEF ChannelKept, Blank
<1>7. OrbKept
  BY <1>1 DEF OrbKept, Blank
<1>8. VwapKept
  <2>1. ~WasAboveVwap(0 + 1)
    BY DEF WasAboveVwap
  <2> QED
    BY <1>1, <1>2, <1>3, <1>4, <2>1 DEF VwapKept, Blank
<1>9. AveragesKept
  BY <1>1 DEF AveragesKept, Blank
<1>10. RsiKept
  <2> SUFFICES ASSUME made.name = "rsi" PROVE RsiKept
    BY DEF RsiKept
  <2>1. /\ st.bars_seen = 0 /\ st.warmed_up = FALSE
        /\ st.avg_gain = [num |-> 0, den |-> 1] /\ st.avg_loss = [num |-> 0, den |-> 1]
    BY <1>1 DEF Blank, Fraction
  <2>2. Len(history) = 0 /\ ~(Len(history) > 0) /\ ~(Len(history) > made.p1)
    BY <1>1
  <2> QED
    BY <2>1, <2>2, Zenon DEF RsiKept
<1>11. \E h : HeldBy(h, 0)
  <2>1. PICK h : h = [i \in 0 .. 0 |-> FALSE]
    OBVIOUS
  <2>2. h = [i \in 0 .. 0 |-> h[i]] /\ h[0] = FALSE /\ \A i \in 0 .. 0 : h[i] \in BOOLEAN
    BY <2>1
  <2>3. 1 .. 0 = {}
    OBVIOUS
  <2> QED
    BY <2>2, <2>3, HeldWhen
<1>12. ASSUME NEW h, HeldBy(h, 0) PROVE PullbackKept(h) /\ Shown(h, 0)
  <2>1. h[0] = FALSE
    BY <1>12, HeldSteps
  <2>2. made.name = "pullback" => st.had_pullback = FALSE
    BY <1>1 DEF Blank
  <2>3. ~Dipped(0, h)
    BY DEF Dipped
  <2>4. PullbackKept(h)
    <3>1. ~Dipped(Len(history), h)
      BY <1>1, <2>3
    <3> QED
      BY <2>2, <3>1, Zenon DEF PullbackKept
  <2>5. Shown(h, 0)
    <3>1. ~(0 > 0)
      OBVIOUS
    <3> QED
      BY <1>1, <2>1, <3>1, Zenon DEF Shown
  <2> QED
    BY <2>4, <2>5
<1> QED
  BY <1>1, <1>5, <1>6, <1>7, <1>8, <1>9, <1>10, <1>11, <1>12 DEF FollowInv, Kept

\* One more bar: the members, the positions and the signal follow.
LEMMA BarKeepsFollowing ==
  ASSUME NEW n, NEW m, Grown(n, m), OnMarketEvent(m), SmaIsInBounds, FollowInv,
         DOMAIN st = DOMAIN Blank(made.name), in_position \in BOOLEAN
  PROVE  /\ Kept'
         /\ \E h : HeldBy(h, n + 1)'
         /\ \A h : HeldBy(h, n + 1)' => PullbackKept(h)' /\ Shown(h, n + 1)'
<1>1. n \in Nat /\ n = Len(history) /\ made' = made
  BY HistoryGrows DEF Grown
<1>2. PICK g : HeldBy(g, n)
  BY <1>1 DEF FollowInv
<1>3. PICK f : HeldBy(f, n + 1)'
  BY <1>2, HeldExtends
<1>4. ASSUME NEW h, HeldBy(h, n + 1)'
      PROVE  Kept' /\ PullbackKept(h)' /\ Shown(h, n + 1)'
  <2>1. PICK e : HeldBy(e, n) /\ \A i \in 0 .. n : e[i] = h[i]
    BY <1>4, HeldRestricts
  <2>2. Kept /\ PullbackKept(e) /\ Shown(e, n)
    BY <1>1, <2>1 DEF FollowInv
  <2>3. n \in 0 .. n /\ e[0] = FALSE
    <3>1. HeldBy(e, n) /\ n \in Nat
      BY <1>1, <2>1
    <3>2. e[0] = FALSE
      BY <3>1, HeldSteps, Zenon
    <3> QED
      BY <3>1, <3>2
  <2>4. in_position = h[n] /\ (n = 0 => ~in_position)
    BY <2>1, <2>2, <2>3 DEF Shown
  <2>5. PullbackKept(h)
    <3>1. Dipped(n, e) <=> Dipped(n, h)
      BY <1>1, <2>1, DippedSame
    <3> QED
      BY <1>1, <2>2, <3>1 DEF PullbackKept
  <2>6. Kept' /\ PullbackKept(h)' /\ Answers(n + 1, h)
    BY <2>2, <2>4, <2>5, BarFollows
  <2>7. Shown(h, n + 1)'
    BY <1>1, <1>4, <2>4, <2>6, AnswersShow
  <2> QED
    BY <2>6, <2>7
<1> QED
  BY <1>3, <1>4

\* At the end of the bars nothing changes.
LEMMA NothingFollows ==
  ASSUME FollowInv, UNCHANGED vars
  PROVE  FollowInv'
<1>1. /\ made' = made /\ in_position' = in_position /\ st' = st
      /\ signals' = signals /\ history' = history
  BY DEF vars
<1> USE <1>1
<1>2. Closes' = Closes /\ Highs' = Highs /\ Lows' = Lows /\ Volumes' = Volumes /\ Paid' = Paid
  BY DEF Closes, Highs, Lows, Volumes, Paid, Close, High, Low, Volume
<1>3. \A i, h : Enters(i, h)' <=> Enters(i, h)
  BY DEF Enters, SmaSign, BelowBand, CloseSum, Closes, Volumes, Paid, Rises, Falls, Average, Move,
         FastAbove, EmaAt, Uptrend, Dips, Traded, AboveVwap, WasAboveVwap, Place, Range1,
         Close, High, Low, Volume
<1>4. \A i : Leaves(i)' <=> Leaves(i)
  BY DEF Leaves, SmaSign, CloseSum, Closes, Volumes, Paid, Rises, Falls, Average, Move,
         FastAbove, EmaAt, Uptrend, Dips, Traded, AboveVwap, WasAboveVwap, Place, Range1,
         Close, High, Low, Volume
<1>5. \A h, n : HeldBy(h, n)' <=> HeldBy(h, n)
  BY <1>3, <1>4 DEF HeldBy
<1>6. \A h, n : Shown(h, n)' <=> Shown(h, n)
  BY DEF Shown
<1>7. \A h : PullbackKept(h)' <=> PullbackKept(h)
  BY DEF PullbackKept, Dipped, Uptrend, Dips, EmaAt, Close
<1>8. Kept' <=> Kept
  <2>1. (WindowsKept' <=> WindowsKept) /\ (ChannelKept' <=> ChannelKept)
    BY <1>2 DEF WindowsKept, ChannelKept
  <2>2. OrbKept' <=> OrbKept
    BY DEF OrbKept, High, Low, Place, Range1
  <2>3. VwapKept' <=> VwapKept
    <3>1. WasAboveVwap(Len(history) + 1)' <=> WasAboveVwap(Len(history) + 1)
      BY DEF WasAboveVwap, Traded, AboveVwap, Paid, Volumes, Close, High, Low, Volume
    <3> QED
      BY <1>2, <3>1 DEF VwapKept
  <2>4. AveragesKept' <=> AveragesKept
    BY DEF AveragesKept, EmaAt, Close
  <2>5. RsiKept' <=> RsiKept
    BY DEF RsiKept, Average, MovesUpTo, Move, Close
  <2> QED
    BY <2>1, <2>2, <2>3, <2>4, <2>5 DEF Kept
<1>9. SmaIsInBounds' <=> SmaIsInBounds
  BY DEF SmaIsInBounds
<1> QED
  BY <1>5, <1>6, <1>7, <1>8, <1>9 DEF FollowInv

\* FollowInv is inductive, with the types of the state.
LEMMA StepFollows ==
  ASSUME IInv, FollowInv, [Next]_vars
  PROVE  FollowInv'
<1>1. CASE NextBar
  <2> SUFFICES ASSUME SmaIsInBounds'
               PROVE  /\ Kept'
                      /\ \E h : HeldBy(h, Len(history))'
                      /\ \A h : HeldBy(h, Len(history))' => PullbackKept(h)' /\ Shown(h, Len(history))'
    BY DEF FollowInv
  <2>1. PICK m \in Bars : OnMarketEvent(m) /\ history' = Append(history, m)
    BY <1>1 DEF NextBar
  <2>2. PICK n : n = Len(history)
    OBVIOUS
  <2>3. Grown(n, m)
    BY <1>1, <2>1, <2>2 DEF Grown, NextBar, IInv, TypeOK
  <2>4. SmaIsInBounds
    BY <2>3 DEF SmaIsInBounds, Grown
  <2>5. DOMAIN st = DOMAIN Blank(made.name) /\ in_position \in BOOLEAN
    BY DEF IInv, TypeOK
  <2>6. Len(history)' = n + 1
    BY <2>3, HistoryGrows
  <2>7. /\ Kept'
        /\ \E h : HeldBy(h, n + 1)'
        /\ \A h : HeldBy(h, n + 1)' => PullbackKept(h)' /\ Shown(h, n + 1)'
    BY <2>1, <2>3, <2>4, <2>5, BarKeepsFollowing
  <2> QED
    BY <2>6, <2>7
<1>2. CASE UNCHANGED vars
  BY <1>2, NothingFollows
<1> QED
  BY <1>1, <1>2 DEF Next, EndOfBars

\* Whatever its parameters and however many bars it is given, each of the nine
\* strategies is in its position, and has just signalled, exactly when the
\* whole history of bars says so by its rule: the windows, running sums,
\* exponential averages, channels, ranges and flags it keeps from bar to bar
\* lose nothing.
THEOREM FollowsRules == Spec => []FollowsItsRule
<1>1. Init => FollowInv
  BY StartFollows
<1>2. IInv /\ FollowInv /\ [Next]_vars => FollowInv'
  BY StepFollows
<1>3. IInv /\ FollowInv => FollowsItsRule
  <2> SUFFICES ASSUME IInv, FollowInv, ~(made.name = "sma" /\ made.p1 > made.p2)
               PROVE  Shown(Held, Len(history))
    BY DEF FollowsItsRule, Shown
  <2>1. SmaIsInBounds
    BY MadeWell DEF SmaIsInBounds, IInv, TypeOK
  <2>2. HeldBy(Held, Len(history))
    BY <2>1, HeldIsHeldBy DEF FollowInv
  <2> QED
    BY <2>1, <2>2 DEF FollowInv
<1> QED
  BY <1>1, <1>2, <1>3, AlwaysIInv, PTL DEF Spec

=============================================================================
