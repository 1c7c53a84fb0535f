----------------------------- MODULE Strategies -----------------------------
(***************************************************************************)
(* src/strategy/: the nine strategies behind IStrategy, one action each,   *)
(* and make_strategy(), which picks one.                                   *)
(*                                                                         *)
(* Prices are whole numbers and fparam counts tenths.  What the code       *)
(* divides to compare is compared multiplied out, and the exponential      *)
(* averages are fractions: the doubles without their rounding.             *)
(***************************************************************************)
EXTENDS Sums, Sequences, FiniteSetsExt, SequencesExt

CONSTANTS
    Args,       \* the arguments of make_strategy(): [name, p1, p2, fp]
    Bars,       \* the bars a strategy may be given: [high, low, close, volume]
    Infinity,   \* more than any price
    MaxBars     \* bound: the most bars it is given

Price == -Infinity + 1 .. Infinity - 1

\* What make_strategy() puts in the place of parameters that are not positive
\* (1 for those the strategy does not have).
Defaults == [
    sma            |-> [p1 |-> 10, p2 |-> 30, fp |-> 1],
    rsi            |-> [p1 |-> 14, p2 |-> 1,  fp |-> 700],
    mean_reversion |-> [p1 |-> 20, p2 |-> 1,  fp |-> 20],
    momentum       |-> [p1 |-> 10, p2 |-> 1,  fp |-> 10],
    scalping       |-> [p1 |-> 5,  p2 |-> 13, fp |-> 1],
    breakout       |-> [p1 |-> 20, p2 |-> 1,  fp |-> 1],
    pullback       |-> [p1 |-> 50, p2 |-> 10, fp |-> 1],
    vwap           |-> [p1 |-> 20, p2 |-> 1,  fp |-> 1],
    orb            |-> [p1 |-> 5,  p2 |-> 30, fp |-> 1] ]

Name == DOMAIN Defaults

ASSUME StrategiesAssumption ==
    /\ Args \subseteq [name : Name, p1 : Int, p2 : Int, fp : Int]
    /\ Infinity \in Nat
    /\ Bars \subseteq [high : Price, low : Price, close : Price, volume : Nat]
    /\ MaxBars \in Nat

OrDefault(param, default) == IF param > 0 THEN param ELSE default

\* make_strategy(), for the names it knows.
Make(a) ==
    LET d == Defaults[a.name]
    IN  [name |-> a.name, p1 |-> OrDefault(a.p1, d.p1), p2 |-> OrDefault(a.p2, d.p2),
         fp |-> OrDefault(a.fp, d.fp)]

VARIABLES
    made,           \* the strategy and its parameters
    in_position,
    st,             \* its other members
    signals,        \* what the latest on_market_event() pushed
    history         \* history: the bars so far, which no strategy keeps

vars == <<made, in_position, st, signals, history>>

Fraction(n) == [num |-> n, den |-> 1]

Blank(name) ==
    CASE name \in {"sma", "mean_reversion", "momentum"} -> [prices |-> <<>>]
      [] name = "rsi" -> [prev_close |-> 0, avg_gain |-> Fraction(0), avg_loss |-> Fraction(0),
                          bars_seen |-> 0, warmed_up |-> FALSE]
      [] name = "scalping" -> [fast_ema |-> Fraction(0), slow_ema |-> Fraction(0), bars_seen |-> 0]
      [] name = "pullback" -> [had_pullback |-> FALSE, trend_ema |-> Fraction(0),
                               pullback_ema |-> Fraction(0), bars_seen |-> 0]
      [] name = "breakout" -> [highs |-> <<>>, lows |-> <<>>, channel_high |-> 0,
                               channel_low |-> 0, channel_ready |-> FALSE]
      [] name = "vwap" -> [prev_above |-> FALSE, tp_vol |-> <<>>, volumes |-> <<>>,
                           sum_tp_vol |-> 0, sum_vol |-> 0]
      [] name = "orb" -> [range_high |-> -Infinity, range_low |-> Infinity, bar_in_cycle |-> 0]

Init ==
    /\ made \in { Make(a) : a \in Args }
    /\ in_position = FALSE
    /\ st = Blank(made.name)
    /\ signals = <<>>
    /\ history = <<>>

-----------------------------------------------------------------------------
(* What the strategies share *)

Silent ==
    /\ signals' = <<>>
    /\ UNCHANGED in_position

\* LONG on enter when out of the position; else EXIT on exit when in it.
\* Faulty variant: an EXIT does not lower the flag.
DecideForgets(enter, exit) ==
    /\ signals' = IF ~in_position /\ enter THEN <<"LONG">>
                  ELSE IF in_position /\ exit THEN <<"EXIT">> ELSE <<>>
    /\ in_position' = (in_position \/ enter)

Decide(enter, exit) ==
    \/ /\ ~in_position /\ enter
       /\ signals' = <<"LONG">> /\ in_position' = TRUE
    \/ /\ in_position /\ exit
       /\ signals' = <<"EXIT">> /\ in_position' = FALSE
    \/ /\ ~(~in_position /\ enter) /\ ~(in_position /\ exit)
       /\ Silent

\* push_back(), and pop_front() beyond n.  Faulty variant: one too late.
SlideLate(window, x, n) ==
    IF Len(window) > n THEN Tail(Append(window, x)) ELSE Append(window, x)

Slide(window, x, n) ==
    IF Len(window) >= n THEN Tail(Append(window, x)) ELSE Append(window, x)

SumOf(seq) == SumTo(seq, Len(seq))
Squares(seq) == [i \in DOMAIN seq |-> seq[i] * seq[i]]

\* alpha * x + (1 - alpha) * ema, with alpha = 2 / (period + 1)
Ema(ema, x, period) ==
    [num |-> 2 * x * ema.den + (period - 1) * ema.num, den |-> (period + 1) * ema.den]

\* Wilder's (avg * (period - 1) + x) / period
Wilder(avg, x, period) ==
    [num |-> avg.num * (period - 1) + x * avg.den, den |-> period * avg.den]

Above(a, b) == a.num * b.den > b.num * a.den

-----------------------------------------------------------------------------
(* Strategies on a window of closes *)

\* slow * (sum of the latest fast closes) - fast * (sum of the slow ones).
\* Of a window shorter than fast, sma() reads what lies before it.
SmaSpreads(prices, fast, slow) ==
    IF fast <= Len(prices)
      THEN {slow * SumOf(SubSeq(prices, Len(prices) - fast + 1, Len(prices))) - fast * SumOf(prices)}
      ELSE {-1, 0, 1}

SmaCross(m) ==
    /\ st' = [prices |-> Slide(st.prices, m.close, made.p2)]
    /\ IF Len(st'.prices) < made.p2
         THEN Silent
         ELSE \E spread \in SmaSpreads(st'.prices, made.p1, made.p2) :
                Decide(spread > 0, spread < 0)

\* close < mean - k * stddev, all of it times the number of closes, squared.
MeanReversion(m) ==
    /\ st' = [prices |-> Slide(st.prices, m.close, made.p1)]
    /\ IF Len(st'.prices) < made.p1
         THEN Silent
         ELSE LET n == made.p1
                  sum == SumOf(st'.prices)
                  dip == sum - n * m.close
                  variance == n * SumOf(Squares(st'.prices)) - sum * sum
              IN  Decide(dip > 0 /\ 100 * dip * dip > made.fp * made.fp * variance, dip <= 0)

\* The rate of change against the threshold, times oldest squared; of an
\* oldest close of 0 it is infinite, or not a number.
Momentum(m) ==
    /\ st' = [prices |-> Slide(st.prices, m.close, made.p1 + 1)]
    /\ IF Len(st'.prices) < made.p1 + 1
         THEN Silent
         ELSE LET oldest == Head(st'.prices)
                  change == 1000 * (m.close - oldest) * oldest
                  threshold == made.fp * oldest * oldest
              IN  Decide(change > threshold \/ (oldest = 0 /\ m.close > 0),
                         change < -threshold \/ (oldest = 0 /\ m.close < 0))

-----------------------------------------------------------------------------
(* Strategies on running averages *)

Gain(change) == IF change > 0 THEN change ELSE 0

RsiFirst(m) ==
    /\ st.bars_seen = 0
    /\ st' = [st EXCEPT !.prev_close = m.close, !.bars_seen = 1]
    /\ Silent

\* The averages are sums until period of them are in; then they are divided.
RsiWarmUp(m) ==
    /\ st.bars_seen > 0 /\ ~st.warmed_up
    /\ LET change == m.close - st.prev_close
           full == st.bars_seen = made.p1
           More(avg, x) == [num |-> avg.num + x, den |-> IF full THEN made.p1 ELSE 1]
       IN  st' = [prev_close |-> m.close, bars_seen |-> st.bars_seen + 1, warmed_up |-> full,
                  avg_gain |-> More(st.avg_gain, Gain(change)),
                  avg_loss |-> More(st.avg_loss, Gain(-change))]
    /\ Silent

\* Whether the bar is skipped.  Faulty variant: it looks at the bar's own loss.
NoLossThisBar(change, avg_loss) == change >= 0
NoLoss(change, avg_loss) == avg_loss.num = 0

\* RSI is 100 * gain / (gain + loss), the two averages having one denominator.
RsiTrades(m) ==
    /\ st.warmed_up
    /\ LET change == m.close - st.prev_close
       IN  st' = [st EXCEPT !.prev_close = m.close, !.bars_seen = @ + 1,
                            !.avg_gain = Wilder(@, Gain(change), made.p1),
                            !.avg_loss = Wilder(@, Gain(-change), made.p1)]
    /\ LET gain == st'.avg_gain.num
           loss == st'.avg_loss.num
       IN  IF NoLoss(m.close - st.prev_close, st'.avg_loss)
             THEN Silent
             ELSE Decide(1000 * gain < 300 * (gain + loss), 1000 * gain > made.fp * (gain + loss))

Rsi(m) == RsiFirst(m) \/ RsiWarmUp(m) \/ RsiTrades(m)

Scalping(m) ==
    IF st.bars_seen = 0
      THEN /\ st' = [fast_ema |-> Fraction(m.close), slow_ema |-> Fraction(m.close), bars_seen |-> 1]
           /\ Silent
      ELSE /\ st' = [fast_ema |-> Ema(st.fast_ema, m.close, made.p1),
                     slow_ema |-> Ema(st.slow_ema, m.close, made.p2),
                     bars_seen |-> st.bars_seen + 1]
           /\ LET prev_above == Above(st.fast_ema, st.slow_ema)
                  curr_above == Above(st'.fast_ema, st'.slow_ema)
              IN  IF st'.bars_seen < made.p2
                    THEN Silent
                    ELSE Decide(~prev_above /\ curr_above, prev_above /\ ~curr_above)

\* The pullback flag is only kept while the trend is up and no position held.
Pullback(m) ==
    IF st.bars_seen = 0
      THEN /\ st' = [st EXCEPT !.trend_ema = Fraction(m.close), !.pullback_ema = Fraction(m.close),
                               !.bars_seen = 1]
           /\ Silent
      ELSE LET trend == Ema(st.trend_ema, m.close, made.p1)
               pullback == Ema(st.pullback_ema, m.close, made.p2)
               close == Fraction(m.close)
               uptrend == Above(close, trend)
               dipped == st.had_pullback \/ Above(pullback, close)
               enter == uptrend /\ dipped /\ Above(close, pullback) /\ ~Above(st.pullback_ema, close)
               warm == st.bars_seen + 1 >= made.p1
               had_pullback == IF ~warm THEN st.had_pullback
                               ELSE IF in_position THEN uptrend /\ st.had_pullback
                               ELSE uptrend /\ dipped /\ ~enter
           IN  /\ st' = [trend_ema |-> trend, pullback_ema |-> pullback,
                         bars_seen |-> st.bars_seen + 1, had_pullback |-> had_pullback]
               /\ IF warm THEN Decide(enter, ~uptrend) ELSE Silent

-----------------------------------------------------------------------------
(* Strategies on highs, lows and volumes *)

\* The channel is the one before this bar.  Faulty variant: this bar is in it.
BreakoutLooksAhead(m) ==
    LET highs == Slide(st.highs, m.high, made.p1)
        lows == Slide(st.lows, m.low, made.p1)
        full == Len(highs) = made.p1
    IN  /\ st' = [highs |-> highs, lows |-> lows,
                  channel_high |-> IF full THEN Max(ToSet(highs)) ELSE st.channel_high,
                  channel_low |-> IF full THEN Min(ToSet(lows)) ELSE st.channel_low,
                  channel_ready |-> full \/ st.channel_ready]
        /\ IF st'.channel_ready
             THEN Decide(m.close > st'.channel_high, m.close < st'.channel_low)
             ELSE Silent

Breakout(m) ==
    LET full == Len(st.highs) = made.p1
    IN  /\ st' = [highs |-> Slide(st.highs, m.high, made.p1),
                  lows |-> Slide(st.lows, m.low, made.p1),
                  channel_high |-> IF full THEN Max(ToSet(st.highs)) ELSE st.channel_high,
                  channel_low |-> IF full THEN Min(ToSet(st.lows)) ELSE st.channel_low,
                  channel_ready |-> full \/ st.channel_ready]
        /\ IF st'.channel_ready
             THEN Decide(m.close > st'.channel_high, m.close < st'.channel_low)
             ELSE Silent

\* Three times the typical price, so that the sums are whole.  A bar that
\* returns early leaves prev_above_ as it was.
Vwap(m) ==
    LET tp_vol == (m.high + m.low + m.close) * m.volume
        full == Len(st.tp_vol) >= made.p1
        sum_tp_vol == st.sum_tp_vol + tp_vol - (IF full THEN Head(st.tp_vol) ELSE 0)
        sum_vol == st.sum_vol + m.volume - (IF full THEN Head(st.volumes) ELSE 0)
        volumes == Slide(st.volumes, m.volume, made.p1)
        trades == Len(volumes) >= made.p1 /\ sum_vol # 0
        curr_above == 3 * m.close * sum_vol > sum_tp_vol
    IN  /\ st' = [tp_vol |-> Slide(st.tp_vol, tp_vol, made.p1), volumes |-> volumes,
                  sum_tp_vol |-> sum_tp_vol, sum_vol |-> sum_vol,
                  prev_above |-> IF trades THEN curr_above ELSE st.prev_above]
        /\ IF trades
             THEN Decide(~st.prev_above /\ curr_above, st.prev_above /\ ~curr_above)
             ELSE Silent

\* The first p1 bars of every p2 build the range; the reset exits.  p1 is at
\* least 1, so the bar of a reset is one of them.  Faulty variant: the reset
\* does not exit.
OrbBar(m, AtReset) ==
    LET reset == st.bar_in_cycle >= made.p2
        bar == IF reset THEN 1 ELSE st.bar_in_cycle + 1
        high == IF reset THEN -Infinity ELSE st.range_high
        low == IF reset THEN Infinity ELSE st.range_low
    IN  IF bar <= made.p1
          THEN /\ st' = [bar_in_cycle |-> bar,
                         range_high |-> IF m.high > high THEN m.high ELSE high,
                         range_low |-> IF m.low < low THEN m.low ELSE low]
               /\ IF reset THEN AtReset ELSE Silent
          ELSE /\ st' = [bar_in_cycle |-> bar, range_high |-> high, range_low |-> low]
               /\ Decide(m.close > high, m.close < low)

OrbHolds(m) == OrbBar(m, Silent)

Orb(m) == OrbBar(m, Decide(FALSE, TRUE))

-----------------------------------------------------------------------------

\* on_market_event()
OnMarketEvent(m) ==
    \/ made.name = "sma" /\ SmaCross(m)
    \/ made.name = "rsi" /\ Rsi(m)
    \/ made.name = "mean_reversion" /\ MeanReversion(m)
    \/ made.name = "momentum" /\ Momentum(m)
    \/ made.name = "scalping" /\ Scalping(m)
    \/ made.name = "breakout" /\ Breakout(m)
    \/ made.name = "pullback" /\ Pullback(m)
    \/ made.name = "vwap" /\ Vwap(m)
    \/ made.name = "orb" /\ Orb(m)

NextBar ==
    /\ Len(history) < MaxBars
    /\ \E m \in Bars :
         /\ OnMarketEvent(m)
         /\ history' = Append(history, m)
    /\ UNCHANGED made

EndOfBars == Len(history) = MaxBars /\ UNCHANGED vars

Next == NextBar \/ EndOfBars

Spec == Init /\ [][Next]_vars

-----------------------------------------------------------------------------
(* Properties *)

\* Every strategy keeps its own members, and a window never holds more than
\* its strategy looks back on.
TypeOK ==
    /\ made \in { Make(a) : a \in Args }
    /\ in_position \in BOOLEAN
    /\ signals \in {<<>>, <<"LONG">>, <<"EXIT">>}
    /\ history \in Seq(Bars) /\ Len(history) <= MaxBars
    /\ DOMAIN st = DOMAIN Blank(made.name)
    /\ made.name = "sma" => Len(st.prices) <= made.p2
    /\ made.name = "mean_reversion" => Len(st.prices) <= made.p1
    /\ made.name = "momentum" => Len(st.prices) <= made.p1 + 1
    /\ made.name = "breakout" => Len(st.highs) <= made.p1 /\ Len(st.lows) = Len(st.highs)
    /\ made.name = "vwap" => Len(st.tp_vol) <= made.p1 /\ Len(st.volumes) = Len(st.tp_vol)

\* Each of the nine strategies is what the engine takes a strategy for: one
\* signal a bar at most, LONG and EXIT in turn.
Rule == INSTANCE Signaller WITH inPosition <- in_position

ImplementsSignaller == Rule!Spec

\* The opening-range strategy carries no position into a new cycle, nor takes
\* one while the cycle's range is being built.
FlatInOpeningRange ==
    made.name = "orb" /\ st.bar_in_cycle <= made.p1 => ~in_position

\* "EXIT when RSI rises above overbought" (rsi_strategy.hpp): no bar leaves the
\* RSI strategy in its position with an RSI above that level, 100 included.
\* (With a level below the 30 it enters under, it may be above it on entry.)
LeavesWhenOverbought ==
    made.name = "rsi" /\ made.fp >= 300 /\ st.warmed_up /\ in_position =>
      1000 * st.avg_gain.num <= made.fp * (st.avg_gain.num + st.avg_loss.num)

=============================================================================
