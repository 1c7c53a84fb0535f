--------------------------- MODULE StrategyRules ---------------------------
(***************************************************************************)
(* When each strategy is in its position, read off the whole history of    *)
(* bars, without windows, running sums, running averages or flags: what    *)
(* Strategies computes bar by bar.  The rules are those of the code; where *)
(* the README or a header states another one, a property below says it.    *)
(***************************************************************************)
EXTENDS Strategies

High(i) == history[i].high
Low(i) == history[i].low
Close(i) == history[i].close
Volume(i) == history[i].volume

\* The last k bars up to the n-th, and what a column holds for them.
Latest(n, k) == n - k + 1 .. n
LatestOf(column, n, k) == SubSeq(column, n - k + 1, n)

Closes == [i \in DOMAIN history |-> Close(i)]
Volumes == [i \in DOMAIN history |-> Volume(i)]
Paid == [i \in DOMAIN history |-> (High(i) + Low(i) + Close(i)) * Volume(i)]

CloseSum(n, k) == SumOf(LatestOf(Closes, n, k))

\* sma: the mean of the last fast closes against that of the last slow ones.
SmaSign(n) == made.p2 * CloseSum(n, made.p1) - made.p1 * CloseSum(n, made.p2)

\* The squares of the distances of k numbers from their mean, times k squared.
Deviations(seq) ==
    [i \in DOMAIN seq |-> (Len(seq) * seq[i] - SumOf(seq)) * (Len(seq) * seq[i] - SumOf(seq))]

\* mean_reversion: below the mean by k standard deviations; back at the mean.
BelowBand(n) ==
    LET k == made.p1
        dip == CloseSum(n, k) - k * Close(n)
    IN  /\ dip > 0
        /\ 100 * k * dip * dip > made.fp * made.fp * SumOf(Deviations(LatestOf(Closes, n, k)))

\* momentum: the change over the last period bars, in percent of the oldest;
\* a negative oldest close turns its sign.
Rises(n) ==
    LET oldest == Close(n - made.p1)
        change == 1000 * (Close(n) - oldest)
    IN  \/ oldest > 0 /\ change > made.fp * oldest
        \/ oldest < 0 /\ change < made.fp * oldest
        \/ oldest = 0 /\ Close(n) > 0
Falls(n) ==
    LET oldest == Close(n - made.p1)
        change == 1000 * (Close(n) - oldest)
    IN  \/ oldest > 0 /\ -change > made.fp * oldest
        \/ oldest < 0 /\ -change < made.fp * oldest
        \/ oldest = 0 /\ Close(n) < 0

\* rsi: Wilder's average of the moves of one direction, times period^(n - period).
Move(i, direction) == Gain(direction * (Close(i) - Close(i - 1)))
Average(n, direction) ==
    LET p == made.p1
        first == [i \in 1 .. p |-> Move(i + 1, direction)]
        late == [i \in 1 .. n - p - 1 |->
                   Move(p + 1 + i, direction) * Power(p, i) * Power(p - 1, n - p - 1 - i)]
    IN  SumOf(first) * Power(p - 1, n - p - 1) + SumOf(late)

\* An exponential average, spelled out.
EmaAt(n, p) ==
    LET weighed == [i \in 1 .. n - 1 |->
                      2 * Close(i + 1) * Power(p + 1, i - 1) * Power(p - 1, n - 1 - i)]
    IN  [num |-> Close(1) * Power(p - 1, n - 1) + SumOf(weighed), den |-> Power(p + 1, n - 1)]

FastAbove(n) == Above(EmaAt(n, made.p1), EmaAt(n, made.p2))

\* pullback: the close against the trend's average and the pullback's.
Uptrend(n) == Above(Fraction(Close(n)), EmaAt(n, made.p1))
Dips(n) == Above(EmaAt(n, made.p2), Fraction(Close(n)))

\* vwap: the close against the window's volume-weighted price, on bars whose
\* window is full and was traded in.
Traded(n) == n >= made.p1 /\ \E i \in Latest(n, made.p1) : Volume(i) > 0
AboveVwap(n) ==
    3 * Close(n) * SumOf(LatestOf(Volumes, n, made.p1)) > SumOf(LatestOf(Paid, n, made.p1))
WasAboveVwap(n) ==
    \E i \in 1 .. n - 1 : /\ Traded(i) /\ AboveVwap(i)
                          /\ \A j \in i + 1 .. n - 1 : ~Traded(j)

\* orb: the place of a bar in its cycle, and the bars of that cycle's range.
Place(n) == ((n - 1) % made.p2) + 1
Range1(n) == n - Place(n) + 1 .. n - Place(n) + made.p1

-----------------------------------------------------------------------------

\* Whether the n-th bar makes the strategy enter, being out, or leave, being
\* in; held[i] tells whether it was in its position after the i-th bar.
Enters(n, held) ==
    CASE made.name = "sma" -> n >= made.p2 /\ SmaSign(n) > 0
      [] made.name = "mean_reversion" -> n >= made.p1 /\ BelowBand(n)
      [] made.name = "momentum" -> n > made.p1 /\ Rises(n)
      [] made.name = "rsi" ->
           /\ n > made.p1 + 1 /\ Average(n, -1) > 0
           /\ 1000 * Average(n, 1) < 300 * (Average(n, 1) + Average(n, -1))
      [] made.name = "scalping" ->
           n > 1 /\ n >= made.p2 /\ ~FastAbove(n - 1) /\ FastAbove(n)
      [] made.name = "pullback" ->
           /\ n > 1 /\ n >= made.p1
           /\ \E i \in 2 .. n :
                /\ i >= made.p1 /\ Dips(i)
                /\ \A j \in i .. n : Uptrend(j) /\ ~held[j - 1]
           /\ Above(Fraction(Close(n)), EmaAt(n, made.p2))
           /\ ~Above(EmaAt(n - 1, made.p2), Fraction(Close(n)))
      [] made.name = "breakout" ->
           n > made.p1 /\ \A i \in Latest(n - 1, made.p1) : Close(n) > High(i)
      [] made.name = "vwap" -> Traded(n) /\ AboveVwap(n) /\ ~WasAboveVwap(n)
      [] made.name = "orb" ->
           Place(n) > made.p1 /\ \A i \in Range1(n) : Close(n) > High(i)

Leaves(n) ==
    CASE made.name = "sma" -> n >= made.p2 /\ SmaSign(n) < 0
      [] made.name = "mean_reversion" ->
           n >= made.p1 /\ made.p1 * Close(n) >= CloseSum(n, made.p1)
      [] made.name = "momentum" -> n > made.p1 /\ Falls(n)
      [] made.name = "rsi" ->
           /\ n > made.p1 + 1 /\ Average(n, -1) > 0
           /\ 1000 * Average(n, 1) > made.fp * (Average(n, 1) + Average(n, -1))
      [] made.name = "scalping" ->
           n > 1 /\ n >= made.p2 /\ FastAbove(n - 1) /\ ~FastAbove(n)
      [] made.name = "pullback" -> n > 1 /\ n >= made.p1 /\ ~Uptrend(n)
      [] made.name = "breakout" ->
           n > made.p1 /\ \A i \in Latest(n - 1, made.p1) : Close(n) < Low(i)
      [] made.name = "vwap" -> Traded(n) /\ ~AboveVwap(n) /\ WasAboveVwap(n)
      [] made.name = "orb" ->
           \/ Place(n) = 1
           \/ Place(n) > made.p1 /\ \A i \in Range1(n) : Close(n) < Low(i)

Held ==
    LET held[n \in 0 .. Len(history)] ==
          n > 0 /\ IF held[n - 1] THEN ~Leaves(n) ELSE Enters(n, held)
    IN  held

\* The incremental computation of every strategy is its rule: it is in its
\* position, and has just signalled, exactly when the whole history says so.
\* (Of sma with fast > slow the code promises nothing: it reads out of bounds.)
FollowsItsRule ==
    ~(made.name = "sma" /\ made.p1 > made.p2) =>
      LET n == Len(history)
          held == Held
      IN  /\ in_position = held[n]
          /\ n > 0 => signals = IF held[n] = held[n - 1] THEN <<>>
                                ELSE IF held[n] THEN <<"LONG">> ELSE <<"EXIT">>

-----------------------------------------------------------------------------
(* What the README says of sma, whatever its periods *)

\* sma: "LONG when fast > slow" (README.md:177), whichever period is the longer
\* one: the means are of bars there were.
SmaBuysOnFastAbove ==
    made.name = "sma" /\ signals = <<"LONG">> =>
      /\ Len(history) >= made.p1 /\ Len(history) >= made.p2
      /\ SmaSign(Len(history)) > 0

=============================================================================
