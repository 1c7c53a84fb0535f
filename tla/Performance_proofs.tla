------------------------ MODULE Performance_proofs ------------------------
(***************************************************************************)
(* max_drawdown() finds the worst fall, for every curve of whole amounts:  *)
(* the loop's invariant, and what it gives when the loop has ended; and    *)
(* the four metrics do not contradict each other.                          *)
(***************************************************************************)
EXTENDS Performance, SequenceTheorems, FiniteSetTheorems, WellFoundedInduction, TLAPS

(* The loop's invariant, with n the number of points it has passed. *)

Solvent == \A i \in 1 .. Len(equity_curve) : equity_curve[i] >= 0

\* No fall among the first n points exceeds m,
NoneWorse(m, n) ==
    \A i, j \in 1 .. n :
        i <= j /\ equity_curve[i] > 0 => ~Exceeds(Fall(i, j), m)

\* m is one of them, unless nothing fell,
IsAFall(m, n) ==
    \/ m = Zero
    \/ \E i, j \in 1 .. n : i < j /\ equity_curve[i] > 0 /\ m = Fall(i, j)

\* and m is 100% or more exactly if one of the first n points is not positive.
ShowsRuin(m, n) ==
    m.num >= m.den <=> \E i \in 1 .. n : equity_curve[i] <= 0

Fractions == [num : Int, den : Nat]

IsMaximum(p, n) ==
    /\ p \in Int
    /\ \A i \in 1 .. n : equity_curve[i] <= p
    /\ equity_curve # <<>> =>
         /\ equity_curve[1] <= p
         /\ \E i \in 1 .. Len(equity_curve) : (i <= n \/ i = 1) /\ p = equity_curve[i]

IsDrawdown(m, n) ==
    /\ m \in Fractions /\ m.num >= 0
    /\ Solvent => m.den > 0 /\ NoneWorse(m, n) /\ IsAFall(m, n)
    /\ equity_curve # <<>> /\ equity_curve[1] > 0 => m.den > 0 /\ ShowsRuin(m, n)

CurveInv == equity_curve \in Seq(Int)

LoopInv ==
    pc = "drawdown" =>
      /\ ~Asked
      /\ next \in 1 .. Len(equity_curve) + 1
      /\ IsMaximum(peak, next - 1)
      /\ IsDrawdown(max_dd, next - 1)
      /\ metrics.total_return = TotalReturn

AnswerInv ==
    Asked =>
      /\ IsDrawdown(metrics.max_drawdown, Len(equity_curve))
      /\ metrics.total_return = TotalReturn

Inv ==
    /\ pc \in {"idle", "drawdown"}
    /\ metrics.asked \in BOOLEAN
    /\ CurveInv
    /\ LoopInv
    /\ AnswerInv

-----------------------------------------------------------------------------
(* Fractions *)

\* A common factor keeps an order, and a positive one can be cancelled.
LEMMA ScaleBoth ==
  ASSUME NEW x \in Int, NEW y \in Int, NEW k \in Nat, x <= y
  PROVE  x * k <= y * k
OBVIOUS

LEMMA CancelFactor ==
  ASSUME NEW x \in Int, NEW y \in Int, NEW k \in Nat, k > 0, x * k <= y * k
  PROVE  x <= y
OBVIOUS

\* What does not exceed a fraction does not exceed one that is no smaller.
LEMMA AtMostIsTransitive ==
  ASSUME NEW a \in Fractions, NEW b \in Fractions, NEW c \in Fractions,
         b.den > 0, ~Exceeds(a, b), ~Exceeds(b, c)
  PROVE  ~Exceeds(a, c)
<1> DEFINE an == a.num
           ad == a.den
           bn == b.num
           bd == b.den
           cn == c.num
           cd == c.den
<1>1. an \in Int /\ bn \in Int /\ cn \in Int /\ ad \in Nat /\ bd \in Nat /\ cd \in Nat
  BY DEF Fractions
<1>2. an * bd <= bn * ad /\ bn * cd <= cn * bd /\ bd > 0
  BY <1>1 DEF Exceeds
<1>3. ~(an * cd > cn * ad) => ~Exceeds(a, c)
  BY DEF Exceeds
<1> HIDE DEF an, ad, bn, bd, cn, cd
<1>4. (an * bd) * cd <= (bn * ad) * cd
  BY <1>1, <1>2, ScaleBoth
<1>5. (bn * cd) * ad <= (cn * bd) * ad
  BY <1>1, <1>2, ScaleBoth
<1>6. (an * cd) * bd <= (cn * ad) * bd
  BY <1>1, <1>4, <1>5
<1>7. an * cd <= cn * ad
  BY <1>1, <1>2, <1>6, CancelFactor
<1> QED
  BY <1>1, <1>3, <1>7

\* One of two fractions is at most the other.
LEMMA ExceedsIsStrict ==
  ASSUME NEW a \in Fractions, NEW b \in Fractions, Exceeds(a, b)
  PROVE  ~Exceeds(b, a)
BY DEF Exceeds, Fractions

\* What exceeds a loss, exceeding nothing less than 0, is one.
LEMMA ExceedingIsPositive ==
  ASSUME NEW a \in Fractions, NEW b \in Fractions, b.num >= 0, Exceeds(a, b)
  PROVE  a.num > 0
<1> DEFINE an == a.num
           ad == a.den
           bn == b.num
           bd == b.den
<1>1. an \in Int /\ bn \in Nat /\ ad \in Nat /\ bd \in Nat /\ an * bd > bn * ad
  BY DEF Fractions, Exceeds
<1> HIDE DEF an, ad, bn, bd
<1>2. bn * ad >= 0
  BY <1>1
<1>3. an <= 0 => an * bd <= 0 * bd
  BY <1>1, ScaleBoth
<1>4. an > 0
  BY <1>1, <1>2, <1>3
<1> QED
  BY <1>4 DEF an

\* The greater of two fractions is 1 or more exactly if one of them is.
LEMMA GreaterReachesOne ==
  ASSUME NEW a \in Fractions, NEW b \in Fractions, a.den > 0, b.den > 0,
         NEW m, m = IF Exceeds(a, b) THEN a ELSE b
  PROVE  m.num >= m.den <=> a.num >= a.den \/ b.num >= b.den
<1> DEFINE an == a.num
           ad == a.den
           bn == b.num
           bd == b.den
<1>1. an \in Int /\ bn \in Int /\ ad \in Nat /\ bd \in Nat /\ ad > 0 /\ bd > 0
  BY DEF Fractions
<1>2. Exceeds(a, b) <=> an * bd > bn * ad
  BY DEF Exceeds
<1> HIDE DEF an, ad, bn, bd
<1>3. /\ bn >= bd => bd * ad <= bn * ad
      /\ an <= ad => an * bd <= ad * bd
      /\ an >= ad => ad * bd <= an * bd
      /\ bd * ad <= bn * ad => bd <= bn
  BY <1>1, ScaleBoth, CancelFactor
<1>4. an * bd \in Int /\ bn * ad \in Int /\ ad * bd \in Int /\ ad * bd = bd * ad
  BY <1>1
<1>5. CASE Exceeds(a, b)
  <2>1. bn >= bd => an >= ad
    BY <1>1, <1>2, <1>3, <1>4, <1>5
  <2> QED
    BY <1>5, <2>1 DEF an, ad, bn, bd
<1>6. CASE ~Exceeds(a, b)
  <2>1. an >= ad => bn >= bd
    BY <1>1, <1>2, <1>3, <1>4, <1>6
  <2> QED
    BY <1>6, <2>1 DEF an, ad, bn, bd
<1> QED
  BY <1>5, <1>6

LEMMA RatioType ==
  ASSUME NEW a \in Int, NEW b \in Int
  PROVE  Ratio(a, b) \in Fractions /\ Zero = [num |-> 0, den |-> 1] /\ Zero \in Fractions
BY DEF Ratio, Fractions, Zero

LEMMA RatioOverNat ==
  ASSUME NEW a \in Int, NEW b \in Nat
  PROVE  Ratio(a, b) = [num |-> a, den |-> b]
BY DEF Ratio

\* The fall to a point is the worst from the highest amount before it.
LEMMA WorstFromThePeak ==
  ASSUME NEW p \in Nat, NEW c \in Nat, NEW e \in Nat, c > 0, c <= p
  PROVE  ~Exceeds(Ratio(c - e, c), Ratio(p - e, p))
<1>1. c * e <= p * e
  BY ScaleBoth
<1>2. (c - e) * p <= (p - e) * c
  BY <1>1
<1>3. Ratio(c - e, c) = [num |-> c - e, den |-> c] /\ Ratio(p - e, p) = [num |-> p - e, den |-> p]
  BY RatioOverNat
<1>4. (c - e) * p \in Int /\ (p - e) * c \in Int
  OBVIOUS
<1> QED
  BY <1>2, <1>3, <1>4 DEF Exceeds

-----------------------------------------------------------------------------
(* One more point *)

\* What one pass of the loop makes of the peak and of the worst fall.
PassPoint(n, e, worst) ==
    /\ CurveInv
    /\ n \in 0 .. Len(equity_curve) - 1
    /\ IsMaximum(peak, n)
    /\ e = equity_curve[n + 1]
    /\ worst = Ratio(Higher(e) - e, Higher(e))

LEMMA PassTypes ==
  ASSUME NEW n, NEW e, NEW worst, PassPoint(n, e, worst)
  PROVE  /\ n \in Nat /\ n + 1 \in 1 .. Len(equity_curve)
         /\ Len(equity_curve) \in Nat /\ equity_curve # <<>>
         /\ \A i \in 1 .. Len(equity_curve) : equity_curve[i] \in Int
         /\ e \in Int /\ peak \in Int /\ Higher(e) \in Int
         /\ e <= Higher(e) /\ peak <= Higher(e)
         /\ worst \in Fractions
<1>1. equity_curve \in Seq(Int) /\ n \in 0 .. Len(equity_curve) - 1
  BY DEF PassPoint, CurveInv
<1>2. Len(equity_curve) \in Nat /\ \A i \in 1 .. Len(equity_curve) : equity_curve[i] \in Int
  BY <1>1, LenProperties, ElementOfSeq
<1>3. n \in Nat /\ n + 1 \in 1 .. Len(equity_curve) /\ equity_curve # <<>>
  BY <1>1, <1>2, EmptySeq
<1>4. e \in Int /\ peak \in Int
  BY <1>2, <1>3 DEF PassPoint, IsMaximum
<1>5. Higher(e) \in Int /\ e <= Higher(e) /\ peak <= Higher(e)
  BY <1>4 DEF Higher
<1>6. worst \in Fractions
  BY <1>4, <1>5, RatioType DEF PassPoint
<1> QED
  BY <1>2, <1>3, <1>4, <1>5, <1>6

LEMMA PeakStaysMaximum ==
  ASSUME NEW n, NEW e, NEW worst, PassPoint(n, e, worst)
  PROVE  IsMaximum(Higher(e), n + 1)
<1>1. \A i \in 1 .. n + 1 : equity_curve[i] <= Higher(e)
  <2> SUFFICES ASSUME NEW i \in 1 .. n + 1
               PROVE  equity_curve[i] <= Higher(e)
    OBVIOUS
  <2>1. CASE i = n + 1
    BY <2>1, PassTypes DEF PassPoint
  <2>2. CASE i # n + 1
    <3>1. i \in 1 .. n /\ i \in 1 .. Len(equity_curve)
      BY <2>2, PassTypes
    <3>2. equity_curve[i] <= peak
      BY <3>1 DEF PassPoint, IsMaximum
    <3> QED
      BY <3>1, <3>2, PassTypes
  <2> QED
    BY <2>1, <2>2
<1>2. 1 \in 1 .. n + 1
  BY PassTypes
<1>3. \E i \in 1 .. Len(equity_curve) : (i <= n + 1 \/ i = 1) /\ Higher(e) = equity_curve[i]
  <2>1. CASE e > peak
    BY <2>1, PassTypes DEF PassPoint, Higher
  <2>2. CASE ~(e > peak)
    <3>1. PICK i \in 1 .. Len(equity_curve) : (i <= n \/ i = 1) /\ peak = equity_curve[i]
      BY PassTypes DEF PassPoint, IsMaximum
    <3> QED
      BY <2>2, <3>1, PassTypes DEF Higher
  <2> QED
    BY <2>1, <2>2
<1> QED
  BY <1>1, <1>2, <1>3, PassTypes DEF IsMaximum

\* The fall to the new point from the peak can only be a worse one if it is a
\* fall from an earlier point.
LEMMA WorstIsAFall ==
  ASSUME NEW n, NEW e, NEW worst, PassPoint(n, e, worst), Solvent,
         worst.num > 0
  PROVE  /\ worst.den > 0
         /\ \E i, j \in 1 .. n + 1 : i < j /\ equity_curve[i] > 0 /\ worst = Fall(i, j)
<1>1. e >= 0 /\ Higher(e) \in Nat
  BY PassTypes DEF PassPoint, Solvent
<1>2. worst = [num |-> Higher(e) - e, den |-> Higher(e)]
  <2>1. Higher(e) - e \in Int /\ worst = Ratio(Higher(e) - e, Higher(e))
    BY PassTypes DEF PassPoint
  <2> HIDE DEF PassPoint
  <2> QED
    BY <1>1, <2>1, RatioOverNat
<1>3. Higher(e) > e /\ Higher(e) = peak /\ worst.den > 0
  BY <1>1, <1>2, PassTypes DEF Higher
<1>4. PICK i \in 1 .. Len(equity_curve) : (i <= n \/ i = 1) /\ peak = equity_curve[i]
  BY PassTypes DEF PassPoint, IsMaximum
<1>5. i # n + 1
  <2>1. e = equity_curve[n + 1] /\ e < peak
    BY <1>3, PassTypes DEF PassPoint
  <2> QED
    BY <1>4, <2>1, PassTypes
<1>6. i \in 1 .. n + 1 /\ n + 1 \in 1 .. n + 1 /\ i < n + 1
  BY <1>4, <1>5, PassTypes
<1>7. worst = Fall(i, n + 1)
  BY <1>3, <1>4 DEF PassPoint, Fall
<1> QED
  BY <1>1, <1>3, <1>4, <1>6, <1>7, PassTypes

\* The fall to the new point from any earlier one is at most that from the peak.
LEMMA NoneWorseThanWorst ==
  ASSUME NEW n, NEW e, NEW worst, PassPoint(n, e, worst), Solvent,
         NEW i \in 1 .. n + 1, equity_curve[i] > 0
  PROVE  worst.den > 0 /\ ~Exceeds(Fall(i, n + 1), worst)
<1>1. i \in 1 .. Len(equity_curve) /\ equity_curve[i] \in Nat /\ e \in Nat
  BY PassTypes DEF PassPoint, Solvent
<1>2. equity_curve[i] <= Higher(e)
  BY PeakStaysMaximum DEF IsMaximum
<1>3. Higher(e) \in Nat /\ Higher(e) > 0
  BY <1>1, <1>2, PassTypes
<1>4. worst = Ratio(Higher(e) - e, Higher(e)) /\ Fall(i, n + 1) = Ratio(equity_curve[i] - e, equity_curve[i])
  BY DEF PassPoint, Fall
<1>5. ~Exceeds(Fall(i, n + 1), worst)
  BY <1>1, <1>2, <1>3, <1>4, WorstFromThePeak
<1>6. Ratio(Higher(e) - e, Higher(e)).den = Higher(e)
  BY <1>3 DEF Ratio
<1> QED
  BY <1>3, <1>4, <1>5, <1>6

LEMMA DrawdownStaysWorst ==
  ASSUME NEW n, NEW e, NEW worst, PassPoint(n, e, worst), IsDrawdown(max_dd, n),
         NEW m, m = IF Exceeds(worst, max_dd) THEN worst ELSE max_dd
  PROVE  IsDrawdown(m, n + 1)
<1>1. max_dd \in Fractions /\ max_dd.num >= 0 /\ worst \in Fractions
  BY PassTypes DEF IsDrawdown
<1>2. Exceeds(worst, max_dd) => worst.num > 0
  BY <1>1, ExceedingIsPositive
<1>3. m \in Fractions /\ m.num >= 0
  <2>1. CASE Exceeds(worst, max_dd)
    <3>1. worst.num >= 0
      BY <1>1, <1>2, <2>1 DEF Fractions
    <3> QED
      BY <1>1, <2>1, <3>1
  <2>2. CASE ~Exceeds(worst, max_dd)
    BY <1>1, <2>2
  <2> QED
    BY <2>1, <2>2
<1>4. ~Exceeds(worst, m) /\ ~Exceeds(max_dd, m)
  <2>1. ~Exceeds(worst, worst) /\ ~Exceeds(max_dd, max_dd)
    BY <1>1, ExceedsIsStrict
  <2>2. Exceeds(worst, max_dd) => ~Exceeds(max_dd, worst)
    BY <1>1, ExceedsIsStrict
  <2> QED
    BY <2>1, <2>2
<1>5. ASSUME Solvent
      PROVE  m.den > 0 /\ NoneWorse(m, n + 1) /\ IsAFall(m, n + 1)
  <2>1. max_dd.den > 0 /\ NoneWorse(max_dd, n) /\ IsAFall(max_dd, n)
    BY <1>5 DEF IsDrawdown
  <2>2. m.den > 0
    BY <1>2, <1>5, <2>1, WorstIsAFall
  <2>3. NoneWorse(m, n + 1)
    <3> SUFFICES ASSUME NEW i \in 1 .. n + 1, NEW j \in 1 .. n + 1,
                        i <= j, equity_curve[i] > 0
                 PROVE  ~Exceeds(Fall(i, j), m)
      BY DEF NoneWorse
    <3>1. Fall(i, j) \in Fractions
      BY PassTypes, RatioType DEF Fall
    <3>2. CASE j = n + 1
      <4>1. worst.den > 0 /\ ~Exceeds(Fall(i, j), worst)
        BY <1>5, <3>2, NoneWorseThanWorst
      <4> QED
        BY <1>1, <1>3, <1>4, <3>1, <4>1, AtMostIsTransitive
    <3>3. CASE j # n + 1
      <4>1. i \in 1 .. n /\ j \in 1 .. n
        BY <3>3, PassTypes
      <4>2. ~Exceeds(Fall(i, j), max_dd)
        BY <2>1, <4>1 DEF NoneWorse
      <4> QED
        BY <1>1, <1>3, <1>4, <2>1, <3>1, <4>2, AtMostIsTransitive
    <3> QED
      BY <3>2, <3>3
  <2>4. IsAFall(m, n + 1)
    <3>1. CASE Exceeds(worst, max_dd)
      BY <1>2, <1>5, <3>1, WorstIsAFall DEF IsAFall
    <3>2. CASE ~Exceeds(worst, max_dd)
      <4>1. 1 .. n \subseteq 1 .. n + 1
        BY PassTypes
      <4> QED
        BY <2>1, <3>2, <4>1 DEF IsAFall
    <3> QED
      BY <3>1, <3>2
  <2> QED
    BY <2>2, <2>3, <2>4
<1>6. ASSUME equity_curve[1] > 0
      PROVE  m.den > 0 /\ ShowsRuin(m, n + 1)
  <2>1. max_dd.den > 0 /\ ShowsRuin(max_dd, n)
    BY <1>6, PassTypes DEF IsDrawdown
  <2>2. 1 \in 1 .. Len(equity_curve) /\ equity_curve[1] \in Int /\ equity_curve[1] <= peak
    <3>1. 1 \in 1 .. Len(equity_curve) /\ equity_curve[1] \in Int
      BY PassTypes
    <3>2. equity_curve[1] <= peak
      BY PassTypes DEF PassPoint, IsMaximum
    <3> QED
      BY <3>1, <3>2
  <2>3. Higher(e) \in Nat /\ Higher(e) > 0
    BY <1>6, <2>2, PassTypes
  <2>4. worst = [num |-> Higher(e) - e, den |-> Higher(e)]
    <3>1. Higher(e) - e \in Int /\ worst = Ratio(Higher(e) - e, Higher(e))
      BY PassTypes DEF PassPoint
    <3> QED
      BY <2>3, <3>1, RatioOverNat
  <2>5. worst.den > 0 /\ (worst.num >= worst.den <=> e <= 0)
    BY <2>3, <2>4, PassTypes
  <2>6. m.num >= m.den <=> worst.num >= worst.den \/ max_dd.num >= max_dd.den
    BY <1>1, <2>1, <2>5, GreaterReachesOne
  <2>7. (\E i \in 1 .. n + 1 : equity_curve[i] <= 0)
          <=> e <= 0 \/ \E i \in 1 .. n : equity_curve[i] <= 0
    <3>1. \A i : i \in 1 .. n + 1 <=> i \in 1 .. n \/ i = n + 1
      BY PassTypes
    <3>2. e = equity_curve[n + 1]
      BY DEF PassPoint
    <3> QED
      BY <3>1, <3>2
  <2> QED
    BY <2>1, <2>5, <2>6, <2>7 DEF ShowsRuin
<1> QED
  BY <1>3, <1>5, <1>6 DEF IsDrawdown

-----------------------------------------------------------------------------
(* The steps *)

LEMMA InitInv == Init => Inv
BY EmptySeq DEF Init, Inv, CurveInv, LoopInv, AnswerInv, Asked, NotAsked

\* An empty pass has seen nothing fall.
LEMMA LoopStarts ==
  ASSUME CurveInv,
         NEW p, p = IF equity_curve = <<>> THEN 0 ELSE Head(equity_curve)
  PROVE  IsMaximum(p, 0) /\ IsDrawdown(Zero, 0)
<1>1. /\ equity_curve \in Seq(Int) /\ Len(equity_curve) \in Nat
      /\ \A i \in 1 .. Len(equity_curve) : equity_curve[i] \in Int
  BY LenProperties, ElementOfSeq DEF CurveInv
<1>2. equity_curve # <<>> => 1 \in 1 .. Len(equity_curve) /\ p = equity_curve[1]
  BY <1>1, EmptySeq
<1>3. 1 .. 0 = {}
  OBVIOUS
<1>4. IsMaximum(p, 0)
  BY <1>1, <1>2, <1>3 DEF IsMaximum
<1>5. Zero = [num |-> 0, den |-> 1] /\ Zero \in Fractions
  BY RatioType
<1>6. NoneWorse(Zero, 0) /\ IsAFall(Zero, 0)
  BY <1>3 DEF NoneWorse, IsAFall
<1>7. ShowsRuin(Zero, 0)
  BY <1>3, <1>5 DEF ShowsRuin
<1> QED
  BY <1>4, <1>5, <1>6, <1>7 DEF IsDrawdown

LEMMA RecordEquityKeeps == ASSUME Inv, NEW e \in Equities, RecordEquity(e) PROVE Inv'
BY AppendProperties, PerformanceAssumption
DEF Inv, RecordEquity, CurveInv, LoopInv, AnswerInv, Asked, NotAsked

LEMMA RecordTradeKeeps == ASSUME Inv, NEW pnl \in Pnls, RecordTrade(pnl) PROVE Inv'
BY DEF Inv, RecordTrade, CurveInv, LoopInv, AnswerInv, Asked, NotAsked

LEMMA AskMetricsKeeps == ASSUME Inv, AskMetrics PROVE Inv'
<1>1. /\ equity_curve' = equity_curve /\ pc' = "drawdown" /\ next' = 1 /\ max_dd' = Zero
      /\ peak' = IF equity_curve = <<>> THEN 0 ELSE Head(equity_curve)
      /\ metrics'.asked = FALSE /\ metrics'.total_return = TotalReturn
  BY DEF AskMetrics
<1>2. CurveInv /\ CurveInv' /\ TotalReturn' = TotalReturn
  BY <1>1 DEF Inv, CurveInv, TotalReturn
<1>3. IsMaximum(peak', 0) /\ IsDrawdown(Zero, 0)
  BY <1>1, <1>2, LoopStarts
<1>4. (next - 1)' = 0 /\ next' \in 1 .. Len(equity_curve) + 1
  BY <1>1, <1>2, LenProperties DEF CurveInv
<1>5. IsMaximum(peak, next - 1)'
  BY <1>1, <1>3, <1>4 DEF IsMaximum
<1>6. IsDrawdown(max_dd, next - 1)'
  BY <1>1, <1>3, <1>4 DEF IsDrawdown, Solvent, NoneWorse, IsAFall, ShowsRuin, Fall
<1>7. LoopInv'
  BY <1>1, <1>2, <1>4, <1>5, <1>6 DEF LoopInv, Asked
<1> QED
  BY <1>1, <1>2, <1>7 DEF Inv, AnswerInv, Asked

LEMMA DrawdownStepKeeps == ASSUME Inv, DrawdownStep PROVE Inv'
<1> DEFINE e == equity_curve[next]
           worst == Ratio(Higher(e) - e, Higher(e))
<1>1. /\ equity_curve' = equity_curve /\ pc' = pc /\ metrics' = metrics
      /\ pc = "drawdown" /\ next <= Len(equity_curve) /\ next' = next + 1
      /\ peak' = Higher(e)
      /\ max_dd' = IF Exceeds(worst, max_dd) THEN worst ELSE max_dd
  BY DEF DrawdownStep
<1>2. /\ CurveInv /\ ~Asked /\ metrics.asked \in BOOLEAN
      /\ next \in 1 .. Len(equity_curve) + 1
      /\ IsMaximum(peak, next - 1) /\ IsDrawdown(max_dd, next - 1)
      /\ metrics.total_return = TotalReturn
  BY <1>1 DEF Inv, LoopInv
<1>3. CurveInv' /\ TotalReturn' = TotalReturn /\ Len(equity_curve) \in Nat
  BY <1>1, <1>2, LenProperties DEF CurveInv, TotalReturn
<1>4. /\ next - 1 \in 0 .. Len(equity_curve) - 1 /\ (next - 1) + 1 = next
      /\ (next - 1)' = next /\ next' \in 1 .. Len(equity_curve) + 1
  BY <1>1, <1>2, <1>3
<1>5. PassPoint(next - 1, e, worst)
  BY <1>2, <1>4 DEF PassPoint
<1> HIDE DEF e, worst
<1>6. IsMaximum(peak', next) /\ IsDrawdown(max_dd', next)
  BY <1>1, <1>2, <1>4, <1>5, PeakStaysMaximum, DrawdownStaysWorst
<1>7. IsMaximum(peak, next - 1)'
  BY <1>1, <1>4, <1>6 DEF IsMaximum
<1>8. IsDrawdown(max_dd, next - 1)'
  BY <1>1, <1>4, <1>6 DEF IsDrawdown, Solvent, NoneWorse, IsAFall, ShowsRuin, Fall
<1>9. LoopInv'
  BY <1>1, <1>2, <1>3, <1>4, <1>7, <1>8 DEF LoopInv, Asked
<1> QED
  BY <1>1, <1>2, <1>3, <1>9 DEF Inv, AnswerInv, Asked

LEMMA MetricsReturnedKeeps == ASSUME Inv, MetricsReturned PROVE Inv'
<1>1. /\ equity_curve' = equity_curve /\ pc' = "idle" /\ pc = "drawdown"
      /\ next > Len(equity_curve)
      /\ metrics'.max_drawdown = max_dd /\ metrics'.asked = TRUE
      /\ metrics'.total_return = metrics.total_return
  BY DEF MetricsReturned
<1>2. /\ CurveInv /\ next \in 1 .. Len(equity_curve) + 1
      /\ IsDrawdown(max_dd, next - 1) /\ metrics.total_return = TotalReturn
  BY <1>1 DEF Inv, LoopInv
<1>3. CurveInv' /\ TotalReturn' = TotalReturn /\ Len(equity_curve) \in Nat
  BY <1>1, <1>2, LenProperties DEF CurveInv, TotalReturn
<1>4. next - 1 = Len(equity_curve)
  BY <1>1, <1>2, <1>3
<1>5. IsDrawdown(metrics.max_drawdown, Len(equity_curve))'
  BY <1>1, <1>2, <1>4 DEF IsDrawdown, Solvent, NoneWorse, IsAFall, ShowsRuin, Fall
<1>6. AnswerInv'
  BY <1>1, <1>2, <1>3, <1>5 DEF AnswerInv
<1> QED
  BY <1>1, <1>3, <1>6 DEF Inv, LoopInv

LEMMA StutterKeeps == ASSUME Inv, UNCHANGED vars PROVE Inv'
<1>1. UNCHANGED <<equity_curve, pc, next, peak, max_dd, metrics>>
  BY DEF vars, loop
<1> QED
  BY <1>1 DEF Inv, CurveInv, LoopInv, AnswerInv, Asked, IsMaximum, IsDrawdown, Solvent,
     NoneWorse, IsAFall, ShowsRuin, Fall, TotalReturn

LEMMA Inductive == Spec => []Inv
<1>1. Inv /\ [Next]_vars => Inv'
  BY RecordEquityKeeps, RecordTradeKeeps, AskMetricsKeeps, DrawdownStepKeeps,
     MetricsReturnedKeeps, StutterKeeps DEF Next
<1> QED
  BY InitInv, <1>1, PTL DEF Spec

-----------------------------------------------------------------------------
(* Least elements, in the place of induction *)

LEMMA SmallestOf ==
  ASSUME NEW T \in SUBSET Nat, T # {}
  PROVE  \E x \in T : \A y \in T : x <= y
<1> DEFINE R == {p \in Nat \X Nat : p[1] < p[2]}
<1>1. R = OpToRel(<, Nat)
  BY DEF OpToRel
<1>2. IsWellFoundedOn(R, Nat)
  BY <1>1, NatLessThanWellFounded
<1>3. PICK x \in T : \A y \in T : ~(<<y, x>> \in R)
  BY <1>2, WFMin
<1>4. \A y \in T : <<y, x>> \in R <=> y < x
  OBVIOUS
<1> HIDE DEF R
<1>5. ASSUME NEW y \in T PROVE x <= y
  <2>1. x \in Nat /\ y \in Nat
    OBVIOUS
  <2>2. ~(y < x)
    BY <1>3, <1>4
  <2> QED
    BY <2>1, <2>2
<1> QED
  BY <1>5

\* Induction over the natural numbers, for a set of them.
LEMMA AllReached ==
  ASSUME NEW G, 0 \in G, \A n \in Nat : n \in G => n + 1 \in G
  PROVE  \A n \in Nat : n \in G
<1> DEFINE Bad == { n \in Nat : n \notin G }
<1> SUFFICES ASSUME Bad # {} PROVE FALSE
  OBVIOUS
<1>1. PICK k \in Bad : \A j \in Bad : k <= j
  <2>1. Bad \in SUBSET Nat
    OBVIOUS
  <2> HIDE DEF Bad
  <2> QED
    BY <2>1, SmallestOf
<1>2. k \in Nat /\ k # 0 /\ k \notin G
  OBVIOUS
<1>3. k - 1 \in Nat /\ ~(k <= k - 1) /\ (k - 1) + 1 = k
  BY <1>2
<1>4. k - 1 \in G
  BY <1>1, <1>3
<1> QED
  BY <1>2, <1>3, <1>4

-----------------------------------------------------------------------------
(* Sums and products, one factor at a time *)

IsSum(s, f, n) == s = [i \in 0 .. n |-> IF i = 0 THEN 0 ELSE s[i - 1] + f[i]]

LEMMA SumSteps ==
  ASSUME NEW f, NEW n \in Nat, NEW s, IsSum(s, f, n), NEW i \in 0 .. n
  PROVE  s[i] = IF i = 0 THEN 0 ELSE s[i - 1] + f[i]
BY Zenon DEF IsSum

LEMMA SumExists ==
  ASSUME NEW f, NEW n \in Nat
  PROVE  \E s : IsSum(s, f, n)
<1> DEFINE G == { k \in Nat : \E s : IsSum(s, f, k) }
<1>1. 0 \in G
  <2> DEFINE s == [i \in 0 .. 0 |-> 0]
  <2>1. \A i \in 0 .. 0 : s[i] = IF i = 0 THEN 0 ELSE s[i - 1] + f[i]
    OBVIOUS
  <2>2. s = [i \in 0 .. 0 |-> s[i]]
    OBVIOUS
  <2> HIDE DEF s
  <2>3. IsSum(s, f, 0)
    BY <2>1, <2>2 DEF IsSum
  <2> QED
    BY <2>3
<1>2. ASSUME NEW k \in Nat, k \in G PROVE k + 1 \in G
  <2>1. PICK s : IsSum(s, f, k)
    BY <1>2
  <2> DEFINE t == [i \in 0 .. k + 1 |-> IF i = k + 1 THEN s[k] + f[k + 1] ELSE s[i]]
  <2>2. ASSUME NEW i \in 0 .. k + 1 PROVE t[i] = IF i = 0 THEN 0 ELSE t[i - 1] + f[i]
    <3>1. CASE i = k + 1
      <4>1. i # 0 /\ i - 1 = k /\ k \in 0 .. k + 1 /\ k # k + 1
        BY <3>1
      <4>2. t[i] = s[k] + f[i] /\ t[k] = s[k]
        BY <3>1, <4>1
      <4> QED
        BY <4>1, <4>2
    <3>2. CASE i # k + 1
      <4>1. i \in 0 .. k /\ (i # 0 => i - 1 \in 0 .. k + 1 /\ i - 1 # k + 1)
        BY <3>2
      <4>2. s[i] = IF i = 0 THEN 0 ELSE s[i - 1] + f[i]
        BY <2>1, <4>1, SumSteps
      <4> QED
        BY <3>2, <4>1, <4>2
    <3> QED
      BY <3>1, <3>2
  <2>3. t = [i \in 0 .. k + 1 |-> t[i]]
    OBVIOUS
  <2> HIDE DEF t
  <2>4. IsSum(t, f, k + 1)
    BY <2>2, <2>3 DEF IsSum
  <2> QED
    BY <2>4
<1>3. \A k \in Nat : k \in G
  <2> HIDE DEF G
  <2> QED
    BY <1>1, <1>2, AllReached
<1> QED
  BY <1>3

LEMMA SumIs ==
  ASSUME NEW f, NEW n \in Nat
  PROVE  \E s : IsSum(s, f, n) /\ SumTo(f, n) = s[n]
<1> DEFINE s == CHOOSE s : IsSum(s, f, n)
<1>1. IsSum(s, f, n)
  BY SumExists
<1>2. SumTo(f, n) = s[n]
  BY Zenon DEF SumTo, IsSum
<1> HIDE DEF s
<1> QED
  BY <1>1, <1>2

LEMMA SumsAgree ==
  ASSUME NEW f, NEW n \in Nat, NEW m \in Nat, n <= m,
         NEW s, IsSum(s, f, n), NEW t, IsSum(t, f, m)
  PROVE  s[n] = t[n]
<1> DEFINE G == { k \in Nat : k <= n => s[k] = t[k] }
<1>1. 0 \in G
  <2>1. 0 \in 0 .. n /\ 0 \in 0 .. m
    OBVIOUS
  <2>2. s[0] = t[0]
    BY <2>1, SumSteps
  <2> QED
    BY <2>2
<1>2. ASSUME NEW k \in Nat, k \in G PROVE k + 1 \in G
  <2> SUFFICES ASSUME k + 1 <= n PROVE s[k + 1] = t[k + 1]
    OBVIOUS
  <2>1. /\ k + 1 \in 0 .. n /\ k + 1 \in 0 .. m
        /\ k + 1 # 0 /\ (k + 1) - 1 = k /\ s[k] = t[k]
    BY <1>2
  <2>2. s[k + 1] = s[(k + 1) - 1] + f[k + 1] /\ t[k + 1] = t[(k + 1) - 1] + f[k + 1]
    BY <2>1, SumSteps
  <2> QED
    BY <2>1, <2>2
<1>3. \A k \in Nat : k \in G
  <2> HIDE DEF G
  <2> QED
    BY <1>1, <1>2, AllReached
<1> QED
  BY <1>3

\* A sum of nothing is 0, and each step adds one number.
LEMMA SumNext ==
  ASSUME NEW f
  PROVE  /\ SumTo(f, 0) = 0
         /\ \A n \in Nat : SumTo(f, n + 1) = SumTo(f, n) + f[n + 1]
<1>1. SumTo(f, 0) = 0
  <2>1. PICK s : IsSum(s, f, 0) /\ SumTo(f, 0) = s[0]
    BY SumIs
  <2>2. 0 \in 0 .. 0
    OBVIOUS
  <2>3. s[0] = IF 0 = 0 THEN 0 ELSE s[0 - 1] + f[0]
    BY <2>1, <2>2, SumSteps
  <2> QED
    BY <2>1, <2>3
<1>2. ASSUME NEW n \in Nat PROVE SumTo(f, n + 1) = SumTo(f, n) + f[n + 1]
  <2>1. PICK s : IsSum(s, f, n) /\ SumTo(f, n) = s[n]
    BY SumIs
  <2>2. PICK t : IsSum(t, f, n + 1) /\ SumTo(f, n + 1) = t[n + 1]
    BY SumIs
  <2>3. n + 1 \in 0 .. n + 1 /\ n + 1 # 0 /\ (n + 1) - 1 = n /\ n <= n + 1
    OBVIOUS
  <2>4. t[n + 1] = t[n] + f[n + 1]
    <3>1. t[n + 1] = t[(n + 1) - 1] + f[n + 1]
      BY <2>2, <2>3, SumSteps
    <3> QED
      BY <2>3, <3>1
  <2>5. s[n] = t[n]
    BY <2>1, <2>2, <2>3, SumsAgree
  <2> QED
    BY <2>1, <2>2, <2>4, <2>5
<1> QED
  BY <1>1, <1>2

IsProduct(s, f, n) == s = [i \in 0 .. n |-> IF i = 0 THEN 1 ELSE s[i - 1] * f[i]]

LEMMA ProductSteps ==
  ASSUME NEW f, NEW n \in Nat, NEW s, IsProduct(s, f, n), NEW i \in 0 .. n
  PROVE  s[i] = IF i = 0 THEN 1 ELSE s[i - 1] * f[i]
BY Zenon DEF IsProduct

LEMMA ProductExists ==
  ASSUME NEW f, NEW n \in Nat
  PROVE  \E s : IsProduct(s, f, n)
<1> DEFINE G == { k \in Nat : \E s : IsProduct(s, f, k) }
<1>1. 0 \in G
  <2> DEFINE s == [i \in 0 .. 0 |-> 1]
  <2>1. \A i \in 0 .. 0 : s[i] = IF i = 0 THEN 1 ELSE s[i - 1] * f[i]
    OBVIOUS
  <2>2. s = [i \in 0 .. 0 |-> s[i]]
    OBVIOUS
  <2> HIDE DEF s
  <2>3. IsProduct(s, f, 0)
    BY <2>1, <2>2 DEF IsProduct
  <2> QED
    BY <2>3
<1>2. ASSUME NEW k \in Nat, k \in G PROVE k + 1 \in G
  <2>1. PICK s : IsProduct(s, f, k)
    BY <1>2
  <2> DEFINE t == [i \in 0 .. k + 1 |-> IF i = k + 1 THEN s[k] * f[k + 1] ELSE s[i]]
  <2>2. ASSUME NEW i \in 0 .. k + 1 PROVE t[i] = IF i = 0 THEN 1 ELSE t[i - 1] * f[i]
    <3>1. CASE i = k + 1
      <4>1. i # 0 /\ i - 1 = k /\ k \in 0 .. k + 1 /\ k # k + 1
        BY <3>1
      <4>2. t[i] = s[k] * f[i] /\ t[k] = s[k]
        BY <3>1, <4>1
      <4> QED
        BY <4>1, <4>2
    <3>2. CASE i # k + 1
      <4>1. i \in 0 .. k /\ (i # 0 => i - 1 \in 0 .. k + 1 /\ i - 1 # k + 1)
        BY <3>2
      <4>2. s[i] = IF i = 0 THEN 1 ELSE s[i - 1] * f[i]
        BY <2>1, <4>1, ProductSteps
      <4> QED
        BY <3>2, <4>1, <4>2
    <3> QED
      BY <3>1, <3>2
  <2>3. t = [i \in 0 .. k + 1 |-> t[i]]
    OBVIOUS
  <2> HIDE DEF t
  <2>4. IsProduct(t, f, k + 1)
    BY <2>2, <2>3 DEF IsProduct
  <2> QED
    BY <2>4
<1>3. \A k \in Nat : k \in G
  <2> HIDE DEF G
  <2> QED
    BY <1>1, <1>2, AllReached
<1> QED
  BY <1>3

LEMMA ProductIs ==
  ASSUME NEW f, NEW n \in Nat
  PROVE  \E s : IsProduct(s, f, n) /\ ProductTo(f, n) = s[n]
<1> DEFINE s == CHOOSE s : IsProduct(s, f, n)
<1>1. IsProduct(s, f, n)
  BY ProductExists
<1>2. ProductTo(f, n) = s[n]
  BY Zenon DEF ProductTo, IsProduct
<1> HIDE DEF s
<1> QED
  BY <1>1, <1>2

LEMMA ProductsAgree ==
  ASSUME NEW f, NEW n \in Nat, NEW m \in Nat, n <= m,
         NEW s, IsProduct(s, f, n), NEW t, IsProduct(t, f, m)
  PROVE  s[n] = t[n]
<1> DEFINE G == { k \in Nat : k <= n => s[k] = t[k] }
<1>1. 0 \in G
  <2>1. 0 \in 0 .. n /\ 0 \in 0 .. m
    OBVIOUS
  <2>2. s[0] = t[0]
    BY <2>1, ProductSteps
  <2> QED
    BY <2>2
<1>2. ASSUME NEW k \in Nat, k \in G PROVE k + 1 \in G
  <2> SUFFICES ASSUME k + 1 <= n PROVE s[k + 1] = t[k + 1]
    OBVIOUS
  <2>1. /\ k + 1 \in 0 .. n /\ k + 1 \in 0 .. m
        /\ k + 1 # 0 /\ (k + 1) - 1 = k /\ s[k] = t[k]
    BY <1>2
  <2>2. s[k + 1] = s[(k + 1) - 1] * f[k + 1] /\ t[k + 1] = t[(k + 1) - 1] * f[k + 1]
    BY <2>1, ProductSteps
  <2> QED
    BY <2>1, <2>2
<1>3. \A k \in Nat : k \in G
  <2> HIDE DEF G
  <2> QED
    BY <1>1, <1>2, AllReached
<1> QED
  BY <1>3

\* A product of nothing is 1, and each step multiplies by one number.
LEMMA ProductNext ==
  ASSUME NEW f
  PROVE  /\ ProductTo(f, 0) = 1
         /\ \A n \in Nat : ProductTo(f, n + 1) = ProductTo(f, n) * f[n + 1]
<1>1. ProductTo(f, 0) = 1
  <2>1. PICK s : IsProduct(s, f, 0) /\ ProductTo(f, 0) = s[0]
    BY ProductIs
  <2>2. 0 \in 0 .. 0
    OBVIOUS
  <2>3. s[0] = IF 0 = 0 THEN 1 ELSE s[0 - 1] * f[0]
    BY <2>1, <2>2, ProductSteps
  <2> QED
    BY <2>1, <2>3
<1>2. ASSUME NEW n \in Nat PROVE ProductTo(f, n + 1) = ProductTo(f, n) * f[n + 1]
  <2>1. PICK s : IsProduct(s, f, n) /\ ProductTo(f, n) = s[n]
    BY ProductIs
  <2>2. PICK t : IsProduct(t, f, n + 1) /\ ProductTo(f, n + 1) = t[n + 1]
    BY ProductIs
  <2>3. n + 1 \in 0 .. n + 1 /\ n + 1 # 0 /\ (n + 1) - 1 = n /\ n <= n + 1
    OBVIOUS
  <2>4. t[n + 1] = t[n] * f[n + 1]
    <3>1. t[n + 1] = t[(n + 1) - 1] * f[n + 1]
      BY <2>2, <2>3, ProductSteps
    <3> QED
      BY <2>3, <3>1
  <2>5. s[n] = t[n]
    BY <2>1, <2>2, <2>3, ProductsAgree
  <2> QED
    BY <2>1, <2>2, <2>4, <2>5
<1> QED
  BY <1>1, <1>2

\* What can be said of every sum of numbers: that it is one, and has the sign
\* of one of them.
LEMMA SumType ==
  ASSUME NEW f, NEW n \in Nat, \A i \in 1 .. n : f[i] \in Int
  PROVE  SumTo(f, n) \in Int
<1> DEFINE G == { k \in Nat : k <= n => SumTo(f, k) \in Int }
<1>1. 0 \in G
  BY SumNext
<1>2. ASSUME NEW k \in Nat, k \in G PROVE k + 1 \in G
  <2> SUFFICES ASSUME k + 1 <= n PROVE SumTo(f, k + 1) \in Int
    OBVIOUS
  <2>1. SumTo(f, k) \in Int /\ f[k + 1] \in Int
    BY <1>2
  <2> QED
    BY <2>1, SumNext
<1>3. \A k \in Nat : k \in G
  <2> HIDE DEF G
  <2> QED
    BY <1>1, <1>2, AllReached
<1> QED
  BY <1>3

LEMMA ProductType ==
  ASSUME NEW f, NEW n \in Nat, \A i \in 1 .. n : f[i] \in Nat
  PROVE  ProductTo(f, n) \in Nat
<1> DEFINE G == { k \in Nat : k <= n => ProductTo(f, k) \in Nat }
<1>1. 0 \in G
  BY ProductNext
<1>2. ASSUME NEW k \in Nat, k \in G PROVE k + 1 \in G
  <2> SUFFICES ASSUME k + 1 <= n PROVE ProductTo(f, k + 1) \in Nat
    OBVIOUS
  <2>1. ProductTo(f, k) \in Nat /\ f[k + 1] \in Nat
    BY <1>2
  <2>2. ProductTo(f, k + 1) = ProductTo(f, k) * f[k + 1]
    BY ProductNext
  <2> QED
    BY <2>1, <2>2
<1>3. \A k \in Nat : k \in G
  <2> HIDE DEF G
  <2> QED
    BY <1>1, <1>2, AllReached
<1> QED
  BY <1>3

LEMMA SumsCompare ==
  ASSUME NEW f, NEW g, NEW n \in Nat,
         \A i \in 1 .. n : f[i] \in Int /\ g[i] \in Int /\ f[i] <= g[i]
  PROVE  SumTo(f, n) <= SumTo(g, n)
<1> DEFINE G == { k \in Nat : k <= n => SumTo(f, k) <= SumTo(g, k) }
<1>1. 0 \in G
  BY SumNext
<1>2. ASSUME NEW k \in Nat, k \in G PROVE k + 1 \in G
  <2> SUFFICES ASSUME k + 1 <= n PROVE SumTo(f, k + 1) <= SumTo(g, k + 1)
    OBVIOUS
  <2>1. /\ SumTo(f, k) <= SumTo(g, k) /\ k + 1 \in 1 .. n
        /\ f[k + 1] \in Int /\ g[k + 1] \in Int /\ f[k + 1] <= g[k + 1]
    BY <1>2
  <2>2. SumTo(f, k) \in Int /\ SumTo(g, k) \in Int
    <3>1. \A i \in 1 .. k : f[i] \in Int /\ g[i] \in Int
      BY <2>1
    <3> QED
      BY <3>1, SumType
  <2>3. SumTo(f, k + 1) = SumTo(f, k) + f[k + 1] /\ SumTo(g, k + 1) = SumTo(g, k) + g[k + 1]
    BY SumNext
  <2> QED
    BY <2>1, <2>2, <2>3
<1>3. \A k \in Nat : k \in G
  <2> HIDE DEF G
  <2> QED
    BY <1>1, <1>2, AllReached
<1> QED
  BY <1>3

LEMMA SumOfZeros ==
  ASSUME NEW n \in Nat
  PROVE  SumTo([i \in 1 .. n |-> 0], n) = 0
<1> DEFINE f == [i \in 1 .. n |-> 0]
           G == { k \in Nat : k <= n => SumTo(f, k) = 0 }
<1>1. 0 \in G
  BY SumNext
<1>2. ASSUME NEW k \in Nat, k \in G PROVE k + 1 \in G
  <2> SUFFICES ASSUME k + 1 <= n PROVE SumTo(f, k + 1) = 0
    OBVIOUS
  <2>1. SumTo(f, k) = 0 /\ f[k + 1] = 0
    BY <1>2
  <2>2. SumTo(f, k + 1) = SumTo(f, k) + f[k + 1]
    BY SumNext
  <2> HIDE DEF f
  <2> QED
    BY <2>1, <2>2
<1>3. \A k \in Nat : k \in G
  <2> HIDE DEF G
  <2> QED
    BY <1>1, <1>2, AllReached
<1> HIDE DEF f
<1>4. SumTo(f, n) = 0
  BY <1>3
<1> QED
  BY <1>4 DEF f

LEMMA SumHasSign ==
  ASSUME NEW f, NEW n \in Nat, \A i \in 1 .. n : f[i] \in Int
  PROVE  /\ SumTo(f, n) > 0 => \E i \in 1 .. n : f[i] > 0
         /\ SumTo(f, n) < 0 => \E i \in 1 .. n : f[i] < 0
<1> DEFINE zeros == [i \in 1 .. n |-> 0]
<1>1. SumTo(zeros, n) = 0 /\ SumTo(f, n) \in Int
  BY SumOfZeros, SumType
<1>2. \A i \in 1 .. n : zeros[i] = 0
  OBVIOUS
<1> HIDE DEF zeros
<1>3. (\A i \in 1 .. n : f[i] <= 0) => SumTo(f, n) <= SumTo(zeros, n)
  <2> SUFFICES ASSUME \A i \in 1 .. n : f[i] <= 0 PROVE SumTo(f, n) <= SumTo(zeros, n)
    OBVIOUS
  <2>1. \A i \in 1 .. n : f[i] \in Int /\ zeros[i] \in Int /\ f[i] <= zeros[i]
    BY <1>2
  <2> QED
    BY <2>1, SumsCompare
<1>4. (\A i \in 1 .. n : f[i] >= 0) => SumTo(zeros, n) <= SumTo(f, n)
  <2> SUFFICES ASSUME \A i \in 1 .. n : f[i] >= 0 PROVE SumTo(zeros, n) <= SumTo(f, n)
    OBVIOUS
  <2>1. \A i \in 1 .. n : f[i] \in Int /\ zeros[i] \in Int /\ zeros[i] <= f[i]
    BY <1>2
  <2> QED
    BY <2>1, SumsCompare
<1>5. /\ (\A i \in 1 .. n : ~(f[i] > 0)) => \A i \in 1 .. n : f[i] <= 0
      /\ (\A i \in 1 .. n : ~(f[i] < 0)) => \A i \in 1 .. n : f[i] >= 0
  OBVIOUS
<1> QED
  BY <1>1, <1>3, <1>4, <1>5

\* What f grows by at each step adds up to what it grows by.
LEMMA SumTelescopes ==
  ASSUME NEW f, NEW g, NEW n \in Nat,
         \A i \in 1 .. n + 1 : f[i] \in Int,
         \A i \in 1 .. n : g[i] = f[i + 1] - f[i]
  PROVE  SumTo(g, n) = f[n + 1] - f[1]
<1> DEFINE G == { k \in Nat : k <= n => SumTo(g, k) = f[k + 1] - f[1] }
<1>1. 0 \in G
  <2>1. SumTo(g, 0) = 0 /\ f[1] \in Int
    BY SumNext
  <2> QED
    BY <2>1
<1>2. ASSUME NEW k \in Nat, k \in G PROVE k + 1 \in G
  <2> SUFFICES ASSUME k + 1 <= n PROVE SumTo(g, k + 1) = f[(k + 1) + 1] - f[1]
    OBVIOUS
  <2>1. /\ SumTo(g, k) = f[k + 1] - f[1] /\ g[k + 1] = f[(k + 1) + 1] - f[k + 1]
        /\ f[1] \in Int /\ f[k + 1] \in Int /\ f[(k + 1) + 1] \in Int
    BY <1>2
  <2>2. SumTo(g, k + 1) = SumTo(g, k) + g[k + 1]
    BY SumNext
  <2> QED
    BY <2>1, <2>2
<1>3. \A k \in Nat : k \in G
  <2> HIDE DEF G
  <2> QED
    BY <1>1, <1>2, AllReached
<1> QED
  BY <1>3

-----------------------------------------------------------------------------
(* Gains and falls *)

\* A greater divisor has no greater quotient.
LEMMA QuotientsFall ==
  ASSUME NEW d \in Nat, NEW a \in Nat \ {0}, NEW b \in Nat \ {0}, a <= b
  PROVE  d \div b \in Nat /\ d \div b <= d \div a
<1> DEFINE q == d \div a
           p == d \div b
<1>1. /\ q \in Nat /\ a * q <= d /\ d < a * q + a
      /\ p \in Nat /\ b * p <= d
  OBVIOUS
<1> HIDE DEF q, p
<1>2. PICK k \in Nat : b = a + k
  <2>1. b - a \in Nat /\ b = a + (b - a)
    OBVIOUS
  <2> QED
    BY <2>1
<1>3. a * p <= d
  <2>1. b * p = a * p + k * p /\ k * p \in Nat /\ a * p \in Nat
    BY <1>1, <1>2
  <2> QED
    BY <1>1, <2>1
<1>4. p > q => a * p >= a * q + a
  <2> SUFFICES ASSUME p > q PROVE a * p >= a * q + a
    OBVIOUS
  <2>1. PICK j \in Nat : p = q + 1 + j
    <3>1. p - q - 1 \in Nat /\ p = q + 1 + (p - q - 1)
      BY <1>1
    <3> QED
      BY <3>1
  <2>2. a * p = a * q + a + a * j /\ a * j \in Nat
    BY <1>1, <2>1
  <2> QED
    BY <1>1, <2>2
<1>5. a * p \in Nat /\ a * q \in Nat
  BY <1>1
<1> QED
  BY <1>1, <1>3, <1>4, <1>5 DEF q, p

\* The sum of d \div k over the amounts below x: as the logarithm does, it
\* grows from x to y by no more than the return from x to y, over d.
Shares(d) == [k \in Nat \ {0} |-> d \div k]
Climb(d, x) == SumTo(Shares(d), x - 1)

LEMMA ClimbStep ==
  ASSUME NEW d \in Nat, NEW x \in Nat \ {0}
  PROVE  /\ Climb(d, x) \in Int /\ Climb(d, x + 1) \in Int
         /\ d \div x \in Nat
         /\ Climb(d, x + 1) = Climb(d, x) + d \div x
<1>1. \A k \in Nat \ {0} : Shares(d)[k] = d \div k /\ d \div k \in Nat
  BY DEF Shares
<1>2. /\ x - 1 \in Nat /\ x \in Nat /\ (x - 1) + 1 = x /\ (x + 1) - 1 = x
      /\ \A i \in 1 .. x : Shares(d)[i] \in Int
      /\ \A i \in 1 .. x - 1 : Shares(d)[i] \in Int
  BY <1>1
<1>3. SumTo(Shares(d), x - 1) \in Int /\ SumTo(Shares(d), x) \in Int
  BY <1>2, SumType
<1>4. SumTo(Shares(d), (x - 1) + 1) = SumTo(Shares(d), x - 1) + Shares(d)[(x - 1) + 1]
  BY <1>2, SumNext
<1> QED
  BY <1>1, <1>2, <1>3, <1>4 DEF Climb

LEMMA ClimbBounds ==
  ASSUME NEW d \in Nat, NEW x \in Nat \ {0}, NEW y \in Nat \ {0}, x <= y
  PROVE  /\ d \div x \in Nat /\ d \div y \in Nat
         /\ (y - x) * (d \div y) <= Climb(d, y) - Climb(d, x)
         /\ Climb(d, y) - Climb(d, x) <= (y - x) * (d \div x)
<1> DEFINE top == d \div x
           Good(j) == /\ j * (d \div (x + j)) <= Climb(d, x + j) - Climb(d, x)
                      /\ Climb(d, x + j) - Climb(d, x) <= j * top
           G == { j \in Nat : Good(j) }
<1>1. 0 \in G
  <2>1. Climb(d, x) \in Int /\ top \in Nat
    BY ClimbStep, Zenon
  <2>2. x + 0 = x
    OBVIOUS
  <2> HIDE DEF top
  <2>3. 0 * (d \div (x + 0)) = 0
    <3>1. d \div x \in Nat
      BY <2>1 DEF top
    <3> QED
      BY <2>2, <3>1
  <2>4. Good(0)
    BY <2>1, <2>2, <2>3
  <2> QED
    BY <2>4
<1>2. ASSUME NEW j \in Nat, j \in G PROVE j + 1 \in G
  <2> DEFINE z == x + j
             low == d \div z
             lower == d \div (z + 1)
             c0 == Climb(d, x)
             c1 == Climb(d, z)
             c2 == Climb(d, z + 1)
  <2>1. z \in Nat \ {0} /\ z + 1 \in Nat \ {0} /\ x <= z /\ z <= z + 1 /\ x + (j + 1) = z + 1
    OBVIOUS
  <2>2. j * low <= c1 - c0 /\ c1 - c0 <= j * top
    BY <1>2
  <2> HIDE DEF z
  <2>3. /\ low \in Nat /\ low <= top /\ lower \in Nat /\ lower <= low /\ top \in Nat
    <3>1. d \div z \in Nat /\ d \div z <= d \div x
      BY <2>1, QuotientsFall, Zenon
    <3>2. d \div (z + 1) \in Nat /\ d \div (z + 1) <= d \div z
      BY <2>1, QuotientsFall, Zenon
    <3>3. d \div x \in Nat
      BY ClimbStep, Zenon
    <3> QED
      BY <3>1, <3>2, <3>3
  <2>4. c0 \in Int /\ c1 \in Int /\ c2 \in Int /\ c2 = c1 + low
    BY <2>1, ClimbStep
  <2> HIDE DEF top, low, lower, c0, c1, c2
  <2>5. PICK u \in Nat : low = lower + u
    <3>1. low - lower \in Nat /\ low = lower + (low - lower)
      BY <2>3
    <3> QED
      BY <3>1
  <2>6. (j + 1) * lower = j * lower + lower /\ j * low = j * lower + j * u /\ j * u \in Nat /\ j * lower \in Nat
    BY <2>3, <2>5
  <2>7. (j + 1) * lower <= c2 - c0
    BY <2>2, <2>3, <2>4, <2>5, <2>6
  <2>8. (j + 1) * top = j * top + top /\ j * top \in Nat
    BY <2>3
  <2>9. c2 - c0 <= (j + 1) * top
    BY <2>2, <2>3, <2>4, <2>8
  <2>10. /\ (j + 1) * (d \div (x + (j + 1))) <= Climb(d, x + (j + 1)) - Climb(d, x)
         /\ Climb(d, x + (j + 1)) - Climb(d, x) <= (j + 1) * top
    BY <2>1, <2>7, <2>9 DEF lower, c2, c0
  <2>11. j + 1 \in Nat
    OBVIOUS
  <2> QED
    BY <2>10, <2>11, Zenon
<1>3. \A j \in Nat : j \in G
  <2> HIDE DEF G
  <2> QED
    BY <1>1, <1>2, AllReached
<1>4. y - x \in Nat /\ x + (y - x) = y
  OBVIOUS
<1>5. Good(y - x)
  BY <1>3, <1>4
<1>6. d \div x \in Nat /\ d \div y \in Nat
  BY QuotientsFall
<1> QED
  BY <1>4, <1>5, <1>6

LEMMA ReturnClimbs ==
  ASSUME NEW d \in Nat, NEW x \in Nat \ {0}, NEW y \in Nat \ {0}
  PROVE  /\ Climb(d, y) - Climb(d, x) <= (y - x) * (d \div x)
         /\ y >= x => Climb(d, y) - Climb(d, x) >= 0
         /\ (y - x) * (d \div x) \in Int
<1>1. Climb(d, x) \in Int /\ Climb(d, y) \in Int
  BY ClimbStep
<1>2. CASE x <= y
  <2>1. /\ d \div x \in Nat /\ d \div y \in Nat
        /\ (y - x) * (d \div y) <= Climb(d, y) - Climb(d, x)
        /\ Climb(d, y) - Climb(d, x) <= (y - x) * (d \div x)
    BY <1>2, ClimbBounds
  <2>2. y - x \in Nat
    BY <1>2
  <2> DEFINE q == d \div y
             p == d \div x
  <2>3. q \in Nat /\ p \in Nat /\ (y - x) * q <= Climb(d, y) - Climb(d, x)
    BY <2>1
  <2> HIDE DEF q, p
  <2>4. (y - x) * q \in Nat /\ (y - x) * p \in Int
    BY <2>2, <2>3
  <2>5. Climb(d, y) - Climb(d, x) >= 0
    BY <1>1, <2>3, <2>4
  <2> QED
    BY <2>1, <2>4, <2>5 DEF p
<1>3. CASE ~(x <= y)
  <2>1. /\ d \div x \in Nat
        /\ (x - y) * (d \div x) <= Climb(d, x) - Climb(d, y)
    <3>1. y <= x
      BY <1>3
    <3> QED
      BY <3>1, ClimbBounds, Zenon
  <2> DEFINE p == d \div x
  <2>2. p \in Nat /\ (x - y) * p <= Climb(d, x) - Climb(d, y)
    BY <2>1
  <2> HIDE DEF p
  <2>3. (y - x) * p = -((x - y) * p) /\ (x - y) * p \in Int
    BY <2>2
  <2>4. Climb(d, y) - Climb(d, x) <= (y - x) * p /\ (y - x) * p \in Int
    BY <1>1, <2>2, <2>3
  <2> QED
    BY <1>3, <2>4 DEF p
<1> QED
  BY <1>2, <1>3

-----------------------------------------------------------------------------
(* The Sharpe ratio *)

Positive == \A i \in 1 .. Len(equity_curve) : equity_curve[i] > 0

\* A curve that stays positive and ends higher than it began has no negative
\* mean of returns: each return is at least what Climb grows by.
LEMMA GainsAverageWell ==
  ASSUME CurveInv, Positive, NEW n \in Nat, n = Len(equity_curve) - 1,
         equity_curve[n + 1] >= equity_curve[1]
  PROVE  SumTo(Returns, n) \in Int /\ SumTo(Returns, n) >= 0
<1> DEFINE common == ProductTo([i \in 1 .. n |-> Start(i)], n)
           climbs == [i \in 1 .. n + 1 |-> Climb(common, equity_curve[i])]
           steps == [i \in 1 .. n |-> climbs[i + 1] - climbs[i]]
           R == Returns
<1>1. \A i \in 1 .. n + 1 : equity_curve[i] \in Nat \ {0}
  <2>1. Len(equity_curve) = n + 1 /\ \A i \in 1 .. Len(equity_curve) : equity_curve[i] \in Int
    BY LenProperties, ElementOfSeq DEF CurveInv
  <2> QED
    BY <2>1 DEF Positive
<1>2. \A i \in 1 .. n : i \in Invested /\ Start(i) = equity_curve[i]
  BY <1>1 DEF Invested, Start
<1>3. common \in Nat
  <2> DEFINE f == [i \in 1 .. n |-> Start(i)]
  <2>1. \A i \in 1 .. n : f[i] \in Nat
    BY <1>1, <1>2
  <2> HIDE DEF f
  <2>2. ProductTo(f, n) \in Nat
    BY <2>1, ProductType
  <2> QED
    BY <2>2 DEF f
<1>4. \A i \in 1 .. n :
        R[i] = (equity_curve[i + 1] - equity_curve[i]) * (common \div equity_curve[i])
  <2>1. R = [i \in 1 .. n |-> IF i \in Invested
                                THEN (equity_curve[i + 1] - equity_curve[i]) * (common \div Start(i))
                                ELSE 0]
    BY DEF Returns
  <2> HIDE DEF R, common
  <2> QED
    BY <1>2, <2>1
<1> HIDE DEF common, R
<1>5. \A i \in 1 .. n + 1 : climbs[i] \in Int
  BY <1>1, <1>3, ClimbStep
<1>6. \A i \in 1 .. n : steps[i] \in Int /\ R[i] \in Int /\ steps[i] <= R[i]
  <2> SUFFICES ASSUME NEW i \in 1 .. n
               PROVE  steps[i] \in Int /\ R[i] \in Int /\ steps[i] <= R[i]
    OBVIOUS
  <2>1. /\ i \in 1 .. n + 1 /\ i + 1 \in 1 .. n + 1
        /\ equity_curve[i] \in Nat \ {0} /\ equity_curve[i + 1] \in Nat \ {0}
    BY <1>1
  <2>2. steps[i] = Climb(common, equity_curve[i + 1]) - Climb(common, equity_curve[i])
    BY <2>1
  <2>3. steps[i] \in Int
    BY <1>5, <2>1
  <2>4. /\ (equity_curve[i + 1] - equity_curve[i]) * (common \div equity_curve[i]) \in Int
        /\ Climb(common, equity_curve[i + 1]) - Climb(common, equity_curve[i])
             <= (equity_curve[i + 1] - equity_curve[i]) * (common \div equity_curve[i])
    BY <1>3, <2>1, ReturnClimbs, Zenon
  <2> HIDE DEF steps, climbs
  <2> QED
    BY <1>4, <2>2, <2>3, <2>4
<1>7. SumTo(steps, n) = climbs[n + 1] - climbs[1]
  <2>1. \A i \in 1 .. n : steps[i] = climbs[i + 1] - climbs[i]
    OBVIOUS
  <2> HIDE DEF steps, climbs
  <2> QED
    BY <1>5, <2>1, SumTelescopes
<1>8. climbs[n + 1] - climbs[1] >= 0
  <2>1. /\ 1 \in 1 .. n + 1 /\ n + 1 \in 1 .. n + 1
        /\ equity_curve[1] \in Nat \ {0} /\ equity_curve[n + 1] \in Nat \ {0}
    BY <1>1
  <2>2. Climb(common, equity_curve[n + 1]) - Climb(common, equity_curve[1]) >= 0
    BY <1>3, <2>1, ReturnClimbs, Zenon
  <2> QED
    BY <2>1, <2>2
<1> HIDE DEF steps, climbs
<1>9. SumTo(R, n) \in Int /\ SumTo(steps, n) \in Int /\ SumTo(steps, n) <= SumTo(R, n)
  BY <1>6, SumType, SumsCompare
<1>10. SumTo(R, n) \in Int /\ SumTo(R, n) >= 0
  BY <1>5, <1>7, <1>8, <1>9
<1> QED
  BY <1>10 DEF R

LEMMA SquareIsNat == ASSUME NEW x \in Int PROVE x * x \in Nat
<1>1. CASE x >= 0
  BY <1>1
<1>2. CASE x < 0
  <2>1. x * x = (-x) * (-x) /\ -x \in Nat
    BY <1>2
  <2> QED
    BY <2>1
<1> QED
  BY <1>1, <1>2

\* The ratio has the sign of the mean.
LEMMA RatioHasSign ==
  ASSUME CurveInv, NEW r \in SharpeRatios,
         Len(equity_curve) >= 2 => /\ SumTo(Returns, Len(equity_curve) - 1) \in Int
                                   /\ SumTo(Returns, Len(equity_curve) - 1) >= 0
  PROVE  r.num >= 0
<1> DEFINE steps == Len(equity_curve) - 1
           n == Cardinality(Invested)
           sum == SumTo(Returns, steps)
           spreads == [i \in 1 .. steps |->
                        IF i \in Invested THEN (n * Returns[i] - sum) * (n * Returns[i] - sum) ELSE 0]
           spread == SumTo(spreads, steps)
           num == sum * (IF sum > 0 THEN sum ELSE -sum) * (n - 1)
<1>1. /\ Len(equity_curve) \in Nat
      /\ Invested \in SUBSET (1 .. steps)
      /\ \A i \in 1 .. Len(equity_curve) : equity_curve[i] \in Int
  BY LenProperties, ElementOfSeq DEF CurveInv, Invested
<1>2. IsFiniteSet(Invested) /\ n \in Nat
  <2>1. IsFiniteSet(1 .. steps)
    BY <1>1, FS_Interval
  <2> QED
    BY <1>1, <2>1, FS_Subset, FS_CardinalityType
<1>3. r \in IF n < 2 \/ (spread = 0 /\ sum = 0) THEN {Zero}
            ELSE IF spread = 0 THEN {Zero, Ratio(IF sum > 0 THEN 1 ELSE -1, 0)}
            ELSE {Ratio(num, spread)}
  BY DEF SharpeRatios
<1>4. Zero.num = 0
  BY RatioType
<1>5. CASE n < 2
  BY <1>3, <1>4, <1>5
<1>6. CASE ~(n < 2)
  <2>1. steps \in Nat /\ Len(equity_curve) >= 2
    <3>1. Invested # {}
      BY <1>6, <1>2, FS_EmptySet
    <3>2. PICK i : i \in 1 .. steps
      BY <1>1, <3>1
    <3> QED
      BY <1>1, <3>2
  <2>2. sum \in Int /\ sum >= 0
    BY <2>1
  <2>3. \A i \in 1 .. steps : Returns[i] \in Int
    <3> DEFINE common == ProductTo([i \in 1 .. steps |-> Start(i)], steps)
    <3>1. \A i \in 1 .. steps : /\ Start(i) \in Nat \ {0}
                                /\ equity_curve[i] \in Int /\ equity_curve[i + 1] \in Int
      BY <1>1, <2>1 DEF Start, Invested
    <3>2. common \in Nat
      <4> DEFINE f == [i \in 1 .. steps |-> Start(i)]
      <4>1. \A i \in 1 .. steps : f[i] \in Nat
        BY <3>1
      <4> HIDE DEF f, steps
      <4>2. ProductTo(f, steps) \in Nat
        BY <2>1, <4>1, ProductType
      <4> QED
        BY <4>2 DEF f
    <3>3. Returns = [i \in 1 .. steps |->
                      IF i \in Invested THEN (equity_curve[i + 1] - equity_curve[i]) * (common \div Start(i))
                      ELSE 0]
      BY DEF Returns
    <3> HIDE DEF common, steps
    <3> SUFFICES ASSUME NEW i \in 1 .. steps PROVE Returns[i] \in Int
      OBVIOUS
    <3> DEFINE q == common \div Start(i)
               move == equity_curve[i + 1] - equity_curve[i]
    <3>4. q \in Int /\ move \in Int
      BY <3>1, <3>2
    <3>5. Returns[i] = IF i \in Invested THEN move * q ELSE 0
      BY <3>3
    <3> HIDE DEF q, move
    <3> QED
      BY <3>4, <3>5
  <2>4. spread \in Nat
    <3>1. \A i \in 1 .. steps : spreads[i] \in Nat
      <4> SUFFICES ASSUME NEW i \in 1 .. steps PROVE spreads[i] \in Nat
        OBVIOUS
      <4> DEFINE x == n * Returns[i] - sum
      <4>1. x \in Int
        <5>1. Returns[i] \in Int
          BY <2>3
        <5> HIDE DEF n, sum
        <5> QED
          BY <1>2, <2>2, <5>1
      <4>2. spreads[i] = IF i \in Invested THEN x * x ELSE 0
        OBVIOUS
      <4> HIDE DEF x, spreads
      <4>3. x * x \in Nat
        BY <4>1, SquareIsNat
      <4> QED
        BY <4>2, <4>3
    <3> HIDE DEF spreads, steps
    <3>2. spread \in Int /\ ~(spread < 0)
      <4>1. \A i \in 1 .. steps : spreads[i] \in Int /\ ~(spreads[i] < 0)
        BY <3>1
      <4> QED
        BY <2>1, <4>1, SumType, SumHasSign
    <3> QED
      BY <3>2
  <2>5. num \in Nat
    <3> HIDE DEF n, sum
    <3>1. n - 1 \in Nat
      BY <1>2, <1>6
    <3>2. sum * (IF sum > 0 THEN sum ELSE -sum) \in Nat
      <4>1. CASE sum > 0
        BY <2>2, <4>1
      <4>2. CASE ~(sum > 0)
        <5>1. sum = 0
          BY <2>2, <4>2
        <5> QED
          BY <5>1
      <4> QED
        BY <4>1, <4>2
    <3> DEFINE m == sum * (IF sum > 0 THEN sum ELSE -sum)
    <3>3. m \in Nat
      BY <3>2
    <3> HIDE DEF m
    <3>4. m * (n - 1) \in Nat
      BY <3>1, <3>3
    <3> QED
      BY <3>4 DEF m
  <2> HIDE DEF spread, num, n
  <2>6. CASE spread = 0 /\ sum = 0
    BY <1>3, <1>4, <2>6
  <2>7. CASE spread = 0 /\ sum # 0
    <3>1. sum > 0
      BY <2>2, <2>7
    <3> HIDE DEF sum
    <3>2. Ratio(1, 0).num = 1
      BY DEF Ratio
    <3>3. r = Zero \/ r = Ratio(1, 0)
      BY <1>3, <1>6, <2>7, <3>1
    <3> QED
      BY <1>4, <3>2, <3>3
  <2>8. CASE spread # 0
    <3> HIDE DEF sum
    <3>1. r = Ratio(num, spread)
      BY <1>3, <1>6, <2>8
    <3>2. Ratio(num, spread) = [num |-> num, den |-> spread]
      BY <2>4, <2>5, RatioOverNat
    <3> QED
      BY <2>5, <3>1, <3>2
  <2> QED
    BY <2>6, <2>7, <2>8
<1> QED
  BY <1>5, <1>6

-----------------------------------------------------------------------------
(* What the caller is told *)

\* Whatever the amounts and however many bars: max_drawdown() returns the worst
\* relative fall of a curve that never goes below 0, and 100% or more exactly
\* for one that starts above 0 and reaches it.
THEOREM DrawdownIsExact == Spec => []DrawdownIsWorstFall
<1>1. Inv => DrawdownIsWorstFall
  <2> SUFFICES ASSUME Inv, Asked PROVE DrawdownIsWorstFall
    BY DEF DrawdownIsWorstFall
  <2> DEFINE dd == metrics.max_drawdown
             n == Len(equity_curve)
             Falls == { i \in 1 .. n : equity_curve[i] > 0 } \X (1 .. n)
  <2>1. IsDrawdown(dd, n) /\ n \in Nat /\ equity_curve \in Seq(Int)
    BY LenProperties DEF Inv, AnswerInv, CurveInv
  <2>2. ASSUME Solvent
        PROVE  /\ \A f \in Falls : f[1] <= f[2] => ~Exceeds(Fall(f[1], f[2]), dd)
               /\ dd = Zero \/ \E f \in Falls : f[1] < f[2] /\ dd = Fall(f[1], f[2])
    <3>1. NoneWorse(dd, n) /\ IsAFall(dd, n)
      BY <2>1, <2>2 DEF IsDrawdown
    <3>2. \A f \in Falls : f[1] <= f[2] => ~Exceeds(Fall(f[1], f[2]), dd)
      BY <3>1 DEF NoneWorse
    <3>3. dd = Zero \/ \E f \in Falls : f[1] < f[2] /\ dd = Fall(f[1], f[2])
      <4> SUFFICES ASSUME dd # Zero
                   PROVE  \E f \in Falls : f[1] < f[2] /\ dd = Fall(f[1], f[2])
        OBVIOUS
      <4>1. PICK i \in 1 .. n, j \in 1 .. n :
                 i < j /\ equity_curve[i] > 0 /\ dd = Fall(i, j)
        BY <3>1 DEF IsAFall
      <4>2. <<i, j>> \in Falls /\ <<i, j>>[1] = i /\ <<i, j>>[2] = j
        BY <4>1
      <4> HIDE DEF Falls, dd
      <4> QED
        BY <4>1, <4>2
    <3> QED
      BY <3>2, <3>3
  <2>3. ASSUME n > 0, equity_curve[1] > 0
        PROVE  dd.num >= dd.den <=> \E i \in 1 .. n : equity_curve[i] <= 0
    <3>1. equity_curve # <<>>
      BY <2>1, <2>3, EmptySeq
    <3> QED
      BY <2>1, <2>3, <3>1 DEF IsDrawdown, ShowsRuin
  <2> QED
    BY <2>2, <2>3 DEF DrawdownIsWorstFall, Solvent
<1> QED
  BY Inductive, <1>1, PTL

\* Whatever the amounts and however many bars: total_return() shows a solvent
\* session no greater loss than max_drawdown() does.
THEOREM LossIsADrawdown == Spec => []LossWithinDrawdown
<1>1. Inv => LossWithinDrawdown
  <2> DEFINE dd == metrics.max_drawdown
             n == Len(equity_curve)
             loss == Ratio(-metrics.total_return.num, metrics.total_return.den)
  <2> SUFFICES ASSUME Inv, Asked, \A i \in 1 .. n : equity_curve[i] > 0
               PROVE  ~Exceeds(loss, dd)
    BY DEF LossWithinDrawdown
  <2>1. /\ IsDrawdown(dd, n) /\ n \in Nat /\ equity_curve \in Seq(Int)
        /\ metrics.total_return = TotalReturn
        /\ \A i \in 1 .. n : equity_curve[i] \in Int
    BY LenProperties, ElementOfSeq DEF Inv, AnswerInv, CurveInv
  <2>2. Solvent
    BY <2>1 DEF Solvent
  <2>3. dd \in Fractions /\ dd.num >= 0 /\ NoneWorse(dd, n)
    BY <2>1, <2>2 DEF IsDrawdown
  <2>4. CASE n < 2
    <3>1. TotalReturn = [num |-> 0, den |-> 1]
      BY <2>4, RatioType DEF TotalReturn
    <3>2. loss = [num |-> 0, den |-> 1]
      BY <2>1, <3>1 DEF Ratio
    <3> QED
      BY <2>3, <3>2 DEF Exceeds, Fractions
  <2>5. CASE ~(n < 2)
    <3>1. 1 \in 1 .. n /\ n \in 1 .. n /\ 1 <= n
      BY <2>1, <2>5
    <3>2. Head(equity_curve) = equity_curve[1] /\ Last(equity_curve) = equity_curve[n]
      BY DEF Last
    <3>3. /\ equity_curve[1] \in Nat /\ equity_curve[n] \in Int /\ equity_curve[1] > 0
          /\ equity_curve[n] - equity_curve[1] \in Int
          /\ equity_curve[1] - equity_curve[n] \in Int
          /\ -(equity_curve[n] - equity_curve[1]) = equity_curve[1] - equity_curve[n]
      BY <2>1, <3>1
    <3>4. TotalReturn = [num |-> equity_curve[n] - equity_curve[1], den |-> equity_curve[1]]
      BY <2>5, <3>2, <3>3, RatioOverNat DEF TotalReturn
    <3>5. loss = Fall(1, n)
      BY <2>1, <3>3, <3>4 DEF Fall
    <3> QED
      BY <2>3, <3>1, <3>3, <3>5 DEF NoneWorse
  <2> QED
    BY <2>4, <2>5
<1> QED
  BY Inductive, <1>1, PTL

\* What the caller was told, or is about to be, is of the present curve and
\* trades, from the cache or not.
RatesInv ==
    /\ trade_pnls \in Seq(Int)
    /\ sharpe_ready => sharpe \in SharpeRatios
    /\ pc = "drawdown" \/ Asked => metrics.sharpe \in SharpeRatios
    /\ Asked => metrics.win_rate = WinRate

LEMMA RatesStep == ASSUME Inv, RatesInv, [Next]_vars PROVE RatesInv'
<1>1. equity_curve' = equity_curve => SharpeRatios' = SharpeRatios
  <2> SUFFICES ASSUME equity_curve' = equity_curve PROVE SharpeRatios' = SharpeRatios
    OBVIOUS
  <2>1. Invested' = Invested
    BY DEF Invested
  <2>2. Returns' = Returns
    BY <2>1, Zenon DEF Returns, Start
  <2> QED
    BY <2>1, <2>2, Zenon DEF SharpeRatios
<1>2. trade_pnls' = trade_pnls => WinRate' = WinRate
  BY DEF WinRate
<1>3. CASE \E e \in Equities : RecordEquity(e)
  BY <1>2, <1>3 DEF RatesInv, RecordEquity, Asked, NotAsked
<1>4. CASE \E pnl \in Pnls : RecordTrade(pnl)
  <2>1. PICK pnl \in Pnls : RecordTrade(pnl)
    BY <1>4
  <2>2. pnl \in Int /\ trade_pnls' = Append(trade_pnls, pnl)
    BY <2>1, PerformanceAssumption DEF RecordTrade
  <2>3. trade_pnls' \in Seq(Int)
    BY <2>2, AppendProperties DEF RatesInv
  <2> QED
    BY <1>1, <2>1, <2>3 DEF RatesInv, RecordTrade, Asked, NotAsked
<1>5. CASE AskMetrics
  <2>1. sharpe' \in SharpeRatios
    BY <1>5 DEF AskMetrics, RatesInv
  <2> QED
    BY <1>1, <1>5, <2>1 DEF AskMetrics, RatesInv, Asked
<1>6. CASE DrawdownStep
  BY <1>1, <1>2, <1>6 DEF DrawdownStep, RatesInv, Asked
<1>7. CASE MetricsReturned
  BY <1>1, <1>2, <1>7 DEF MetricsReturned, RatesInv, Asked
<1>8. CASE UNCHANGED vars
  <2>1. UNCHANGED <<equity_curve, trade_pnls, sharpe, sharpe_ready, pc, metrics>>
    BY <1>8 DEF vars
  <2> QED
    BY <1>1, <1>2, <2>1 DEF RatesInv, Asked
<1> QED
  BY <1>3, <1>4, <1>5, <1>6, <1>7, <1>8 DEF Next

\* Trades that gained together have one that won, and trades that lost together one that did not.
LEMMA WinsShow ==
  ASSUME trade_pnls \in Seq(Int), NEW sum, sum = SumTo(trade_pnls, Len(trade_pnls))
  PROVE  /\ sum > 0 => WinRate.num > 0
         /\ sum < 0 => WinRate.num < WinRate.den
<1> DEFINE n == Len(trade_pnls)
           Wins == { i \in DOMAIN trade_pnls : trade_pnls[i] > 0 }
           wins == Cardinality(Wins)
<1>1. /\ n \in Nat /\ DOMAIN trade_pnls = 1 .. n
      /\ \A i \in 1 .. n : trade_pnls[i] \in Int
      /\ trade_pnls = <<>> <=> n = 0
  BY LenProperties, ElementOfSeq, EmptySeq
<1>2. IsFiniteSet(1 .. n) /\ Cardinality(1 .. n) = n
  <2> HIDE DEF n
  <2>0. 1 \in Int /\ n \in Int
    BY <1>1
  <2>1. /\ IsFiniteSet(1 .. n)
        /\ Cardinality(1 .. n) = IF 1 > n THEN 0 ELSE n - 1 + 1
    BY <2>0, FS_Interval, Zenon
  <2> QED
    BY <1>1, <2>1
<1>3. Wins \in SUBSET (1 .. n) /\ IsFiniteSet(Wins) /\ wins \in Nat
  BY <1>1, <1>2, FS_Subset, FS_CardinalityType
<1>4. WinRate = IF n = 0 THEN [num |-> 0, den |-> 1] ELSE [num |-> wins, den |-> n]
  <2>1. Ratio(wins, n) = [num |-> wins, den |-> n]
    <3> HIDE DEF wins, n
    <3> QED
      BY <1>1, <1>3, RatioOverNat
  <2> HIDE DEF n
  <2>2. Zero = [num |-> 0, den |-> 1]
    BY RatioType
  <2> QED
    BY <1>1, <2>1, <2>2 DEF WinRate, n
<1>5. /\ sum > 0 => \E i \in 1 .. n : trade_pnls[i] > 0
      /\ sum < 0 => \E i \in 1 .. n : trade_pnls[i] < 0
  BY <1>1, SumHasSign
<1>6. ASSUME sum > 0 PROVE WinRate.num > 0
  <2>1. PICK i \in 1 .. n : trade_pnls[i] > 0
    BY <1>5, <1>6
  <2>2. i \in Wins /\ n # 0
    BY <1>1, <2>1
  <2>3. wins # 0
    BY <1>3, <2>2, FS_EmptySet
  <2> HIDE DEF wins, n
  <2>4. WinRate = [num |-> wins, den |-> n]
    BY <1>4, <2>2
  <2> QED
    BY <1>3, <2>3, <2>4
<1>7. ASSUME sum < 0 PROVE WinRate.num < WinRate.den
  <2>1. PICK i \in 1 .. n : trade_pnls[i] < 0
    BY <1>5, <1>7
  <2>2. i \notin Wins /\ n # 0
    BY <1>1, <2>1
  <2>3. wins <= n /\ wins # n
    <3>1. Wins # 1 .. n
      BY <2>1, <2>2
    <3> HIDE DEF Wins, n
    <3> QED
      BY <1>2, <1>3, <3>1, FS_Subset
  <2> HIDE DEF wins, n
  <2>4. WinRate = [num |-> wins, den |-> n]
    BY <1>4, <2>2
  <2> QED
    BY <1>1, <1>3, <2>3, <2>4
<1> QED
  BY <1>6, <1>7

\* Whatever the amounts, however many bars and trades: a solvent session that
\* ended with a gain is shown no negative Sharpe ratio, no loss beyond its
\* drawdown, and a win rate its trades' sum does not contradict.
THEOREM MetricsDoAgree == Spec => []MetricsAgree
<1>1. Init => RatesInv
  BY EmptySeq DEF Init, RatesInv, Asked, NotAsked
<1>2. Spec => []RatesInv
  BY <1>1, RatesStep, Inductive, PTL DEF Spec
<1>3. Inv /\ RatesInv /\ LossWithinDrawdown => MetricsAgree
  <2> SUFFICES ASSUME Inv, RatesInv, LossWithinDrawdown, Asked
               PROVE  /\ /\ \A i \in 1 .. Len(equity_curve) : equity_curve[i] > 0
                         /\ Exceeds(metrics.total_return, Zero)
                         => metrics.sharpe.num >= 0
                      /\ SumTo(trade_pnls, Len(trade_pnls)) > 0 => metrics.win_rate.num > 0
                      /\ SumTo(trade_pnls, Len(trade_pnls)) < 0 =>
                           metrics.win_rate.num < metrics.win_rate.den
    BY DEF MetricsAgree
  <2>1. /\ CurveInv /\ metrics.total_return = TotalReturn
        /\ metrics.sharpe \in SharpeRatios /\ metrics.win_rate = WinRate
        /\ trade_pnls \in Seq(Int)
    BY DEF Inv, AnswerInv, RatesInv
  <2>2. ASSUME \A i \in 1 .. Len(equity_curve) : equity_curve[i] > 0,
               Exceeds(metrics.total_return, Zero)
        PROVE  metrics.sharpe.num >= 0
    <3> DEFINE n == Len(equity_curve) - 1
               first == equity_curve[1]
               last == equity_curve[n + 1]
    <3>1. /\ Len(equity_curve) \in Nat
          /\ \A i \in 1 .. Len(equity_curve) : equity_curve[i] \in Int
          /\ Zero = [num |-> 0, den |-> 1]
      BY <2>1, LenProperties, ElementOfSeq, RatioType DEF CurveInv
    <3>2. Len(equity_curve) >= 2
      <4> SUFFICES ASSUME Len(equity_curve) < 2 PROVE FALSE
        BY <3>1
      <4>1. TotalReturn = [num |-> 0, den |-> 1]
        BY <3>1 DEF TotalReturn
      <4> QED
        BY <2>1, <2>2, <3>1, <4>1 DEF Exceeds
    <3>3. n \in Nat /\ first \in Nat /\ first > 0 /\ last \in Int /\ n + 1 = Len(equity_curve)
      BY <2>2, <3>1, <3>2
    <3>4. TotalReturn = [num |-> last - first, den |-> first]
      <4>1. Head(equity_curve) = first /\ Last(equity_curve) = last
        BY <3>1, <3>3 DEF Last
      <4>2. ~(Len(equity_curve) < 2) /\ last - first \in Int
        BY <3>1, <3>2, <3>3
      <4> HIDE DEF first, last
      <4> QED
        BY <3>3, <4>1, <4>2, RatioOverNat DEF TotalReturn
    <3>5. last >= first
      <4> HIDE DEF first, last
      <4> QED
        BY <2>1, <2>2, <3>1, <3>3, <3>4 DEF Exceeds
    <3>6. SumTo(Returns, n) \in Int /\ SumTo(Returns, n) >= 0
      BY <2>1, <2>2, <3>3, <3>5, GainsAverageWell DEF Positive
    <3> QED
      BY <2>1, <3>6, RatioHasSign
  <2>3. /\ SumTo(trade_pnls, Len(trade_pnls)) > 0 => metrics.win_rate.num > 0
        /\ SumTo(trade_pnls, Len(trade_pnls)) < 0 => metrics.win_rate.num < metrics.win_rate.den
    BY <2>1, WinsShow, Zenon
  <2> QED
    BY <2>2, <2>3
<1> QED
  BY <1>2, <1>3, Inductive, LossIsADrawdown, PTL

=============================================================================
