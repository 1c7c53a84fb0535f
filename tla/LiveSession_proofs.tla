-------------------------- MODULE LiveSession_proofs --------------------------
(***************************************************************************)
(* Proofs about LiveSession, for any threads that tick, read and stop it   *)
(* in any interleaving, every set of closes and timestamps, every fee,     *)
(* width of the quantity and capacity of the queue.                        *)
(***************************************************************************)
EXTENDS LiveSession, Cascade_proofs, FiniteSetTheorems

-----------------------------------------------------------------------------
(* The inductive invariant *)

\* A bar is being drained.
Draining == \E t \in Thread : pc[t] = "drain"

\* The threads in a call of tick() that has not returned.
Ticking == { t \in Thread : pc[t] \in {"tick", "drain"} }

\* The bodies of both calls run inside mtx_, by one thread at a time.
LockInv ==
    /\ \A t \in Thread :
         t \in mtx <=> pc[t] \in {"drain", "counts", "position", "series", "metrics"}
    /\ \A t, u \in mtx : t = u

\* Every call of tick() adds a bar at most.
CallsInv ==
    /\ ticks \in 0 .. MaxTicks
    /\ IsFiniteSet(Ticking)
    /\ barCount + Cardinality(Ticking) <= ticks

\* Between two bars the series are of equal length and the last point of the
\* curve is what the account is worth; while a bar is drained, what it has
\* behind it follows from the rank of its event in the queue.
BarsInv ==
    /\ Len(equityCurve) = barCount
    /\ BarsStamped(marketData)
    /\ ~Draining =>
         /\ queue = <<>>
         /\ Len(marketData) = barCount
         /\ MarkedEquity = Equity
         /\ eventCount \in barCount .. 4 * barCount
    /\ Draining =>
         /\ eventCount >= barCount
         /\ eventCount <= 4 * barCount + Rank
         /\ Rank = 0 => /\ Len(marketData) = barCount
                        /\ ts \in {barCount} \cup (Stamps \ {0})
         /\ Rank > 0 => /\ eventCount >= barCount + 1
                        /\ Len(marketData) = barCount + 1
                        /\ latestClose \in Closes
                        /\ marketData[barCount + 1].close = latestClose

\* The bars a signal may index: the one being drained has its own as soon as
\* it is past the strategy.
Signalled == IF Draining /\ Rank >= 2 THEN barCount + 1 ELSE barCount

SignalQueued == queue # <<>> /\ Head(queue).kind = "signal"
TradeQueued == queue # <<>> /\ Head(queue).kind \in {"order", "fill"}

\* The signals kept so far, and the one on its way to be kept, alternate with
\* the strategy's position; nothing is bought without one.
SignalsInv ==
    /\ SignalsMatch(signals, marketData, Signalled)
    /\ SignalQueued => Head(queue).direction = IF inPosition THEN "LONG" ELSE "EXIT"
    /\ (inPosition <=> Len(signals) % 2 = 1) <=> ~SignalQueued
    /\ entryFees > 0 \/ TradeQueued => signals # <<>>

\* A cached ratio is the one of the curve as it is.
SharpeInv ==
    /\ sharpeFor \in Nat
    /\ sharpeReady \in BOOLEAN
    /\ sharpeReady => sharpeFor = Len(equityCurve)

\* After stop() no more than the bar that was being drained is added.
StopInv ==
    /\ barsAtStop \in Int
    /\ ~running => /\ barCount <= barsAtStop + 1
                   /\ Draining => barCount <= barsAtStop

\* What get_state() has filled in so far is what the session still is.
CountsRead(s) ==
    /\ s.bar_count = barCount
    /\ s.event_count = eventCount
    /\ s.cash = cash
    /\ s.equity = MarkedEquity
    /\ ~s.running => ~running

PositionRead(s) ==
    /\ s.market_value = Worth(position, latestClose)
    /\ s.unrealized_pnl = Worth(position, latestClose) - costBasis

SeriesRead(s) ==
    /\ s.equity_curve = equityCurve
    /\ s.trade_pnls = realized
    /\ s.market_data = marketData
    /\ s.signals = signals

\* What a LiveState says once and for all,
Snapshot(s) ==
    /\ OfOneBar(s)
    /\ SignalsMatch(s.signals, s.market_data, s.bar_count)
    /\ BarsStamped(s.market_data)
    /\ s.sharpe_of = Len(s.equity_curve)

\* and what it says of the session for good when it says that it was stopped.
Final(s) == ~s.running => ~running /\ ~Draining /\ s.bar_count = barCount

ReaderInv(r) ==
    /\ pc[r] \in {"get_state", "counts", "position", "series", "metrics"} => ~Returned(r)
    /\ pc[r] \in {"position", "series", "metrics"} => CountsRead(state[r])
    /\ pc[r] \in {"series", "metrics"} => PositionRead(state[r])
    /\ pc[r] = "metrics" => SeriesRead(state[r])
    /\ Returned(r) => Snapshot(state[r]) /\ Final(state[r])

ReadersInv == \A r \in Reader : ReaderInv(r)

SessionInv == LockInv /\ CallsInv /\ BarsInv /\ SignalsInv /\ SharpeInv /\ StopInv

Inv == EngineInv /\ TypeOK /\ SessionInv /\ ReadersInv

-----------------------------------------------------------------------------
(* The series *)

\* A further bar is stamped, if it carries a timestamp or its own index.
LEMMA StampedAppend ==
  ASSUME NEW bars \in Seq(OHLCVBar), BarsStamped(bars), NEW bar \in OHLCVBar,
         bar.timestamp \in {Len(bars)} \cup (Stamps \ {0})
  PROVE  BarsStamped(Append(bars, bar))
<1> DEFINE longer == Append(bars, bar)
<1>1. /\ Len(bars) \in Nat /\ Len(longer) = Len(bars) + 1
      /\ \A i \in 1 .. Len(bars) : longer[i] = bars[i]
      /\ longer[Len(bars) + 1] = bar
  BY AppendProperties, LenProperties
<1>2. SUFFICES ASSUME NEW i \in 1 .. Len(longer)
               PROVE  longer[i].timestamp \in {i - 1} \cup (Stamps \ {0})
  BY DEF BarsStamped
<1>3. CASE i \in 1 .. Len(bars)
  BY <1>1, <1>3 DEF BarsStamped
<1>4. CASE i = Len(bars) + 1
  <2>1. i - 1 = Len(bars)
    BY <1>1, <1>4
  <2> QED
    BY <1>1, <1>4, <2>1
<1> QED
  BY <1>1, <1>2, <1>3, <1>4

\* The bar of a signal is a number.
LEMMA BarIndexNat ==
  ASSUME NEW sigs \in Seq(SignalRecord)
  PROVE  \A i \in 1 .. Len(sigs) : sigs[i].bar_index \in Nat
<1> SUFFICES ASSUME NEW i \in 1 .. Len(sigs) PROVE sigs[i].bar_index \in Nat
  OBVIOUS
<1>1. sigs[i] \in SignalRecord
  BY ElementOfSeq
<1> QED
  BY <1>1 DEF SignalRecord

\* A further bar leaves the bars of the signals where they are.
LEMMA SignalsMatchMoreBars ==
  ASSUME NEW sigs \in Seq(SignalRecord), NEW bars \in Seq(OHLCVBar), NEW bar \in OHLCVBar,
         NEW count \in Nat, count <= Len(bars), SignalsMatch(sigs, bars, count)
  PROVE  SignalsMatch(sigs, Append(bars, bar), count)
<1>1. Len(bars) \in Nat /\ \A i \in 1 .. Len(bars) : Append(bars, bar)[i] = bars[i]
  BY AppendProperties, LenProperties
<1>2. \A i \in 1 .. Len(sigs) : sigs[i].bar_index + 1 \in 1 .. Len(bars)
  <2> SUFFICES ASSUME NEW i \in 1 .. Len(sigs) PROVE sigs[i].bar_index + 1 \in 1 .. Len(bars)
    OBVIOUS
  <2>1. sigs[i].bar_index \in Nat /\ sigs[i].bar_index < count
    BY BarIndexNat DEF SignalsMatch
  <2> QED
    BY <1>1, <2>1
<1> QED
  BY <1>1, <1>2 DEF SignalsMatch

\* So does a bar that is completed.
LEMMA SignalsMatchMoreCount ==
  ASSUME NEW sigs \in Seq(SignalRecord), NEW bars, NEW count \in Nat, NEW more \in Nat,
         count <= more, SignalsMatch(sigs, bars, count)
  PROVE  SignalsMatch(sigs, bars, more)
<1>1. \A i \in 1 .. Len(sigs) : sigs[i].bar_index \in Nat
  BY BarIndexNat
<1> QED
  BY <1>1 DEF SignalsMatch

\* A further signal, of the next bar, in its turn.
LEMMA SignalsMatchAppend ==
  ASSUME NEW sigs \in Seq(SignalRecord), NEW bars \in Seq(OHLCVBar), NEW sig \in SignalRecord,
         SignalsMatch(sigs, bars, sig.bar_index),
         sig.price = bars[sig.bar_index + 1].close,
         sig.direction = IF Len(sigs) % 2 = 0 THEN "LONG" ELSE "EXIT"
  PROVE  SignalsMatch(Append(sigs, sig), bars, sig.bar_index + 1)
<1> DEFINE more == Append(sigs, sig)
           n == Len(sigs)
<1>1. /\ n \in Nat /\ Len(more) = n + 1
      /\ \A i \in 1 .. n : more[i] = sigs[i]
      /\ more[n + 1] = sig
  BY AppendProperties, LenProperties
<1>2. sig.bar_index \in Nat
  BY DEF SignalRecord
<1>3. \A i \in 1 .. n : sigs[i].bar_index \in Nat /\ sigs[i].bar_index < sig.bar_index
  BY BarIndexNat DEF SignalsMatch
<1>4. SUFFICES ASSUME NEW i \in 1 .. Len(more)
      PROVE  /\ more[i].bar_index < sig.bar_index + 1
             /\ more[i].price = bars[more[i].bar_index + 1].close
             /\ more[i].direction = IF i % 2 = 1 THEN "LONG" ELSE "EXIT"
             /\ i > 1 => more[i - 1].bar_index < more[i].bar_index
  BY DEF SignalsMatch
<1>5. CASE i \in 1 .. n
  <2>1. more[i] = sigs[i] /\ sigs[i].bar_index < sig.bar_index + 1
    BY <1>1, <1>2, <1>3, <1>5
  <2>2. i > 1 => more[i - 1] = sigs[i - 1]
    BY <1>1, <1>5
  <2> QED
    BY <1>5, <2>1, <2>2 DEF SignalsMatch
<1>6. CASE i = n + 1
  <2>1. more[i] = sig /\ sig.bar_index < sig.bar_index + 1
    BY <1>1, <1>2, <1>6
  <2>2. i > 1 => more[i - 1].bar_index < sig.bar_index
    <3>1. i > 1 => i - 1 \in 1 .. n
      BY <1>1, <1>6
    <3> QED
      BY <1>1, <1>3, <3>1
  <2>3. i % 2 = 1 <=> n % 2 = 0
    BY <1>1, <1>6
  <2> QED
    BY <2>1, <2>2, <2>3
<1> QED
  BY <1>1, <1>4, <1>5, <1>6

-----------------------------------------------------------------------------
(* What the invariant says of the steps of either call *)

\* The types, for the arithmetic.
LEMMA Typed ==
  ASSUME TypeOK
  PROVE  /\ barCount \in Nat /\ eventCount \in Nat /\ ts \in Nat
         /\ mtx \in SUBSET Thread
         /\ MaxTicks \in Nat
         /\ Reader \subseteq Thread /\ Ticker \subseteq Thread
         /\ Len(signals) \in Nat /\ Len(marketData) \in Nat
BY LiveSessionAssumption, LenProperties DEF TypeOK, Thread

\* No bar is drained while the lock is free, or held by a reader.
LEMMA LockExcludes ==
  ASSUME LockInv, TypeOK
  PROVE  /\ mtx = {} => ~Draining
         /\ \A t \in Thread : pc[t] \in {"counts", "position", "series", "metrics"} => ~Draining
         /\ \A t, u \in Thread :
              pc[t] = "drain" /\ pc[u] \in {"drain", "counts", "position", "series", "metrics"} => t = u
BY DEF LockInv, Draining

\* There is a call of tick() left for every bar in progress.
LEMMA BarWithinCalls ==
  ASSUME CallsInv, TypeOK
  PROVE  /\ barCount <= MaxTicks
         /\ Ticking # {} => barCount + 1 <= MaxTicks
<1>1. Cardinality(Ticking) \in Nat /\ (Ticking # {} => Cardinality(Ticking) # 0)
  BY FS_CardinalityType, FS_EmptySet DEF CallsInv
<1> QED
  BY <1>1, Typed DEF CallsInv

\* The rank of an event is one of five.
LEMMA RankRange == Rank \in 0 .. 4 /\ (queue = <<>> => Rank = 4)
BY DEF Rank

-----------------------------------------------------------------------------
(* What a step leaves alone *)

\* A step of one thread from one place of its call to another.
Moves(t, from, to) == pc[t] = from /\ pc' = [pc EXCEPT ![t] = to]

Places == {"idle", "tick", "drain", "get_state", "counts", "position", "series", "metrics"}

\* What a move changes.
LEMMA MoveEffects ==
  ASSUME TypeOK, NEW t \in Thread, NEW from \in Places, NEW to \in Places, Moves(t, from, to)
  PROVE  /\ pc' \in [Thread -> Places]
         /\ pc'[t] = to
         /\ \A u \in Thread \ {t} : pc'[u] = pc[u]
         /\ (from # "drain" /\ to # "drain") => Draining' = Draining
         /\ to = "drain" => Draining'
         /\ (from \in {"tick", "drain"} <=> to \in {"tick", "drain"}) => Ticking' = Ticking
         /\ (from \notin {"tick", "drain"} /\ to \in {"tick", "drain"}) =>
              t \notin Ticking /\ Ticking' = Ticking \cup {t}
         /\ (from \in {"tick", "drain"} /\ to \notin {"tick", "drain"}) =>
              t \in Ticking /\ Ticking' = Ticking \ {t}
<1>1. pc \in [Thread -> Places]
  BY DEF TypeOK, Places
<1>2. pc' \in [Thread -> Places] /\ pc'[t] = to /\ \A u \in Thread \ {t} : pc'[u] = pc[u]
  BY <1>1 DEF Moves
<1>3. (from # "drain" /\ to # "drain") => Draining' = Draining
  BY <1>2 DEF Moves, Draining
<1>4. to = "drain" => Draining'
  BY <1>2 DEF Draining
<1>5. \A u \in Thread : u \in Ticking <=> pc[u] \in {"tick", "drain"}
  BY DEF Ticking
<1>6. \A u \in Thread : u \in Ticking' <=> pc'[u] \in {"tick", "drain"}
  BY DEF Ticking
<1>7. Ticking \subseteq Thread /\ Ticking' \subseteq Thread
  BY DEF Ticking
<1> QED
  BY <1>2, <1>3, <1>4, <1>5, <1>6, <1>7 DEF Moves

\* The lock is held by who was given it.
LEMMA LockMoves ==
  ASSUME LockInv, TypeOK, NEW t \in Thread, NEW from \in Places, NEW to \in Places,
         Moves(t, from, to),
         LET inside(p) == p \in {"drain", "counts", "position", "series", "metrics"}
         IN  \/ (inside(from) <=> inside(to)) /\ mtx' = mtx
             \/ ~inside(from) /\ inside(to) /\ mtx = {} /\ mtx' = mtx \cup {t}
             \/ inside(from) /\ ~inside(to) /\ mtx' = mtx \ {t}
  PROVE  LockInv' /\ mtx' \in SUBSET Thread
<1> DEFINE inside(p) == p \in {"drain", "counts", "position", "series", "metrics"}
<1>1. pc'[t] = to /\ pc[t] = from /\ \A u \in Thread \ {t} : pc'[u] = pc[u]
  BY MoveEffects DEF Moves
<1>2. mtx \in SUBSET Thread /\ (t \in mtx <=> inside(from))
      /\ (\A u \in Thread : u \in mtx <=> inside(pc[u])) /\ \A u, v \in mtx : u = v
  BY <1>1 DEF LockInv, TypeOK
<1>3. \A u \in Thread : u \in mtx' <=> inside(pc'[u])
  <2> TAKE u \in Thread
  <2>1. CASE u = t
    BY <1>1, <1>2, <2>1
  <2>2. CASE u # t
    BY <1>1, <1>2, <2>2
  <2> QED
    BY <2>1, <2>2
<1>4. \A u, v \in mtx' : u = v
  BY <1>2
<1>5. mtx' \in SUBSET Thread
  BY <1>2
<1> QED
  BY <1>3, <1>4, <1>5 DEF LockInv

\* The series stay right while nobody touches engine and session.
LEMMA SessionFrame ==
  ASSUME EngineInv, BarsInv, SignalsInv, UNCHANGED <<engine, session>>, Draining' = Draining
  PROVE  EngineInv' /\ BarsInv' /\ SignalsInv'
<1>1. EngineInv'
  BY EngineInvUnchanged
<1>2. BarsInv'
  BY DEF BarsInv, BarsStamped, MarkedEquity, Equity, Worth, Rank, engine, session
<1>3. SignalsInv'
  BY DEF SignalsInv, SignalsMatch, Signalled, SignalQueued, TradeQueued, Rank, engine, session
<1> QED
  BY <1>1, <1>2, <1>3

\* A reader's state stays right while nobody touches it, engine and session;
\* stop() may come in between.
LEMMA ReaderFrame ==
  ASSUME NEW r \in Reader, ReaderInv(r), UNCHANGED <<engine, session>>, Draining' = Draining,
         running' => running, state'[r] = state[r],
         \A p \in {"get_state", "counts", "position", "series", "metrics"} :
           pc'[r] = p => pc[r] = p
  PROVE  ReaderInv(r)'
<1>1. /\ CountsRead(state[r]) => CountsRead(state[r])'
      /\ PositionRead(state[r]) => PositionRead(state[r])'
      /\ SeriesRead(state[r]) => SeriesRead(state[r])'
      /\ Final(state[r]) => Final(state[r])'
      /\ Returned(r)' = Returned(r)
  BY DEF CountsRead, PositionRead, SeriesRead, Final, Returned, MarkedEquity, Worth, engine, session
<1>2. Snapshot(state[r])' = Snapshot(state[r])
  BY DEF Snapshot, OfOneBar, SignalsMatch, BarsStamped
<1> QED
  BY <1>1, <1>2 DEF ReaderInv

\* While a bar is added no reader is inside get_state(), and what was returned
\* stays right, if that bar is not one it rules out.
LEMMA ReaderOutside ==
  ASSUME NEW r \in Reader, ReaderInv(r), state'[r] = state[r],
         pc'[r] \notin {"counts", "position", "series", "metrics"},
         pc'[r] = "get_state" => pc[r] = "get_state",
         Returned(r) => Final(state[r])'
  PROVE  ReaderInv(r)'
<1>1. Returned(r)' = Returned(r)
  BY DEF Returned
<1>2. Snapshot(state[r])' = Snapshot(state[r])
  BY DEF Snapshot, OfOneBar, SignalsMatch, BarsStamped
<1> QED
  BY <1>1, <1>2 DEF ReaderInv

-----------------------------------------------------------------------------
(* The initial state *)

\* The invariant holds of a new session.
LEMMA InitInv == Init => Inv
<1> SUFFICES ASSUME Init PROVE Inv
  OBVIOUS
<1>1. EngineInv /\ EngineTypeOK
  BY InitEngineInv DEF Init, EngineInv
<1>2. \A t \in Thread : pc[t] = "idle"
  BY DEF Init
<1>3. ~Draining /\ Ticking = {}
  BY <1>2 DEF Draining, Ticking
<1>4. Len(<<>>) = 0 /\ <<>> \in Seq(Int) /\ <<>> \in Seq(OHLCVBar) /\ <<>> \in Seq(SignalRecord)
      /\ 1 .. 0 = {}
  BY EmptySeq
<1>5. TypeOK
  <2>1. NoState \in LiveState
    BY <1>4 DEF NoState, LiveState
  <2>2. 0 \in 0 .. MaxTicks /\ 0 \in 0 .. 4 * MaxTicks
    BY LiveSessionAssumption
  <2>3. state \in [Reader -> LiveState]
    BY <2>1 DEF Init
  <2>4. pc \in [Thread -> {"idle", "tick", "drain", "get_state", "counts", "position", "series",
                          "metrics"}]
    BY DEF Init
  <2> QED
    BY <1>1, <1>4, <2>2, <2>3, <2>4 DEF Init, InitSession, TypeOK
<1>6. LockInv
  BY <1>2 DEF Init, InitSession, LockInv
<1>7. CallsInv
  BY <1>3, FS_EmptySet, LiveSessionAssumption DEF Init, InitSession, CallsInv
<1>8. BarsInv
  <2>1. MarkedEquity = Equity
    <3>1. Worth(0, 0) = 0
      BY TradingAssumption DEF Worth
    <3> QED
      BY <3>1, CascadeAssumption DEF Init, InitSession, InitEngine, MarkedEquity, Equity
  <2>2. BarsStamped(marketData)
    BY <1>4 DEF BarsStamped, Init, InitSession
  <2> QED
    BY <1>3, <1>4, <2>1, <2>2 DEF Init, InitSession, InitEngine, BarsInv
<1>9. SignalsInv
  BY <1>4 DEF Init, InitSession, InitEngine, SignalsInv, SignalsMatch, SignalQueued, TradeQueued
<1>10. SharpeInv /\ StopInv
  <2>1. sharpeReady = FALSE /\ running = TRUE /\ sharpeFor = 0 /\ barsAtStop = -1
    BY DEF Init, InitSession
  <2>2. 0 \in Nat /\ -1 \in Int
    OBVIOUS
  <2> QED
    BY <2>1, <2>2 DEF SharpeInv, StopInv
<1>11. ReadersInv
  <2> SUFFICES ASSUME NEW r \in Reader PROVE ReaderInv(r)
    BY DEF ReadersInv
  <2>1. pc[r] = "idle" /\ ~Returned(r)
    BY <1>2 DEF Init, Thread, NoState, Returned
  <2> QED
    BY <2>1 DEF ReaderInv
<1> QED
  BY <1>1, <1>5, <1>6, <1>7, <1>8, <1>9, <1>10, <1>11 DEF Inv, SessionInv

-----------------------------------------------------------------------------
(* The steps outside the lock *)

\* Calling tick() keeps the invariant.
LEMMA CallTickInv ==
  ASSUME Inv, NEW t \in Ticker, CallTick(t)
  PROVE  Inv'
<1>1. /\ Moves(t, "idle", "tick") /\ ticks < MaxTicks /\ ticks' = ticks + 1
      /\ UNCHANGED <<engine, session, sharpe, reads, mtx, running, state, barsAtStop>>
  BY DEF CallTick, Moves
<1>2. t \in Thread /\ Reader \subseteq Thread
  BY DEF Thread
<1>3. /\ pc' \in [Thread -> Places] /\ Draining' = Draining
      /\ t \notin Ticking /\ Ticking' = Ticking \cup {t}
      /\ pc'[t] = "tick" /\ \A u \in Thread \ {t} : pc'[u] = pc[u]
  BY <1>1, <1>2, MoveEffects DEF Inv, Places
<1>4. EngineInv' /\ BarsInv' /\ SignalsInv'
  BY <1>1, <1>3, SessionFrame DEF Inv, SessionInv
<1>5. LockInv'
  BY <1>1, <1>2, LockMoves DEF Inv, SessionInv, Places
<1>6. CallsInv'
  <2>1. IsFiniteSet(Ticking') /\ Cardinality(Ticking') = Cardinality(Ticking) + 1
    BY <1>3, FS_AddElement DEF Inv, SessionInv, CallsInv
  <2>2. Cardinality(Ticking) \in Nat
    BY FS_CardinalityType DEF Inv, SessionInv, CallsInv
  <2>3. barCount' = barCount /\ barCount \in Nat /\ MaxTicks \in Nat
    BY <1>1, Typed DEF session, Inv
  <2> QED
    BY <1>1, <2>1, <2>2, <2>3 DEF Inv, SessionInv, CallsInv
<1>7. TypeOK'
  BY <1>1, <1>3, <1>4 DEF Inv, TypeOK, EngineInv, session, Places
<1>8. SharpeInv' /\ StopInv'
  BY <1>1, <1>3 DEF Inv, SessionInv, SharpeInv, StopInv, session, sharpe
<1>9. ReadersInv'
  <2> SUFFICES ASSUME NEW r \in Reader PROVE ReaderInv(r)'
    BY DEF ReadersInv
  <2>1. ReaderInv(r)
    BY DEF Inv, ReadersInv
  <2>2. \A p \in {"get_state", "counts", "position", "series", "metrics"} : pc'[r] = p => pc[r] = p
    BY <1>2, <1>3
  <2> QED
    BY <1>1, <1>3, <2>1, <2>2, ReaderFrame
<1> QED
  BY <1>4, <1>5, <1>6, <1>7, <1>8, <1>9 DEF Inv, SessionInv

\* A tick that finds the session stopped keeps the invariant.
LEMMA TickStoppedInv ==
  ASSUME Inv, NEW t \in Ticker, TickStopped(t)
  PROVE  Inv'
<1>1. /\ Moves(t, "tick", "idle") /\ mtx = {}
      /\ UNCHANGED <<engine, session, sharpe, calls, mtx, running, state, barsAtStop>>
  BY DEF TickStopped, Moves
<1>2. t \in Thread /\ Reader \subseteq Thread
  BY DEF Thread
<1>3. /\ pc' \in [Thread -> Places] /\ Draining' = Draining
      /\ t \in Ticking /\ Ticking' = Ticking \ {t}
      /\ pc'[t] = "idle" /\ \A u \in Thread \ {t} : pc'[u] = pc[u]
  BY <1>1, <1>2, MoveEffects DEF Inv, Places
<1>4. EngineInv' /\ BarsInv' /\ SignalsInv'
  BY <1>1, <1>3, SessionFrame DEF Inv, SessionInv
<1>5. LockInv'
  BY <1>1, <1>2, LockMoves DEF Inv, SessionInv, Places
<1>6. CallsInv'
  <2>1. IsFiniteSet(Ticking') /\ Cardinality(Ticking') = Cardinality(Ticking) - 1
    BY <1>3, FS_RemoveElement DEF Inv, SessionInv, CallsInv
  <2>2. Cardinality(Ticking) \in Nat /\ Cardinality(Ticking') \in Nat
    BY <2>1, FS_CardinalityType DEF Inv, SessionInv, CallsInv
  <2>3. barCount' = barCount /\ barCount \in Nat /\ MaxTicks \in Nat /\ ticks' = ticks
    BY <1>1, Typed DEF session, calls, Inv
  <2> QED
    BY <2>1, <2>2, <2>3 DEF Inv, SessionInv, CallsInv
<1>7. TypeOK'
  BY <1>1, <1>3, <1>4 DEF Inv, TypeOK, EngineInv, session, Places
<1>8. SharpeInv' /\ StopInv'
  BY <1>1, <1>3 DEF Inv, SessionInv, SharpeInv, StopInv, session, sharpe
<1>9. ReadersInv'
  <2> SUFFICES ASSUME NEW r \in Reader PROVE ReaderInv(r)'
    BY DEF ReadersInv
  <2>1. ReaderInv(r)
    BY DEF Inv, ReadersInv
  <2>2. \A p \in {"get_state", "counts", "position", "series", "metrics"} : pc'[r] = p => pc[r] = p
    BY <1>2, <1>3
  <2> QED
    BY <1>1, <1>3, <2>1, <2>2, ReaderFrame
<1> QED
  BY <1>4, <1>5, <1>6, <1>7, <1>8, <1>9 DEF Inv, SessionInv

\* stop() keeps the invariant: the bar in progress is the last.
LEMMA StopStepInv ==
  ASSUME Inv, Stop
  PROVE  Inv'
<1>1. /\ running /\ running' = FALSE /\ barsAtStop' = barCount
      /\ UNCHANGED <<engine, session, sharpe, calls, mtx, pc, state>>
  BY DEF Stop
<1>2. Draining' = Draining /\ Ticking' = Ticking
  BY <1>1 DEF Draining, Ticking
<1>3. EngineInv' /\ BarsInv' /\ SignalsInv'
  BY <1>1, <1>2, SessionFrame DEF Inv, SessionInv
<1>4. LockInv' /\ CallsInv' /\ SharpeInv'
  BY <1>1, <1>2 DEF Inv, SessionInv, LockInv, CallsInv, SharpeInv, session, sharpe, calls
<1>5. TypeOK'
  BY <1>1, <1>3 DEF Inv, TypeOK, EngineInv, session
<1>6. StopInv'
  <2>1. barCount \in Nat /\ barCount' = barCount
    BY <1>1, Typed DEF Inv, session
  <2>2. barsAtStop' \in Int /\ barCount' <= barsAtStop' + 1 /\ barCount' <= barsAtStop'
    BY <1>1, <2>1
  <2> QED
    BY <2>2 DEF StopInv
<1>7. ReadersInv'
  <2> SUFFICES ASSUME NEW r \in Reader PROVE ReaderInv(r)'
    BY DEF ReadersInv
  <2>1. ReaderInv(r)
    BY DEF Inv, ReadersInv
  <2> QED
    BY <1>1, <1>2, <2>1, ReaderFrame
<1> QED
  BY <1>3, <1>4, <1>5, <1>6, <1>7 DEF Inv, SessionInv

-----------------------------------------------------------------------------
(* The steps of tick() under the lock *)

\* Starting a tick keeps the invariant: the bar is the only event queued.
LEMMA TickStartsInv ==
  ASSUME Inv, NEW t \in Ticker, TickStarts(t)
  PROVE  Inv'
<1>1. /\ Moves(t, "tick", "drain") /\ mtx = {} /\ running /\ mtx' = mtx \cup {t}
      /\ \E c \in Closes : Enqueue(queue, <<Market(c)>>)
      /\ UNCHANGED <<inPosition, latestClose, cash, position, costBasis, realized, entryFees>>
      /\ UNCHANGED <<barCount, eventCount, equityCurve, marketData, signals>>
      /\ UNCHANGED <<sharpe, calls, running, state, barsAtStop>>
  BY DEF TickStarts, PushBar, Moves
<1>2. PICK stamp \in Stamps : ts' = IF stamp > 0 THEN stamp ELSE barCount
  BY DEF TickStarts, PushBar
<1>3. t \in Thread /\ Reader \subseteq Thread
  BY DEF Thread
<1>4. /\ pc' \in [Thread -> Places] /\ Draining' /\ Ticking' = Ticking
      /\ pc'[t] = "drain" /\ \A u \in Thread \ {t} : pc'[u] = pc[u]
  BY <1>1, <1>3, MoveEffects DEF Inv, Places
<1>5. ~Draining /\ queue = <<>>
  BY <1>1, LockExcludes DEF Inv, SessionInv, BarsInv
<1>6. PICK c \in Closes : EngineInv' /\ queue' = <<Market(c)>>
  BY <1>1, <1>5, PushBarInv DEF Inv
<1>7. queue' # <<>> /\ Head(queue').kind = "market" /\ Rank' = 0
  <2>1. Market(c) \in Event /\ Market(c).kind = "market"
    BY DEF Market, Event
  <2>2. queue' # <<>> /\ Head(queue').kind = "market"
    BY <1>6, <2>1, OneEvent
  <2> QED
    BY <2>2 DEF Rank
<1>8. LockInv' /\ mtx' \in SUBSET Thread
  BY <1>1, <1>3, LockMoves DEF Inv, SessionInv, Places
<1>9. CallsInv'
  BY <1>1, <1>4 DEF Inv, SessionInv, CallsInv, calls
<1>10. ts' \in {barCount} \cup (Stamps \ {0}) /\ ts' \in Nat
  <2>1. stamp \in Nat /\ barCount \in Nat
    BY LiveSessionAssumption, Typed DEF Inv
  <2> QED
    BY <1>2, <2>1
<1>11. TypeOK'
  BY <1>1, <1>4, <1>6, <1>8, <1>10 DEF Inv, TypeOK, EngineInv, Places
<1>12. BarsInv'
  <2>1. /\ Len(equityCurve) = barCount /\ Len(marketData) = barCount /\ BarsStamped(marketData)
        /\ eventCount \in Nat /\ barCount \in Nat
        /\ eventCount >= barCount /\ eventCount <= 4 * barCount
    BY <1>5, Typed DEF Inv, SessionInv, BarsInv
  <2>2. BarsStamped(marketData')
    BY <1>1, <2>1 DEF BarsStamped
  <2>3. eventCount' >= barCount' /\ eventCount' <= 4 * barCount' + Rank'
    BY <1>1, <1>7, <2>1
  <2> QED
    BY <1>1, <1>4, <1>7, <1>10, <2>1, <2>2, <2>3 DEF BarsInv, BarsStamped
<1>13. SignalsInv'
  <2>1. Signalled = barCount /\ Signalled' = barCount
    BY <1>1, <1>5, <1>7 DEF Signalled
  <2>2. ~SignalQueued /\ ~SignalQueued' /\ ~TradeQueued'
    BY <1>5, <1>7 DEF SignalQueued, TradeQueued
  <2>3. SignalsMatch(signals, marketData, barCount)
    BY <2>1 DEF Inv, SessionInv, SignalsInv
  <2>4. SignalsMatch(signals, marketData, Signalled)'
    BY <1>1, <2>1, <2>3 DEF SignalsMatch
  <2> QED
    BY <1>1, <2>2, <2>4 DEF Inv, SessionInv, SignalsInv
<1>14. SharpeInv' /\ StopInv'
  BY <1>1 DEF Inv, SessionInv, SharpeInv, StopInv, sharpe
<1>15. ReadersInv'
  <2> SUFFICES ASSUME NEW r \in Reader PROVE ReaderInv(r)'
    BY DEF ReadersInv
  <2>1. ReaderInv(r) /\ r \in Thread /\ pc[r] \notin {"counts", "position", "series", "metrics"}
    BY <1>1, <1>3 DEF Inv, ReadersInv, SessionInv, LockInv
  <2>2. /\ pc'[r] \notin {"counts", "position", "series", "metrics"}
        /\ pc'[r] = "get_state" => pc[r] = "get_state"
    BY <1>4, <2>1
  <2>3. Returned(r) => Final(state[r])'
    BY <1>1, <2>1 DEF ReaderInv, Final
  <2> QED
    BY <1>1, <2>1, <2>2, <2>3, ReaderOutside
<1> QED
  BY <1>6, <1>8, <1>9, <1>11, <1>12, <1>13, <1>14, <1>15 DEF Inv, SessionInv

\* The events of a bar: one more of them, and the bound they obey.
LEMMA OneMoreEvent ==
  ASSUME NEW n \in Nat, NEW b \in Nat, NEW r \in 0 .. 3, NEW s \in 1 .. 4, r < s,
         n >= b, n <= 4 * b + r
  PROVE  n + 1 >= b + 1 /\ n + 1 >= b /\ n + 1 <= 4 * b + s /\ n + 1 \in Nat
OBVIOUS

LEMMA EventsOfCalls ==
  ASSUME NEW n \in Nat, NEW b \in Nat, NEW m \in Nat, NEW r \in 1 .. 4,
         n <= 4 * b + r, b + 1 <= m
  PROVE  n \in 0 .. 4 * m
OBVIOUS

\* Odd and even alternate.
LEMMA NextParity ==
  ASSUME NEW n \in Nat
  PROVE  n % 2 # 1 <=> (n + 1) % 2 = 1
OBVIOUS

\* What the loop keeps of an event of each kind, and what its handler changes.
LEMMA DispatchCharts ==
  ASSUME EngineInv, Dispatch, Chart(Head(queue))
  PROVE  \/ /\ Handles("market")
            /\ marketData' = Append(marketData, [timestamp |-> ts, close |-> Head(queue).close])
            /\ Head(queue).close \in Closes /\ latestClose' = Head(queue).close
            /\ signals' = signals /\ entryFees' = entryFees
         \/ /\ Handles("signal")
            /\ signals' = Append(signals, [bar_index |-> barCount,
                                           direction |-> Head(queue).direction,
                                           price |-> latestClose])
            /\ Head(queue).direction \in Direction
            /\ marketData' = marketData /\ latestClose' = latestClose
            /\ inPosition' = inPosition /\ entryFees' = entryFees
         \/ /\ TradeQueued
            /\ marketData' = marketData /\ latestClose' = latestClose
            /\ signals' = signals /\ inPosition' = inPosition
<1> USE DEF Chart, ChartBar, ChartSignal, Handles
<1>1. CASE OnMarket
  <2>1. Handles("market") /\ Head(queue).close \in Closes
    BY <1>1, HeadOfQueue DEF OnMarket
  <2> QED
    BY <1>1, <2>1 DEF OnMarket
<1>2. CASE OnSignal
  <2>1. Handles("signal") /\ Head(queue).direction \in Direction
    BY <1>2, HeadOfQueue DEF OnSignal
  <2> QED
    BY <1>2, <2>1 DEF OnSignal
<1>3. CASE OnOrder
  BY <1>3 DEF OnOrder, TradeQueued
<1>4. CASE OnLongFill \/ OnExitFill
  BY <1>4 DEF OnLongFill, OnExitFill, TradeQueued
<1> QED
  BY <1>1, <1>2, <1>3, <1>4 DEF Dispatch

\* A bar handled by the strategy: it has joined the series, and its signal, if
\* there is one, is not filed yet.
LEMMA ChartsMarket ==
  ASSUME EngineInv, TypeOK, BarsInv, SignalsInv, Draining, Draining' = Draining, Dispatch,
         Handles("market"),
         marketData' = Append(marketData, [timestamp |-> ts, close |-> Head(queue).close]),
         Head(queue).close \in Closes, latestClose' = Head(queue).close,
         signals' = signals, entryFees' = entryFees, barCount' = barCount
  PROVE  /\ marketData' \in Seq(OHLCVBar) /\ BarsStamped(marketData')
         /\ Len(marketData') = barCount + 1
         /\ latestClose' \in Closes /\ marketData'[barCount + 1].close = latestClose'
         /\ signals' \in Seq(SignalRecord) /\ SignalsInv'
<1> DEFINE bar == [timestamp |-> ts, close |-> Head(queue).close]
<1>1. /\ marketData \in Seq(OHLCVBar) /\ signals \in Seq(SignalRecord) /\ ts \in Nat
      /\ barCount \in Nat
  BY Typed DEF TypeOK
<1>2. Rank = 0 /\ queue # <<>> /\ OnMarket
  BY DEF Handles, Rank, Dispatch, OnMarket, OnSignal, OnOrder, OnLongFill, OnExitFill
<1>3. Len(marketData) = barCount /\ ts \in {barCount} \cup (Stamps \ {0}) /\ BarsStamped(marketData)
  BY <1>2 DEF BarsInv
<1>4. bar \in OHLCVBar /\ bar.timestamp = ts /\ bar.close = Head(queue).close
  BY <1>1 DEF OHLCVBar
<1>5. marketData' \in Seq(OHLCVBar) /\ BarsStamped(marketData')
  BY <1>1, <1>3, <1>4, StampedAppend, AppendProperties
<1>6. Len(marketData') = barCount + 1 /\ marketData'[barCount + 1] = bar
  BY <1>1, <1>3, <1>4, AppendProperties
<1>7. SignalsMatch(signals, marketData', barCount)
  <2>1. Signalled = barCount
    BY <1>2 DEF Signalled
  <2>2. SignalsMatch(signals, marketData, barCount) /\ barCount <= Len(marketData)
    BY <1>1, <1>3, <2>1 DEF SignalsInv
  <2> QED
    BY <1>1, <1>4, <2>2, SignalsMatchMoreBars
<1>8. SignalsMatch(signals', marketData', Signalled')
  <2>1. Signalled' \in {barCount, barCount + 1}
    BY DEF Signalled
  <2>2. SignalsMatch(signals, marketData', barCount + 1)
    BY <1>1, <1>7, SignalsMatchMoreCount
  <2> QED
    BY <1>7, <2>1, <2>2 DEF SignalsMatch
<1>9. ~SignalQueued /\ ~TradeQueued
  BY <1>2 DEF SignalQueued, TradeQueued, Handles
<1>10. \/ queue' = <<>> /\ inPosition' = inPosition
       \/ /\ queue' # <<>> /\ inPosition' = ~inPosition /\ Head(queue').kind = "signal"
          /\ Head(queue').direction = IF inPosition THEN "EXIT" ELSE "LONG"
  BY <1>2, OnMarketInv DEF Signal
<1>11. SignalsInv'
  <2>1. (inPosition <=> Len(signals) % 2 = 1) /\ inPosition \in BOOLEAN
        /\ (entryFees > 0 => signals # <<>>)
    BY <1>9, TypedBefore DEF SignalsInv
  <2>2. ~TradeQueued'
    BY <1>10 DEF TradeQueued
  <2>3. CASE queue' = <<>> /\ inPosition' = inPosition
    <3>1. ~SignalQueued'
      BY <2>3 DEF SignalQueued
    <3> QED
      BY <1>8, <2>1, <2>2, <2>3, <3>1 DEF SignalsInv, SignalsMatch
  <2>4. CASE /\ queue' # <<>> /\ inPosition' = ~inPosition /\ Head(queue').kind = "signal"
             /\ Head(queue').direction = IF inPosition THEN "EXIT" ELSE "LONG"
    <3>1. SignalQueued' /\ Head(queue').direction = IF inPosition' THEN "LONG" ELSE "EXIT"
      BY <2>1, <2>4 DEF SignalQueued
    <3> QED
      BY <1>8, <2>1, <2>2, <2>4, <3>1 DEF SignalsInv, SignalsMatch
  <2> QED
    BY <1>10, <2>3, <2>4
<1> QED
  BY <1>1, <1>4, <1>5, <1>6, <1>11

\* A signal handled by the portfolio: it has been filed under its bar, at the
\* close of that bar, and in its turn.
LEMMA ChartsSignal ==
  ASSUME EngineInv, TypeOK, BarsInv, SignalsInv, Draining, Draining' = Draining, Dispatch,
         Handles("signal"),
         signals' = Append(signals, [bar_index |-> barCount,
                                     direction |-> Head(queue).direction,
                                     price |-> latestClose]),
         Head(queue).direction \in Direction,
         marketData' = marketData, inPosition' = inPosition, barCount' = barCount
  PROVE  signals' \in Seq(SignalRecord) /\ SignalsInv'
<1> DEFINE sig == [bar_index |-> barCount, direction |-> Head(queue).direction,
                   price |-> latestClose]
<1>1. /\ marketData \in Seq(OHLCVBar) /\ signals \in Seq(SignalRecord) /\ barCount \in Nat
      /\ inPosition \in BOOLEAN /\ Len(signals) \in Nat
  BY Typed, TypedBefore DEF TypeOK
<1>2. Rank = 1 /\ queue # <<>> /\ SignalQueued
  BY DEF Handles, Rank, SignalQueued
<1>3. Rank' \in 2 .. 4
  BY <1>2, DispatchAdvances
<1>4. latestClose \in Closes /\ marketData[barCount + 1].close = latestClose
  BY <1>2 DEF BarsInv
<1>5. /\ sig \in SignalRecord /\ sig.bar_index = barCount /\ sig.price = latestClose
      /\ sig.direction = Head(queue).direction
  BY <1>1, <1>4 DEF SignalRecord
<1>6. /\ Head(queue).direction = IF inPosition THEN "LONG" ELSE "EXIT"
      /\ inPosition <=> Len(signals) % 2 # 1
  BY <1>1, <1>2 DEF SignalsInv
<1>7. Len(signals) % 2 = 0 \/ Len(signals) % 2 = 1
  BY <1>1
<1>8. sig.direction = IF Len(signals) % 2 = 0 THEN "LONG" ELSE "EXIT"
  BY <1>5, <1>6, <1>7
<1>9. SignalsMatch(signals, marketData, barCount)
  <2>1. Signalled = barCount
    BY <1>2 DEF Signalled
  <2> QED
    BY <2>1 DEF SignalsInv
<1>10. SignalsMatch(signals', marketData, barCount + 1)
  BY <1>1, <1>4, <1>5, <1>8, <1>9, SignalsMatchAppend
<1>11. /\ signals' \in Seq(SignalRecord) /\ signals' # <<>>
       /\ Len(signals') = Len(signals) + 1
  BY <1>1, <1>5, AppendProperties
<1>12. ~SignalQueued'
  BY <1>3 DEF SignalQueued, Rank
<1>13. Signalled' = barCount + 1
  BY <1>3 DEF Signalled
<1>14. inPosition' <=> Len(signals') % 2 = 1
  <2>1. Len(signals) % 2 # 1 <=> Len(signals') % 2 = 1
    BY <1>1, <1>11, NextParity
  <2>2. inPosition' = inPosition
    OBVIOUS
  <2> QED
    BY <1>6, <2>1, <2>2, Zenon
<1>15. SignalsMatch(signals, marketData, Signalled)'
  BY <1>10, <1>13 DEF SignalsMatch
<1> QED
  BY <1>11, <1>12, <1>14, <1>15 DEF SignalsInv

\* An order or a fill leaves the series alone.
LEMMA ChartsTrade ==
  ASSUME EngineInv, SignalsInv, Draining, Draining' = Draining, Dispatch, TradeQueued,
         signals' = signals, marketData' = marketData, inPosition' = inPosition,
         barCount' = barCount
  PROVE  SignalsInv'
<1>1. Rank \in 2 .. 3 /\ ~SignalQueued
  BY DEF Rank, TradeQueued, SignalQueued
<1>2. Rank' \in 3 .. 4
  BY <1>1, DispatchAdvances
<1>3. ~SignalQueued'
  BY <1>2 DEF SignalQueued, Rank
<1>4. Signalled = barCount + 1 /\ Signalled' = barCount + 1
  BY <1>1, <1>2 DEF Signalled
<1>5. SignalsMatch(signals, marketData, Signalled)'
  <2>1. SignalsMatch(signals, marketData, barCount + 1)
    BY <1>4 DEF SignalsInv
  <2> QED
    BY <1>4, <2>1 DEF SignalsMatch
<1> QED
  BY <1>1, <1>3, <1>5 DEF SignalsInv

\* Dispatching an event keeps the invariant.
LEMMA TickDispatchesInv ==
  ASSUME Inv, NEW t \in Ticker, TickDispatches(t)
  PROVE  Inv'
<1>1. /\ pc[t] = "drain" /\ Dispatch /\ Chart(Head(queue)) /\ eventCount' = eventCount + 1
      /\ UNCHANGED <<barCount, equityCurve, ts, sharpe, calls, mtx, running, pc, state, barsAtStop>>
  BY DEF TickDispatches
<1>2. t \in Thread /\ Reader \subseteq Thread
  BY DEF Thread
<1>3. Draining /\ Draining' = Draining /\ Ticking' = Ticking /\ t \in Ticking
  BY <1>1, <1>2 DEF Draining, Ticking
<1>4. EngineInv' /\ Rank \in 0 .. 3 /\ Rank' \in 1 .. 4 /\ Rank < Rank'
  BY <1>1, DispatchInv, DispatchAdvances DEF Inv
<1>5. /\ marketData' \in Seq(OHLCVBar) /\ BarsStamped(marketData')
      /\ Len(marketData') = barCount + 1
      /\ latestClose' \in Closes /\ marketData'[barCount + 1].close = latestClose'
      /\ signals' \in Seq(SignalRecord) /\ SignalsInv'
  <2>1. EngineInv /\ TypeOK /\ BarsInv /\ SignalsInv
    BY DEF Inv, SessionInv
  <2>2. CASE Handles("market")
    BY <1>1, <1>3, <2>1, <2>2, DispatchCharts, ChartsMarket DEF Handles, TradeQueued
  <2>3. CASE ~Handles("market")
    <3>1. Rank > 0
      BY <1>4, <2>3 DEF Rank, Handles
    <3>2. /\ Len(marketData) = barCount + 1 /\ latestClose \in Closes /\ BarsStamped(marketData)
          /\ marketData[barCount + 1].close = latestClose
      BY <1>3, <2>1, <3>1 DEF BarsInv
    <3>3. marketData' = marketData /\ latestClose' = latestClose
      BY <1>1, <2>1, <2>3, DispatchCharts
    <3>4. signals' \in Seq(SignalRecord) /\ SignalsInv'
      <4>1. CASE Handles("signal")
        BY <1>1, <1>3, <2>1, <4>1, DispatchCharts, ChartsSignal DEF Handles, TradeQueued
      <4>2. CASE ~Handles("signal")
        <5>1. TradeQueued /\ signals' = signals /\ inPosition' = inPosition
          BY <1>1, <2>1, <2>3, <4>2, DispatchCharts
        <5>2. SignalsInv'
          BY <1>1, <1>3, <2>1, <3>3, <5>1, ChartsTrade
        <5> QED
          BY <2>1, <5>1, <5>2 DEF TypeOK
      <4> QED
        BY <4>1, <4>2
    <3> QED
      BY <2>1, <3>2, <3>3, <3>4 DEF TypeOK
  <2> QED
    BY <2>2, <2>3
<1>6. /\ eventCount' >= barCount + 1 /\ eventCount' <= 4 * barCount + Rank'
      /\ eventCount' >= barCount /\ eventCount' \in Nat
  <2>1. eventCount \in Nat /\ barCount \in Nat
        /\ eventCount >= barCount /\ eventCount <= 4 * barCount + Rank
    BY <1>3, Typed DEF Inv, SessionInv, BarsInv
  <2>2. eventCount' = eventCount + 1
    BY <1>1
  <2> QED
    BY <1>4, <2>1, <2>2, OneMoreEvent
<1>7. BarsInv'
  <2>1. Len(equityCurve) = barCount
    BY DEF Inv, SessionInv, BarsInv
  <2>2. BarsStamped(marketData)'
    BY <1>5 DEF BarsStamped
  <2> QED
    BY <1>1, <1>3, <1>4, <1>5, <1>6, <2>1, <2>2 DEF BarsInv
<1>8. TypeOK'
  <2>1. eventCount' \in 0 .. 4 * MaxTicks
    <3>1. barCount + 1 <= MaxTicks /\ barCount \in Nat /\ MaxTicks \in Nat
      BY <1>3, BarWithinCalls, Typed DEF Inv, SessionInv
    <3> QED
      BY <1>4, <1>6, <3>1, EventsOfCalls
  <2> QED
    BY <1>1, <1>4, <1>5, <2>1 DEF Inv, TypeOK, EngineInv
<1>9. LockInv' /\ CallsInv' /\ SharpeInv' /\ StopInv'
  BY <1>1, <1>3 DEF Inv, SessionInv, LockInv, CallsInv, SharpeInv, StopInv, sharpe, calls
<1>10. ReadersInv'
  <2> SUFFICES ASSUME NEW r \in Reader PROVE ReaderInv(r)'
    BY DEF ReadersInv
  <2>1. ReaderInv(r) /\ pc[r] \notin {"counts", "position", "series", "metrics"}
    BY <1>1, <1>2, LockExcludes, <1>3 DEF Inv, ReadersInv, SessionInv
  <2>2. Returned(r) => Final(state[r])'
    BY <1>1, <1>3, <2>1 DEF ReaderInv, Final
  <2> QED
    BY <1>1, <2>1, <2>2, ReaderOutside
<1> QED
  BY <1>4, <1>5, <1>7, <1>8, <1>9, <1>10 DEF Inv, SessionInv

\* Recording the equity of the drained bar keeps the invariant: the series are
\* of equal length again.
LEMMA TickReturnsInv ==
  ASSUME Inv, NEW t \in Ticker, TickReturns(t)
  PROVE  Inv'
<1>1. /\ Moves(t, "drain", "idle") /\ queue = <<>> /\ barCount' = barCount + 1
      /\ equityCurve' = Append(equityCurve, Equity) /\ mtx' = mtx \ {t}
      /\ sharpeReady' = FALSE /\ sharpeFor' = sharpeFor
      /\ UNCHANGED <<engine, eventCount, ts, marketData, signals, calls, running, state, barsAtStop>>
  BY DEF TickReturns, RecordEquity, Moves
<1>2. t \in Thread /\ Reader \subseteq Thread
  BY DEF Thread
<1>3. /\ pc' \in [Thread -> Places] /\ t \in Ticking /\ Ticking' = Ticking \ {t}
      /\ pc'[t] = "idle" /\ \A u \in Thread \ {t} : pc'[u] = pc[u]
  BY <1>1, <1>2, MoveEffects DEF Inv, Places
<1>4. Draining /\ ~Draining'
  <2>1. \A u \in Thread : pc[u] = "drain" => u = t
    BY <1>1, <1>2, LockExcludes DEF Moves, Inv, SessionInv
  <2> QED
    BY <1>1, <1>2, <1>3, <2>1 DEF Draining, Moves
<1>5. EngineInv' /\ Equity \in Int /\ Equity' = Equity /\ Rank = 4 /\ queue' = <<>>
      /\ latestClose' = latestClose /\ inPosition' = inPosition /\ entryFees' = entryFees
  <2>1. Equity \in Int
    BY TypedBefore, WorthInt DEF Inv, Equity
  <2> QED
    BY <1>1, <2>1, EngineInvUnchanged, RankRange DEF Inv, engine, Equity, Worth
<1>6. /\ barCount \in Nat /\ eventCount \in Nat /\ MaxTicks \in Nat
      /\ eventCount >= barCount + 1 /\ eventCount <= 4 * barCount + 4
      /\ Len(marketData) = barCount + 1 /\ Len(equityCurve) = barCount
  BY <1>4, <1>5, Typed DEF Inv, SessionInv, BarsInv
<1>7. LockInv' /\ mtx' \in SUBSET Thread
  BY <1>1, <1>2, LockMoves DEF Inv, SessionInv, Places
<1>8. CallsInv'
  <2>1. IsFiniteSet(Ticking') /\ Cardinality(Ticking') = Cardinality(Ticking) - 1
    BY <1>3, FS_RemoveElement DEF Inv, SessionInv, CallsInv
  <2>2. Cardinality(Ticking) \in Nat /\ Cardinality(Ticking') \in Nat
    BY <2>1, FS_CardinalityType DEF Inv, SessionInv, CallsInv
  <2>3. ticks' = ticks /\ ticks \in 0 .. MaxTicks /\ barCount + Cardinality(Ticking) <= ticks
    BY <1>1 DEF calls, Inv, SessionInv, CallsInv
  <2>4. barCount' + Cardinality(Ticking') <= ticks'
    BY <1>1, <1>6, <2>1, <2>2, <2>3
  <2> QED
    BY <2>1, <2>3, <2>4 DEF CallsInv
<1>9. /\ equityCurve \in Seq(Int) /\ equityCurve' \in Seq(Int) /\ equityCurve' # <<>>
      /\ Len(equityCurve') = barCount' /\ equityCurve'[barCount'] = Equity
  <2>1. equityCurve \in Seq(Int)
    BY DEF Inv, TypeOK
  <2> QED
    BY <1>1, <1>5, <1>6, <2>1, AppendProperties
<1>10. TypeOK'
  <2>1. barCount' \in 0 .. MaxTicks
    BY <1>1, <1>3, <1>6, BarWithinCalls DEF Inv, SessionInv
  <2> QED
    BY <1>1, <1>3, <1>5, <1>7, <1>9, <2>1 DEF Inv, TypeOK, EngineInv, Places
<1>11. BarsInv'
  <2>1. MarkedEquity' = Equity'
    BY <1>5, <1>9 DEF MarkedEquity
  <2>2. eventCount \in barCount + 1 .. 4 * (barCount + 1)
    BY <1>6
  <2>3. BarsStamped(marketData)'
    BY <1>1 DEF Inv, SessionInv, BarsInv, BarsStamped
  <2> QED
    BY <1>1, <1>4, <1>5, <1>6, <1>9, <2>1, <2>2, <2>3 DEF BarsInv
<1>12. SignalsInv'
  <2>1. Signalled = barCount + 1 /\ Signalled' = barCount + 1
    BY <1>1, <1>4, <1>5 DEF Signalled
  <2>2. SignalsMatch(signals, marketData, Signalled)'
    BY <1>1, <2>1 DEF Inv, SessionInv, SignalsInv, SignalsMatch
  <2>3. ~SignalQueued /\ ~SignalQueued' /\ ~TradeQueued'
    BY <1>1, <1>5 DEF SignalQueued, TradeQueued
  <2> QED
    BY <1>1, <1>5, <2>2, <2>3 DEF Inv, SessionInv, SignalsInv
<1>13. SharpeInv'
  BY <1>1 DEF Inv, SessionInv, SharpeInv
<1>14. StopInv'
  <2>1. barsAtStop \in Int /\ (~running => barCount <= barsAtStop)
    BY <1>4 DEF Inv, SessionInv, StopInv
  <2>2. ~running => barCount' <= barsAtStop + 1
    BY <1>1, <1>6, <2>1
  <2> QED
    BY <1>1, <1>4, <2>1, <2>2 DEF StopInv
<1>15. ReadersInv'
  <2> SUFFICES ASSUME NEW r \in Reader PROVE ReaderInv(r)'
    BY DEF ReadersInv
  <2>1. ReaderInv(r) /\ r \in Thread /\ pc[r] \notin {"counts", "position", "series", "metrics"}
    BY <1>2, <1>4, LockExcludes DEF Inv, ReadersInv, SessionInv
  <2>2. /\ pc'[r] \notin {"counts", "position", "series", "metrics"}
        /\ pc'[r] = "get_state" => pc[r] = "get_state"
    BY <1>3, <2>1
  <2>3. Returned(r) => Final(state[r])'
    BY <1>1, <1>4, <2>1 DEF ReaderInv, Final
  <2> QED
    BY <1>1, <2>1, <2>2, <2>3, ReaderOutside
<1> QED
  BY <1>5, <1>7, <1>8, <1>10, <1>11, <1>12, <1>13, <1>14, <1>15 DEF Inv, SessionInv

-----------------------------------------------------------------------------
(* The steps of get_state() *)

\* A step of get_state() keeps the invariant if the lock changes hands as it
\* should, the cached ratio stays right, and so does what the reader has.
LEMMA ReaderStepInv ==
  ASSUME Inv, NEW r \in Reader,
         NEW from \in Places \ {"tick", "drain"}, NEW to \in Places \ {"tick", "drain"},
         Moves(r, from, to),
         NEW filled \in LiveState, state' = [state EXCEPT ![r] = filled],
         UNCHANGED <<engine, session, ticks, running, barsAtStop>>,
         LockInv', mtx' \in SUBSET Thread, SharpeInv', ReaderInv(r)'
  PROVE  Inv'
<1>1. r \in Thread /\ Reader \subseteq Thread
  BY DEF Thread
<1>2. /\ pc' \in [Thread -> Places] /\ Draining' = Draining /\ Ticking' = Ticking
      /\ \A u \in Thread \ {r} : pc'[u] = pc[u]
  BY <1>1, MoveEffects DEF Inv
<1>3. EngineInv' /\ BarsInv' /\ SignalsInv'
  BY <1>2, SessionFrame DEF Inv, SessionInv
<1>4. state' \in [Reader -> LiveState] /\ \A q \in Reader \ {r} : state'[q] = state[q]
  BY DEF Inv, TypeOK
<1>5. TypeOK'
  BY <1>2, <1>3, <1>4 DEF Inv, TypeOK, EngineInv, session, Places
<1>6. CallsInv' /\ StopInv'
  BY <1>2 DEF Inv, SessionInv, CallsInv, StopInv, session
<1>7. ReadersInv'
  <2> SUFFICES ASSUME NEW q \in Reader PROVE ReaderInv(q)'
    BY DEF ReadersInv
  <2>1. CASE q = r
    BY <2>1
  <2>2. CASE q # r
    <3>1. ReaderInv(q) /\ pc'[q] = pc[q] /\ state'[q] = state[q]
      BY <1>1, <1>2, <1>4, <2>2 DEF Inv, ReadersInv
    <3> QED
      BY <1>2, <3>1, ReaderFrame
  <2> QED
    BY <2>1, <2>2
<1> QED
  BY <1>3, <1>5, <1>6, <1>7 DEF Inv, SessionInv

\* The amounts get_state() reads are amounts.
LEMMA AmountsRead ==
  ASSUME Inv
  PROVE  /\ MarkedEquity \in Int /\ Worth(position, latestClose) \in Int
         /\ Worth(position, latestClose) - costBasis \in Int
         /\ cash \in Int /\ position \in Nat /\ realized \in Int
<1>1. MarkedEquity \in Int
  <2>1. equityCurve \in Seq(Int) /\ cash \in Int
    BY TypedBefore DEF Inv, TypeOK
  <2>2. equityCurve # <<>> => Len(equityCurve) \in 1 .. Len(equityCurve)
    BY <2>1, EmptySeq
  <2> QED
    BY <2>1, <2>2, ElementOfSeq DEF MarkedEquity
<1>2. Worth(position, latestClose) \in Int /\ costBasis \in Nat
  BY TypedBefore, WorthInt DEF Inv
<1> QED
  BY <1>1, <1>2, TypedBefore DEF Inv

\* Calling get_state() keeps the invariant: nothing is returned yet.
LEMMA CallGetStateInv ==
  ASSUME Inv, NEW r \in Reader, CallGetState(r)
  PROVE  Inv'
<1>1. /\ Moves(r, "idle", "get_state") /\ state' = [state EXCEPT ![r] = NoState]
      /\ UNCHANGED <<engine, session, sharpe, ticks, mtx, running, barsAtStop>>
  BY DEF CallGetState, Moves
<1>2. NoState \in LiveState /\ ~NoState.returned
  BY EmptySeq DEF NoState, LiveState
<1>3. r \in Thread
  BY DEF Thread
<1>4. LockInv' /\ mtx' \in SUBSET Thread /\ pc'[r] = "get_state"
  BY <1>1, <1>3, LockMoves, MoveEffects DEF Inv, SessionInv, Places
<1>5. SharpeInv'
  BY <1>1 DEF Inv, SessionInv, SharpeInv, session, sharpe
<1>6. ReaderInv(r)'
  <2>1. state'[r] = NoState
    BY <1>1 DEF Inv, TypeOK
  <2> QED
    BY <1>2, <1>4, <2>1 DEF ReaderInv, Returned
<1> QED
  BY <1>1, <1>2, <1>4, <1>5, <1>6, ReaderStepInv DEF Places

\* Entering the lock keeps the invariant.
LEMMA GetStateStartsInv ==
  ASSUME Inv, NEW r \in Reader, GetStateStarts(r)
  PROVE  Inv'
<1>1. /\ Moves(r, "get_state", "counts") /\ mtx = {} /\ mtx' = mtx \cup {r}
      /\ state' = [state EXCEPT ![r] = state[r]]
      /\ UNCHANGED <<engine, session, sharpe, calls, running, barsAtStop>>
  BY DEF GetStateStarts, ReadStep, Moves
<1>2. r \in Thread /\ state[r] \in LiveState
  BY DEF Thread, Inv, TypeOK
<1>3. LockInv' /\ mtx' \in SUBSET Thread /\ pc'[r] = "counts"
  BY <1>1, <1>2, LockMoves, MoveEffects DEF Inv, SessionInv, Places
<1>4. SharpeInv'
  BY <1>1 DEF Inv, SessionInv, SharpeInv, session, sharpe
<1>5. ReaderInv(r)'
  <2>1. state'[r] = state[r] /\ ~Returned(r)
    BY <1>1 DEF Inv, TypeOK, ReadersInv, ReaderInv, Moves
  <2> QED
    BY <1>3, <2>1 DEF ReaderInv, Returned
<1> QED
  BY <1>1, <1>2, <1>3, <1>4, <1>5, ReaderStepInv DEF Places, calls

\* Reading the counts and the money keeps the invariant.
LEMMA ReadsCountsInv ==
  ASSUME Inv, NEW r \in Reader, ReadsCounts(r)
  PROVE  Inv'
<1> DEFINE u == [state[r] EXCEPT !.running = running, !.bar_count = barCount,
                                 !.event_count = eventCount, !.cash = cash,
                                 !.equity = MarkedEquity]
<1>1. /\ Moves(r, "counts", "position") /\ state' = [state EXCEPT ![r] = u]
      /\ UNCHANGED <<engine, session, sharpe, calls, mtx, running, barsAtStop>>
  BY DEF ReadsCounts, ReadStep, Moves
<1>2. r \in Thread /\ state[r] \in LiveState /\ running \in BOOLEAN
      /\ barCount \in Nat /\ eventCount \in Nat
  BY Typed DEF Thread, Inv, TypeOK
<1>3. LockInv' /\ mtx' \in SUBSET Thread /\ pc'[r] = "position"
  BY <1>1, <1>2, LockMoves, MoveEffects DEF Inv, SessionInv, TypeOK, Places
<1>4. SharpeInv'
  BY <1>1 DEF Inv, SessionInv, SharpeInv, session, sharpe
<1>5. /\ u \in LiveState /\ u.returned = state[r].returned
      /\ u.running = running /\ u.bar_count = barCount /\ u.event_count = eventCount
      /\ u.cash = cash /\ u.equity = MarkedEquity
  BY <1>2, AmountsRead DEF LiveState
<1>6. ReaderInv(r)'
  <2>1. state'[r] = u /\ ~u.returned
    BY <1>1, <1>5 DEF Inv, TypeOK, ReadersInv, ReaderInv, Returned, Moves
  <2>2. CountsRead(state[r])'
    BY <1>1, <1>5, <2>1 DEF CountsRead, MarkedEquity, engine, session
  <2> QED
    BY <1>3, <2>1, <2>2 DEF ReaderInv, Returned
<1> QED
  BY <1>1, <1>3, <1>4, <1>5, <1>6, ReaderStepInv DEF Places, calls

\* Reading the position keeps the invariant.
LEMMA ReadsPositionInv ==
  ASSUME Inv, NEW r \in Reader, ReadsPosition(r)
  PROVE  Inv'
<1> DEFINE u == [state[r] EXCEPT !.shares = position,
                                 !.market_value = Worth(position, latestClose),
                                 !.unrealized_pnl = Worth(position, latestClose) - costBasis]
<1>1. /\ Moves(r, "position", "series") /\ state' = [state EXCEPT ![r] = u]
      /\ UNCHANGED <<engine, session, sharpe, calls, mtx, running, barsAtStop>>
  BY DEF ReadsPosition, ReadStep, Moves
<1>2. r \in Thread /\ state[r] \in LiveState
  BY DEF Thread, Inv, TypeOK
<1>3. LockInv' /\ mtx' \in SUBSET Thread /\ pc'[r] = "series"
  BY <1>1, <1>2, LockMoves, MoveEffects DEF Inv, SessionInv, TypeOK, Places
<1>4. SharpeInv'
  BY <1>1 DEF Inv, SessionInv, SharpeInv, session, sharpe
<1>5. /\ u \in LiveState /\ u.returned = state[r].returned
      /\ u.running = state[r].running /\ u.bar_count = state[r].bar_count
      /\ u.event_count = state[r].event_count
      /\ u.cash = state[r].cash /\ u.equity = state[r].equity
      /\ u.market_value = Worth(position, latestClose)
      /\ u.unrealized_pnl = Worth(position, latestClose) - costBasis
  BY <1>2, AmountsRead DEF LiveState
<1>6. ReaderInv(r)'
  <2>1. state'[r] = u /\ ~u.returned /\ CountsRead(state[r])
    BY <1>1, <1>5 DEF Inv, TypeOK, ReadersInv, ReaderInv, Returned, Moves
  <2>2. CountsRead(state[r])' /\ PositionRead(state[r])'
    BY <1>1, <1>5, <2>1 DEF CountsRead, PositionRead, MarkedEquity, Worth, engine, session
  <2> QED
    BY <1>3, <2>1, <2>2 DEF ReaderInv, Returned
<1> QED
  BY <1>1, <1>3, <1>4, <1>5, <1>6, ReaderStepInv DEF Places, calls

\* Copying the series keeps the invariant.
LEMMA ReadsSeriesInv ==
  ASSUME Inv, NEW r \in Reader, ReadsSeries(r)
  PROVE  Inv'
<1> DEFINE u == [state[r] EXCEPT !.equity_curve = equityCurve, !.trade_pnls = realized,
                                 !.market_data = marketData, !.signals = signals]
<1>1. /\ Moves(r, "series", "metrics") /\ state' = [state EXCEPT ![r] = u]
      /\ UNCHANGED <<engine, session, sharpe, calls, mtx, running, barsAtStop>>
  BY DEF ReadsSeries, ReadStep, Moves
<1>2. r \in Thread /\ state[r] \in LiveState /\ equityCurve \in Seq(Int)
      /\ marketData \in Seq(OHLCVBar) /\ signals \in Seq(SignalRecord)
  BY DEF Thread, Inv, TypeOK
<1>3. LockInv' /\ mtx' \in SUBSET Thread /\ pc'[r] = "metrics"
  BY <1>1, <1>2, LockMoves, MoveEffects DEF Inv, SessionInv, TypeOK, Places
<1>4. SharpeInv'
  BY <1>1 DEF Inv, SessionInv, SharpeInv, session, sharpe
<1>5. /\ u \in LiveState /\ u.returned = state[r].returned
      /\ u.running = state[r].running /\ u.bar_count = state[r].bar_count
      /\ u.event_count = state[r].event_count
      /\ u.cash = state[r].cash /\ u.equity = state[r].equity
      /\ u.market_value = state[r].market_value
      /\ u.unrealized_pnl = state[r].unrealized_pnl
      /\ u.equity_curve = equityCurve /\ u.trade_pnls = realized
      /\ u.market_data = marketData /\ u.signals = signals
  BY <1>2, AmountsRead DEF LiveState
<1>6. ReaderInv(r)'
  <2>1. state'[r] = u /\ ~u.returned /\ CountsRead(state[r]) /\ PositionRead(state[r])
    BY <1>1, <1>5 DEF Inv, TypeOK, ReadersInv, ReaderInv, Returned, Moves
  <2>2. CountsRead(state[r])' /\ PositionRead(state[r])' /\ SeriesRead(state[r])'
    BY <1>1, <1>5, <2>1
       DEF CountsRead, PositionRead, SeriesRead, MarkedEquity, Worth, engine, session
  <2> QED
    BY <1>3, <2>1, <2>2 DEF ReaderInv, Returned
<1> QED
  BY <1>1, <1>3, <1>4, <1>5, <1>6, ReaderStepInv DEF Places, calls

\* What was read between two bars is of one bar: what the equity does not
\* explain is the commissions of the entries.
LEMMA ReadIsOfOneBar ==
  ASSUME Inv, ~Draining, NEW s \in LiveState,
         CountsRead(s), PositionRead(s), SeriesRead(s)
  PROVE  /\ OfOneBar(s)
         /\ SignalsMatch(s.signals, s.market_data, s.bar_count)
         /\ BarsStamped(s.market_data)
<1>1. /\ queue = <<>> /\ Len(equityCurve) = barCount /\ Len(marketData) = barCount
      /\ MarkedEquity = Equity /\ eventCount \in barCount .. 4 * barCount
      /\ BarsStamped(marketData)
  BY DEF Inv, SessionInv, BarsInv
<1>2. Signalled = barCount /\ SignalsMatch(signals, marketData, barCount)
      /\ (entryFees > 0 => signals # <<>>)
  BY DEF Signalled, Inv, SessionInv, SignalsInv
<1>3. /\ cash \in Int /\ costBasis \in Nat /\ entryFees \in Nat /\ realized \in Int
      /\ Worth(position, latestClose) \in Int /\ InitialCash \in Nat
      /\ cash + costBasis + entryFees = InitialCash + realized
  BY TypedBefore, WorthInt, CascadeAssumption DEF Inv, EngineInv, LedgerBalances
<1>4. /\ s.bar_count = barCount /\ s.event_count = eventCount /\ s.cash = cash
      /\ s.equity = MarkedEquity /\ s.market_value = Worth(position, latestClose)
      /\ s.unrealized_pnl = Worth(position, latestClose) - costBasis
      /\ s.equity_curve = equityCurve /\ s.trade_pnls = realized
      /\ s.market_data = marketData /\ s.signals = signals
  BY DEF CountsRead, PositionRead, SeriesRead
<1>5. s.equity = cash + Worth(position, latestClose)
  BY <1>1, <1>4 DEF Equity
<1>6. InitialCash + s.trade_pnls + s.unrealized_pnl - s.equity = entryFees
  BY <1>3, <1>4, <1>5
<1>7. barCount > 0 => s.equity = s.equity_curve[s.bar_count]
  <2>1. barCount > 0 => equityCurve # <<>>
    BY <1>1, EmptySeq
  <2> QED
    BY <1>1, <1>4, <2>1 DEF MarkedEquity
<1>8. OfOneBar(s)
  BY <1>1, <1>2, <1>3, <1>4, <1>5, <1>6, <1>7 DEF OfOneBar
<1> QED
  BY <1>1, <1>2, <1>4, <1>8

\* Returning from get_state() keeps the invariant: the ratio is cached or
\* computed, and the state is of one bar.
LEMMA GetStateReturnsInv ==
  ASSUME Inv, NEW r \in Reader, GetStateReturns(r)
  PROVE  Inv'
<1> DEFINE u == [state[r] EXCEPT !.sharpe_of = sharpeFor', !.returned = TRUE]
<1>1. /\ Moves(r, "metrics", "idle") /\ state' = [state EXCEPT ![r] = u] /\ mtx' = mtx \ {r}
      /\ sharpeReady' = TRUE /\ sharpeFor' = (IF sharpeReady THEN sharpeFor ELSE Len(equityCurve))
      /\ UNCHANGED <<engine, session, calls, running, barsAtStop>>
  BY DEF GetStateReturns, ReadStep, Moves
<1>2. r \in Thread /\ state[r] \in LiveState
  BY DEF Thread, Inv, TypeOK
<1>3. LockInv' /\ mtx' \in SUBSET Thread /\ pc'[r] = "idle" /\ Draining' = Draining
  BY <1>1, <1>2, LockMoves, MoveEffects DEF Inv, SessionInv, Places
<1>4. sharpeFor' = Len(equityCurve) /\ Len(equityCurve) \in Nat /\ equityCurve' = equityCurve
      /\ barCount' = barCount
  BY <1>1, LenProperties DEF Inv, TypeOK, SessionInv, SharpeInv, session
<1>5. SharpeInv'
  BY <1>1, <1>4 DEF SharpeInv
<1>6. /\ u \in LiveState /\ u.returned /\ u.sharpe_of = Len(equityCurve)
      /\ u.running = state[r].running /\ u.bar_count = state[r].bar_count
      /\ u.event_count = state[r].event_count
      /\ u.cash = state[r].cash /\ u.equity = state[r].equity
      /\ u.market_value = state[r].market_value
      /\ u.unrealized_pnl = state[r].unrealized_pnl
      /\ u.equity_curve = state[r].equity_curve /\ u.trade_pnls = state[r].trade_pnls
      /\ u.market_data = state[r].market_data /\ u.signals = state[r].signals
  BY <1>2, <1>4 DEF LiveState
<1>7. CountsRead(state[r]) /\ PositionRead(state[r]) /\ SeriesRead(state[r])
  BY <1>1 DEF Inv, ReadersInv, ReaderInv, Moves
<1>8. CountsRead(u) /\ PositionRead(u) /\ SeriesRead(u)
  BY <1>6, <1>7 DEF CountsRead, PositionRead, SeriesRead
<1>9. ~Draining
  BY <1>1, <1>2, LockExcludes DEF Inv, SessionInv, Moves
<1>10. Snapshot(u)
  BY <1>6, <1>8, <1>9, ReadIsOfOneBar DEF Snapshot, SeriesRead
<1>11. ReaderInv(r)'
  <2>1. state'[r] = u
    BY <1>1 DEF Inv, TypeOK
  <2>2. Snapshot(state'[r])
    BY <1>10, <2>1
  <2>3. Snapshot(state[r])'
    BY <2>2 DEF Snapshot, OfOneBar, SignalsMatch, BarsStamped
  <2>4. Final(state[r])'
    BY <1>1, <1>3, <1>4, <1>8, <1>9, <2>1 DEF Final, CountsRead
  <2> QED
    BY <1>3, <2>3, <2>4 DEF ReaderInv
<1> QED
  BY <1>1, <1>3, <1>5, <1>6, <1>11, ReaderStepInv DEF Places, calls

-----------------------------------------------------------------------------
(* The invariance of the invariant *)

\* A step that changes nothing keeps the invariant.
LEMMA UnchangedInv ==
  ASSUME Inv, UNCHANGED vars
  PROVE  Inv'
<1>1. UNCHANGED <<engine, session, sharpe, calls, mtx, running, pc, state, barsAtStop>>
  BY DEF vars
<1>2. Draining' = Draining /\ Ticking' = Ticking
  BY <1>1 DEF Draining, Ticking
<1>3. EngineInv' /\ BarsInv' /\ SignalsInv'
  BY <1>1, <1>2, SessionFrame DEF Inv, SessionInv
<1>4. LockInv' /\ CallsInv' /\ SharpeInv' /\ StopInv'
  BY <1>1, <1>2
     DEF Inv, SessionInv, LockInv, CallsInv, SharpeInv, StopInv, session, sharpe, calls
<1>5. TypeOK'
  BY <1>1, <1>3 DEF Inv, TypeOK, EngineInv, session
<1>6. ReadersInv'
  <2> SUFFICES ASSUME NEW r \in Reader PROVE ReaderInv(r)'
    BY DEF ReadersInv
  <2>1. ReaderInv(r)
    BY DEF Inv, ReadersInv
  <2> QED
    BY <1>1, <1>2, <2>1, ReaderFrame
<1> QED
  BY <1>3, <1>4, <1>5, <1>6 DEF Inv, SessionInv

\* Every step keeps the invariant.
LEMMA NextInv == Inv /\ [Next]_vars => Inv'
<1> SUFFICES ASSUME Inv, [Next]_vars PROVE Inv'
  OBVIOUS
<1>1. CASE \E t \in Ticker : CallTick(t) \/ TickStep(t)
  BY <1>1, CallTickInv, TickStoppedInv, TickStartsInv, TickDispatchesInv, TickReturnsInv
     DEF TickStep
<1>2. CASE \E r \in Reader : CallGetState(r) \/ GetStateStep(r)
  BY <1>2, CallGetStateInv, GetStateStartsInv, ReadsCountsInv, ReadsPositionInv, ReadsSeriesInv,
     GetStateReturnsInv
     DEF GetStateStep
<1>3. CASE Stop
  BY <1>3, StopStepInv
<1>4. CASE Quiet \/ UNCHANGED vars
  BY <1>4, UnchangedInv DEF Quiet
<1> QED
  BY <1>1, <1>2, <1>3, <1>4 DEF Next

\* The invariant holds throughout.
LEMMA Invariance == Spec => []Inv
BY InitInv, NextInv, PTL DEF Spec

-----------------------------------------------------------------------------
(* Invariants *)

\* Every LiveState is one, and the session counts no more bars and events than
\* there were calls of tick().
THEOREM TypeCorrect == Spec => []TypeOK
<1>1. Inv => TypeOK
  BY DEF Inv
<1> QED
  BY <1>1, Invariance, PTL

\* What the cascade keeps in a backtest it keeps when it is driven by ticks: a
\* push() never throws out of tick(), orders stay covered and the ledger balances.
THEOREM TicksKeepTheBooks == Spec => [](OneInFlight /\ InFlightCovered /\ LedgerBalances)
<1>1. Inv => OneInFlight /\ InFlightCovered /\ LedgerBalances
  BY DEF Inv, EngineInv
<1> QED
  BY <1>1, Invariance, PTL

\* A state that get_state() returned is of one bar, whatever came while it was
\* being filled.
THEOREM SnapshotsAreConsistent == Spec => []SnapshotConsistent
<1>1. Inv => SnapshotConsistent
  BY DEF Inv, ReadersInv, ReaderInv, Snapshot, SnapshotConsistent
<1> QED
  BY <1>1, Invariance, PTL

\* The signals of a returned state are found in its own market data.
THEOREM SignalsAreCharted == Spec => []SignalsIndexBars
<1>1. Inv => SignalsIndexBars
  BY DEF Inv, ReadersInv, ReaderInv, Snapshot, SignalsIndexBars
<1> QED
  BY <1>1, Invariance, PTL

\* No stale ratio is served from the cache.
THEOREM CachedRatioIsCurrent == Spec => []SharpeIsCurrent
<1>1. Inv => SharpeIsCurrent
  BY DEF Inv, ReadersInv, ReaderInv, Snapshot, SharpeIsCurrent
<1> QED
  BY <1>1, Invariance, PTL

\* A state that says it was stopped is the last there will be.
THEOREM StoppedIsFinal == Spec => []StoppedStateIsFinal
<1>1. Inv => StoppedStateIsFinal
  BY DEF Inv, ReadersInv, ReaderInv, Final, StoppedStateIsFinal
<1> QED
  BY <1>1, Invariance, PTL

\* Only the tick that stop() finds under way adds a bar after it.
THEOREM StopAdmitsOneBar == Spec => []AtMostOneBarAfterStop
<1>1. Inv => AtMostOneBarAfterStop
  BY DEF Inv, SessionInv, StopInv, AtMostOneBarAfterStop
<1> QED
  BY <1>1, Invariance, PTL

-----------------------------------------------------------------------------
(* Steps *)

\* A step that dispatches no event moves neither cash nor shares nor the price.
LEMMA OtherStepsKeepMoney ==
  ASSUME [Next]_vars, ~ \E t \in Ticker : TickDispatches(t)
  PROVE  UNCHANGED <<latestClose, cash, position, inPosition>>
<1>1. CASE \E t \in Ticker : CallTick(t) \/ TickStopped(t) \/ TickStarts(t) \/ TickReturns(t)
  BY <1>1 DEF CallTick, TickStopped, TickStarts, PushBar, TickReturns, engine
<1>2. CASE \E r \in Reader : CallGetState(r) \/ GetStateStep(r)
  BY <1>2 DEF CallGetState, GetStateStep, GetStateStarts, ReadsCounts, ReadsPosition, ReadsSeries,
              GetStateReturns, engine
<1>3. CASE Stop \/ Quiet \/ UNCHANGED vars
  BY <1>3 DEF Stop, Quiet, vars, engine
<1> QED
  BY <1>1, <1>2, <1>3 DEF Next, TickStep

\* LiveSession implements the account: whatever threads tick, read and stop it,
\* seen from the money every tick is a quote and a trade at most.
THEOREM Refinement == Spec => ImplementsAccount
<1>1. Init => Books!Init
  BY DEF Init, InitEngine, Books!Init
<1>2. Inv /\ [Next]_vars => [Books!Next]_Books!vars
  <2> SUFFICES ASSUME Inv, [Next]_vars PROVE [Books!Next]_Books!vars
    OBVIOUS
  <2>1. CASE \E t \in Ticker : TickDispatches(t)
    BY <2>1, DispatchRefines DEF TickDispatches, Inv
  <2>2. CASE ~ \E t \in Ticker : TickDispatches(t)
    BY <2>2, OtherStepsKeepMoney DEF Books!vars
  <2> QED
    BY <2>1, <2>2
<1> QED
  BY <1>1, <1>2, Invariance, PTL DEF Spec, ImplementsAccount, Books!Spec

\* No tick overdraws the account by more than the friction of its fill.
THEOREM OverdraftBounded == Spec => OverdraftIsFriction
<1> DEFINE A == cash' < cash =>
         /\ Handles("fill")
         /\ IF Head(queue).direction = "LONG"
              THEN cash' >= - Friction(Head(queue))
              ELSE cash' >= cash - Head(queue).commission
<1>1. Inv /\ [Next]_vars => [A]_engine
  <2> SUFFICES ASSUME Inv, [Next]_vars, cash' < cash PROVE A
    OBVIOUS
  <2>1. CASE \E t \in Ticker : TickDispatches(t)
    BY <2>1, DispatchOverdraws DEF TickDispatches, Inv
  <2>2. CASE ~ \E t \in Ticker : TickDispatches(t)
    <3>1. cash' = cash /\ cash \in Int
      BY <2>2, OtherStepsKeepMoney, TypedBefore DEF Inv
    <3> QED
      BY <3>1
  <2> QED
    BY <2>1, <2>2
<1> QED
  BY <1>1, Invariance, PTL DEF Spec, OverdraftIsFriction

\* No step of any thread makes the account worth more at an unchanged price.
THEOREM NoValueCreated == Spec => TradesCreateNoValue
<1>1. Inv /\ [Next]_vars => [latestClose' = latestClose => Equity' <= Equity]_engine
  <2> SUFFICES ASSUME Inv, [Next]_vars, latestClose' = latestClose PROVE Equity' <= Equity
    OBVIOUS
  <2>1. CASE \E t \in Ticker : TickDispatches(t)
    BY <2>1, DispatchCreatesNoValue DEF TickDispatches, Inv
  <2>2. CASE ~ \E t \in Ticker : TickDispatches(t)
    <3>1. Equity' = Equity
      BY <2>2, OtherStepsKeepMoney DEF Equity, Worth
    <3>2. Equity \in Int
      BY TypedBefore, WorthInt DEF Inv, Equity
    <3> QED
      BY <3>1, <3>2
  <2> QED
    BY <2>1, <2>2
<1> QED
  BY <1>1, Invariance, PTL DEF Spec, TradesCreateNoValue

-----------------------------------------------------------------------------
(* Strategy and portfolio *)

\* A new session holds nothing.
LEMMA InitBelief == Init => Belief
<1> SUFFICES ASSUME Init PROVE Belief
  OBVIOUS
<1>1. 0 < U32 /\ ~ (0 > 0)
  BY TradingAssumption, SMT
<1> QED
  BY <1>1 DEF Init, InitEngine, Belief

\* Every step on a positive close keeps the agreement of portfolio and strategy.
LEMMA NextBelief == ClosesPositive /\ Inv /\ Belief /\ [Next]_vars => Belief'
<1> SUFFICES ASSUME ClosesPositive, Inv, Belief, [Next]_vars PROVE Belief'
  OBVIOUS
<1>1. CASE \E t \in Ticker : TickStarts(t)
  <2>1. /\ UNCHANGED <<inPosition, latestClose, cash, position, costBasis, realized, entryFees>>
        /\ mtx = {} /\ \E c \in Closes : Enqueue(queue, <<Market(c)>>)
    BY <1>1 DEF TickStarts, PushBar
  <2>2. queue = <<>>
    BY <2>1, LockExcludes DEF Inv, SessionInv, BarsInv
  <2>3. PICK c \in Closes : queue' = <<Market(c)>>
    BY <2>1, <2>2, PushBarInv DEF Inv
  <2>4. queue' # <<>> /\ Head(queue').kind = "market"
    <3>1. Market(c) \in Event /\ Market(c).kind = "market"
      BY DEF Market, Event
    <3> QED
      BY <2>3, <3>1, OneEvent
  <2> QED
    BY <2>1, <2>2, <2>4 DEF Belief
<1>2. CASE \E t \in Ticker : TickDispatches(t)
  BY <1>2, DispatchBelief DEF TickDispatches, Inv
<1>3. CASE \E t \in Ticker : CallTick(t) \/ TickStopped(t) \/ TickReturns(t)
  BY <1>3 DEF CallTick, TickStopped, TickReturns, engine, Belief
<1>4. CASE \E r \in Reader : CallGetState(r) \/ GetStateStep(r)
  BY <1>4 DEF CallGetState, GetStateStep, GetStateStarts, ReadsCounts, ReadsPosition, ReadsSeries,
              GetStateReturns, engine, Belief
<1>5. CASE Stop \/ Quiet \/ UNCHANGED vars
  BY <1>5 DEF Stop, Quiet, vars, engine, Belief
<1> QED
  BY <1>1, <1>2, <1>3, <1>4, <1>5 DEF Next, TickStep

\* Ticked with positive closes only, the session is invested between two bars
\* only if its strategy is in its position.
THEOREM BeliefHolds == Spec => []HoldsOnlyInPosition
<1>1. CASE ClosesPositive
  <2>1. Inv /\ Belief /\ [Next]_vars => Belief'
    BY <1>1, NextBelief
  <2>2. Inv /\ Belief => HoldsOnlyInPosition
    BY DEF Belief, HoldsOnlyInPosition
  <2> QED
    BY <2>1, <2>2, InitBelief, Invariance, PTL DEF Spec
<1>2. CASE ~ClosesPositive
  <2>1. HoldsOnlyInPosition
    BY <1>2 DEF HoldsOnlyInPosition, ClosesPositive
  <2> QED
    BY <2>1, PTL
<1> QED
  BY <1>1, <1>2

-----------------------------------------------------------------------------
(* What becomes of a signal *)

\* Nothing is pursued before the first tick.
LEMMA InitPursuit == Init => Pursuit
BY DEF Init, InitEngine, Pursuit

\* Every step of any thread keeps what is in flight the strategy's latest wish,
\* and the step that ends a signal's events has its effect.
LEMMA NextPursuit == Inv /\ Pursuit /\ [Next]_vars => Pursuit' /\ [TakesEffect]_engine
<1> SUFFICES ASSUME Inv, Pursuit, [Next]_vars PROVE Pursuit' /\ [TakesEffect]_engine
  OBVIOUS
<1>1. CASE \E t \in Ticker : TickStarts(t)
  <2>1. mtx = {} /\ \E c \in Closes : Enqueue(queue, <<Market(c)>>)
    BY <1>1 DEF TickStarts, PushBar
  <2>2. queue = <<>>
    BY <2>1, LockExcludes DEF Inv, SessionInv, BarsInv
  <2>3. PICK c \in Closes : queue' = <<Market(c)>>
    BY <1>1, <2>1, <2>2, PushBarInv DEF Inv, TickStarts, PushBar
  <2>4. Market(c) \in Event /\ Market(c).kind = "market"
    BY DEF Market, Event
  <2>5. Head(queue').kind = "market"
    BY <2>3, <2>4, OneEvent
  <2> QED
    BY <2>2, <2>5 DEF Pursuit, TakesEffect
<1>2. CASE \E t \in Ticker : TickDispatches(t)
  BY <1>2, DispatchTakesEffect DEF TickDispatches, Inv
<1>3. CASE \E t \in Ticker : CallTick(t) \/ TickStopped(t) \/ TickReturns(t)
  BY <1>3 DEF CallTick, TickStopped, TickReturns, engine, Pursuit
<1>4. CASE \E r \in Reader : CallGetState(r) \/ GetStateStep(r)
  BY <1>4 DEF CallGetState, GetStateStep, GetStateStarts, ReadsCounts, ReadsPosition, ReadsSeries,
              GetStateReturns, engine, Pursuit
<1>5. CASE Stop \/ Quiet \/ UNCHANGED vars
  BY <1>5 DEF Stop, Quiet, vars, engine, Pursuit
<1> QED
  BY <1>1, <1>2, <1>3, <1>4, <1>5 DEF Next, TickStep

\* In a live session, too, a signal has bought or sold what the strategy
\* believes it has by the end of its tick, or there was one of the reasons.
THEOREM SignalsHaveEffect == Spec => SignalsTakeEffect
BY InitPursuit, NextPursuit, Invariance, PTL DEF Spec, SignalsTakeEffect, TakesEffect

=============================================================================
