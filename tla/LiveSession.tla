---------------------------- MODULE LiveSession ----------------------------
(***************************************************************************)
(* LiveSession: the cascade driven one tick() at a time, by threads that   *)
(* share it with threads calling get_state() and stop().  tick() and       *)
(* get_state() hold mtx_ from end to end; stop() only stores the atomic    *)
(* running_ and takes no lock.                                             *)
(***************************************************************************)
EXTENDS Cascade

CONSTANTS
    Ticker,         \* the threads that call tick()
    Reader,         \* the threads that call get_state()
    Stamps,         \* the timestamps a caller may pass; 0 is none
    MaxTicks,       \* bound: the calls of tick() altogether
    MaxReads        \* bound: the calls of get_state() altogether

ASSUME LiveSessionAssumption == Stamps \subseteq Nat /\ MaxTicks \in Nat /\ MaxReads \in Nat

Thread == Ticker \cup Reader

VARIABLES
    mtx,            \* the threads inside mtx_
    running,        \* running_
    pc,             \* where each thread is in its call; "idle" between calls
    ticks, reads,   \* the calls made so far
    barCount,       \* bar_count_
    eventCount,     \* event_count_
    equityCurve,    \* the tracker's equity_curve_
    sharpeFor,      \* the length of the curve sharpe_ was computed from
    sharpeReady,    \* sharpe_ready_
    ts,             \* the timestamp of the tick in progress
    marketData,     \* market_data_, the timestamps and closes of
    signals,        \* signals_; its last record is last_signal_direction_ and _price_
    state,          \* the LiveState each reader is filling, or was last returned
    barsAtStop      \* history: bar_count_ when stop() was first called

session == <<barCount, eventCount, equityCurve, ts, marketData, signals>>
sharpe == <<sharpeFor, sharpeReady>>
calls == <<ticks, reads>>
vars == <<engine, session, sharpe, calls, mtx, running, pc, state, barsAtStop>>

\* A LiveState as it is constructed; its position is the three fields of
\* LivePosition, and returned says whether get_state() is through with it.
NoState ==
    [returned |-> FALSE, running |-> FALSE, bar_count |-> 0, event_count |-> 0,
     cash |-> 0, equity |-> 0, shares |-> 0, market_value |-> 0, unrealized_pnl |-> 0,
     equity_curve |-> <<>>, trade_pnls |-> 0, market_data |-> <<>>, signals |-> <<>>,
     sharpe_of |-> 0]

\* The members of a new session.
InitSession ==
    /\ mtx = {}
    /\ running = TRUE
    /\ barCount = 0 /\ eventCount = 0
    /\ equityCurve = <<>> /\ sharpeFor = 0 /\ sharpeReady = FALSE
    /\ marketData = <<>> /\ signals = <<>>

Init ==
    /\ InitEngine
    /\ InitSession
    /\ ts = 0
    /\ pc = [t \in Thread |-> "idle"]
    /\ ticks = 0 /\ reads = 0
    /\ state = [r \in Reader |-> NoState]
    /\ barsAtStop = -1

-----------------------------------------------------------------------------
(* tick() *)

CallTick(t) ==
    /\ pc[t] = "idle" /\ ticks < MaxTicks
    /\ ticks' = ticks + 1
    /\ pc' = [pc EXCEPT ![t] = "tick"]
    /\ UNCHANGED <<engine, session, sharpe, reads, mtx, running, state, barsAtStop>>

\* Faulty variant: a tick of a stopped session waits for it to run again.
TickStoppedWaits(t) == pc[t] = "tick" /\ mtx = {} /\ ~running /\ UNCHANGED vars

\* The lock was taken and running_ found false.
TickStopped(t) ==
    /\ pc[t] = "tick" /\ mtx = {}
    /\ ~running
    /\ pc' = [pc EXCEPT ![t] = "idle"]
    /\ UNCHANGED <<engine, session, sharpe, calls, mtx, running, state, barsAtStop>>

PushBar(t) ==
    /\ \E c \in Closes : Enqueue(queue, <<Market(c)>>)
    /\ \E stamp \in Stamps : ts' = IF stamp > 0 THEN stamp ELSE barCount
    /\ mtx' = mtx \cup {t}
    /\ pc' = [pc EXCEPT ![t] = "drain"]
    /\ UNCHANGED <<inPosition, latestClose, cash, position, costBasis, realized, entryFees,
                   barCount, eventCount, equityCurve, marketData, signals,
                   sharpe, calls, running, state, barsAtStop>>

\* Faulty variants: running_ is not read; mtx_ is not taken.
TickStartsAnyway(t) == pc[t] = "tick" /\ mtx = {} /\ PushBar(t)
TickStartsUnlocked(t) == pc[t] = "tick" /\ running /\ PushBar(t)

\* It was found true, and the bar is pushed.
TickStarts(t) == pc[t] = "tick" /\ mtx = {} /\ running /\ PushBar(t)

\* What the loop of tick() itself keeps of an event, before its handler runs.
ChartBar(e) ==
    IF e.kind = "market" THEN Append(marketData, [timestamp |-> ts, close |-> e.close])
                         ELSE marketData

ChartSignal(e, bar) ==
    IF e.kind = "signal"
      THEN Append(signals, [bar_index |-> bar, direction |-> e.direction, price |-> latestClose])
      ELSE signals

\* Faulty variant: signals are filed under the next bar.
ChartLate(e) == marketData' = ChartBar(e) /\ signals' = ChartSignal(e, barCount + 1)

Chart(e) == marketData' = ChartBar(e) /\ signals' = ChartSignal(e, barCount)

TickDispatches(t) ==
    /\ pc[t] = "drain" /\ ~thrown
    /\ Dispatch
    /\ eventCount' = eventCount + 1
    /\ Chart(Head(queue))
    /\ UNCHANGED <<barCount, equityCurve, ts, sharpe, calls, mtx, running, pc, state, barsAtStop>>

\* record_equity().  Faulty variant: the cached Sharpe ratio stays valid.
RecordKeepsCache ==
    /\ equityCurve' = Append(equityCurve, Equity)
    /\ UNCHANGED sharpe

RecordEquity ==
    /\ equityCurve' = Append(equityCurve, Equity)
    /\ sharpeReady' = FALSE
    /\ UNCHANGED sharpeFor

TickReturns(t) ==
    /\ pc[t] = "drain" /\ queue = <<>>
    /\ RecordEquity
    /\ barCount' = barCount + 1
    /\ mtx' = mtx \ {t}
    /\ pc' = [pc EXCEPT ![t] = "idle"]
    /\ UNCHANGED <<engine, eventCount, ts, marketData, signals, calls, running, state, barsAtStop>>

-----------------------------------------------------------------------------
(* get_state(): the fields are read one group after the other. *)

ReadStep(r, from, to, filled) ==
    /\ pc[r] = from
    /\ pc' = [pc EXCEPT ![r] = to]
    /\ state' = [state EXCEPT ![r] = filled]

CallGetState(r) ==
    /\ reads < MaxReads
    /\ pc[r] = "idle"
    /\ pc' = [pc EXCEPT ![r] = "get_state"]
    /\ reads' = reads + 1
    /\ state' = [state EXCEPT ![r] = NoState]
    /\ UNCHANGED <<engine, session, sharpe, ticks, mtx, running, barsAtStop>>

\* Faulty variant: mtx_ is not taken.
GetStateStartsUnlocked(r) ==
    /\ ReadStep(r, "get_state", "counts", state[r])
    /\ mtx' = mtx \cup {r}
    /\ UNCHANGED <<engine, session, sharpe, calls, running, barsAtStop>>

GetStateStarts(r) ==
    /\ mtx = {}
    /\ ReadStep(r, "get_state", "counts", state[r])
    /\ mtx' = mtx \cup {r}
    /\ UNCHANGED <<engine, session, sharpe, calls, running, barsAtStop>>

\* The last point of the curve, or the cash before there is one.
MarkedEquity == IF equityCurve = <<>> THEN cash ELSE equityCurve[Len(equityCurve)]

ReadsCounts(r) ==
    /\ ReadStep(r, "counts", "position",
         [state[r] EXCEPT !.running = running, !.bar_count = barCount, !.event_count = eventCount,
                          !.cash = cash, !.equity = MarkedEquity])
    /\ UNCHANGED <<engine, session, sharpe, calls, mtx, running, barsAtStop>>

ReadsPosition(r) ==
    /\ ReadStep(r, "position", "series",
         [state[r] EXCEPT !.shares = position, !.market_value = Worth(position, latestClose),
                          !.unrealized_pnl = Worth(position, latestClose) - costBasis])
    /\ UNCHANGED <<engine, session, sharpe, calls, mtx, running, barsAtStop>>

ReadsSeries(r) ==
    /\ ReadStep(r, "series", "metrics",
         [state[r] EXCEPT !.equity_curve = equityCurve, !.trade_pnls = realized,
                          !.market_data = marketData, !.signals = signals])
    /\ UNCHANGED <<engine, session, sharpe, calls, mtx, running, barsAtStop>>

\* The metrics; annualised_sharpe() computes the ratio unless it is cached.
GetStateReturns(r) ==
    /\ sharpeReady' = TRUE
    /\ sharpeFor' = IF sharpeReady THEN sharpeFor ELSE Len(equityCurve)
    /\ ReadStep(r, "metrics", "idle",
         [state[r] EXCEPT !.sharpe_of = sharpeFor', !.returned = TRUE])
    /\ mtx' = mtx \ {r}
    /\ UNCHANGED <<engine, session, calls, running, barsAtStop>>

-----------------------------------------------------------------------------
(* stop(), by any thread at any time *)

Stop ==
    /\ running
    /\ running' = FALSE
    /\ barsAtStop' = barCount
    /\ UNCHANGED <<engine, session, sharpe, calls, mtx, pc, state>>

-----------------------------------------------------------------------------

TickStep(t) == TickStopped(t) \/ TickStarts(t) \/ TickDispatches(t) \/ TickReturns(t)

GetStateStep(r) ==
    \/ GetStateStarts(r)
    \/ ReadsCounts(r) \/ ReadsPosition(r) \/ ReadsSeries(r)
    \/ GetStateReturns(r)

\* Every call the bounds allow was made and has returned.
Quiet ==
    /\ \A t \in Thread : pc[t] = "idle"
    /\ ticks = MaxTicks /\ reads = MaxReads /\ ~running
    /\ UNCHANGED vars

Next ==
    \/ \E t \in Ticker : CallTick(t) \/ TickStep(t)
    \/ \E r \in Reader : CallGetState(r) \/ GetStateStep(r)
    \/ Stop
    \/ Quiet

Spec == Init /\ [][Next]_vars

\* A thread inside a call keeps running it; nobody has to make another call.
FairSpec ==
    /\ Spec
    /\ \A t \in Ticker : WF_vars(TickStep(t))
    /\ \A r \in Reader : WF_vars(GetStateStep(r))

-----------------------------------------------------------------------------
(* Properties *)

OHLCVBar == [timestamp : Nat, close : Closes]

SignalRecord == [bar_index : Nat, direction : Direction, price : Closes]

LiveState ==
    [returned : BOOLEAN, running : BOOLEAN, bar_count : Nat, event_count : Nat,
     cash : Int, equity : Int, shares : Nat, market_value : Int, unrealized_pnl : Int,
     equity_curve : Seq(Int), trade_pnls : Int,
     market_data : Seq(OHLCVBar), signals : Seq(SignalRecord), sharpe_of : Nat]

TypeOK ==
    /\ EngineTypeOK
    /\ mtx \in SUBSET Thread
    /\ running \in BOOLEAN
    /\ pc \in [Thread -> {"idle", "tick", "drain", "get_state", "counts", "position", "series",
                          "metrics"}]
    /\ barCount \in 0 .. MaxTicks
    /\ eventCount \in 0 .. 4 * MaxTicks
    /\ equityCurve \in Seq(Int)
    /\ ts \in Nat
    /\ marketData \in Seq(OHLCVBar)
    /\ signals \in Seq(SignalRecord)
    /\ state \in [Reader -> LiveState]

Returned(r) == state[r].returned

\* The counts, the money and the series of a LiveState are of the same bar; its
\* equity is what the recorded trades and the open position explain, less the
\* entry commissions, which it shows nowhere.
OfOneBar(s) ==
    LET unexplained == InitialCash + s.trade_pnls + s.unrealized_pnl - s.equity
    IN  /\ s.bar_count = Len(s.equity_curve)
        /\ s.bar_count = Len(s.market_data)
        /\ s.event_count \in s.bar_count .. 4 * s.bar_count
        /\ s.bar_count > 0 => /\ s.equity = s.equity_curve[s.bar_count]
                              /\ s.equity = s.cash + s.market_value
        /\ unexplained >= 0
        /\ unexplained > 0 => s.signals # <<>>

\* A LiveState that get_state() returned shows the session between two bars,
\* whatever ticks were waiting or came while it was being filled; there are no
\* entry commissions in it before the first signal.
SnapshotConsistent == \A r \in Reader : Returned(r) => OfOneBar(state[r])

\* Every signal indexes one of the first count bars, one signal a bar at most,
\* at the close of that bar, LONG and EXIT in turn.
SignalsMatch(signalled, bars, count) ==
    \A i \in 1 .. Len(signalled) :
      /\ signalled[i].bar_index < count
      /\ signalled[i].price = bars[signalled[i].bar_index + 1].close
      /\ signalled[i].direction = IF i % 2 = 1 THEN "LONG" ELSE "EXIT"
      /\ i > 1 => signalled[i - 1].bar_index < signalled[i].bar_index

\* A bar that came without a timestamp has its index for one.
BarsStamped(bars) ==
    \A i \in 1 .. Len(bars) : bars[i].timestamp \in {i - 1} \cup (Stamps \ {0})

\* What a returned LiveState says of its signals can be looked up in its own
\* market data.
SignalsIndexBars ==
    \A r \in Reader : Returned(r) =>
      /\ SignalsMatch(state[r].signals, state[r].market_data, state[r].bar_count)
      /\ BarsStamped(state[r].market_data)

\* The Sharpe ratio of a returned LiveState is the one of its equity curve,
\* though it is computed lazily and cached across calls.
SharpeIsCurrent ==
    \A r \in Reader : Returned(r) => state[r].sharpe_of = Len(state[r].equity_curve)

\* A LiveState that says the session was stopped is its last: no bar is added
\* to the session after it was taken.
StoppedStateIsFinal ==
    \A r \in Reader : Returned(r) /\ ~state[r].running => state[r].bar_count = barCount

\* stop() does not wait for the tick in progress, which is completed; but none
\* after it adds a bar.
AtMostOneBarAfterStop == ~running => barCount <= barsAtStop + 1

\* Every call returns.
CallsReturn ==
    \A t \in Thread : (pc[t] # "idle") ~> (pc[t] = "idle")

=============================================================================
