# Nanoback in TLA+

Nanoback is an event-driven backtesting engine in C++20: bars stream out of a
CSV or protobuf file, a strategy answers each with a signal, the portfolio
sizes an order, the execution handler fills it, and a performance tracker
records what the account is worth. The same engine is driven from a file
(`run_backtest`), over many configurations in parallel (`run_batch`), or one
tick at a time by several threads (`LiveSession`); a web page sweeps parameters
through `run_batch`. This directory holds the
TLA+ modules of that system, the TLC configurations that check them, and
proofs that TLAPS checks. Paths below are relative to the repository.

Contents: [the system](#1-the-system), [the modules](#2-the-modules),
[the runs](#3-the-runs), [fairness](#4-fairness), [the proofs](#5-the-proofs),
[abstractions](#6-what-is-abstracted), [findings](#7-findings),
[what is not modelled](#8-what-is-not-modelled), [the plan](#9-the-plan).

To repeat the work: `tlc -config X.cfg M` for the runs listed in
`PROJECT.json`, `tlapm M.tla` for the eight `*_proofs` modules.

## 1. The system

```
 CSV ──DataHandler──────┐                       ┌─────────── one bar's cascade ───────────┐
  │                     ├─ bar ─> EventQueue ─> │ Market -> strategy   -> Signal           │
  └─csv_to_proto.py─.pb─┘           ^           │ Signal -> Portfolio  -> Order            │
      ProtoDataHandler              └── push ── │ Order  -> Execution  -> Fill             │
                                                │ Fill   -> Portfolio, PerformanceTracker  │
 LiveSession::tick() ── bar ─> the same queue   └──────────────────────────────────────────┘
```

| component | state | operations | what is hard | what makes it correct |
|---|---|---|---|---|
| **EventQueue** `src/event_queue.cpp` | ring `buffer_`, `head_`, `tail_`, `count_`, `peak_count_` | `push`, `pop`, `empty`, `peak_depth` | two indices that wrap and one counter that tells full from empty; exceptions at both ends | it is a bounded FIFO; a moved-from slot is never delivered |
| **Events** `include/events.hpp` | a variant of four structs | copied and moved through the queue | none | every handler sees the event it was sent |
| **Portfolio** `src/portfolio.cpp` | cash, shares, average cost, latest price | `on_signal` sizes an order, `on_fill` settles it, `equity` | an order is sized at one step and settled two events later; casts to `uint32_t`; friction not in the clamp | money is conserved; nothing is sold that is not held; overdrafts are bounded |
| **ExecutionHandler** `src/execution_handler.cpp` | none | `on_order` prices with slippage and commission | its price is read at its own step, not at the signal's | the fill is priced at the bar it settles in |
| **run_backtest** `src/run_backtest.cpp` | the objects above, `bar_count`, `event_count`, the equity curve | stream a bar, drain the queue, record the equity | the inner loop ends only because each handler answers with a later kind of event | bars do not leak into one another, the queue never overflows, the run ends |
| **run_batch** `src/run_backtest.cpp` | the configurations, one vector of futures per wave, the results | validate, warm up protobuf, launch waves of `std::async`, collect in order | runs end in any order, throw, or cannot be launched; unwinding; an unsynchronised first use of protobuf | results by position, at most `hw` runs in flight, no run outlives the call |
| **LiveSession** `src/live_session.cpp` | the engine's objects, `mtx_`, atomic `running_`, three series | `tick`, `get_state`, `stop` | threads; `stop` takes no lock; a snapshot is a dozen reads | snapshots are of one bar; at most one bar after `stop` |
| **PerformanceTracker** `src/performance.cpp` | equity curve, trade pnls, `sharpe_`, `sharpe_ready_` | `record_equity`, `record_trade`, four metrics, `report` | a value cached in a `const` method; quotients by a peak, an equity or a deviation that may be 0 or negative | the cached ratio is the curve's; the drawdown is the worst fall; the metrics do not contradict each other |
| **Strategies** `src/strategy/` | per strategy: windows, running sums and averages, flags, `in_position_` | `on_market_event` of nine classes | incremental state that is right only if it was updated on every bar, the silent ones too | each computes its rule over all the bars so far, and signals LONG and EXIT in turn |
| **Strategy factory** `src/strategy/strategy_factory.cpp` | none | `make_strategy` | parameters that are not positive mean the default | a known name gives its strategy; an unknown one throws |
| **DataHandler** `src/data_handler.cpp` | the stream, the columns found in the header | `parse_header`, `stream_next_event`, field, date and time parsing | every defect of a row becomes a zero; civil dates to days in unsigned arithmetic | one bar per line, in order; timestamps are epochs |
| **ProtoDataHandler** `src/proto_data_handler.cpp` | the stream | `stream_next_event`: varint length, then a record | the file may end in any byte | whole records are delivered, and no length is read inside one |
| **csv_to_proto.py** `data/csv_to_proto.py` | the output file | `convert` | which rows it skips, which it raises on | the `.pb` file has the CSV file's bars |
| **Streamlit UI** `ui/app.py` | the form, `session_state["sweep"]`, the cache of `run_sweep` | the script, run again on each interaction; `run_sweep`, `composite_score` | charts of an earlier sweep under a form that has moved on; runs of the script that throw or are interrupted; degenerate normalisation | every cell is the run it is labelled with; no run beats the winner |
| command line, Python bindings, download script, benchmark helper, build and tests | | | | not modelled, see [8](#8-what-is-not-modelled) |

How they interact: everything inside one engine is called synchronously from
one loop on one thread; the queue is the only way one handler reaches the next.
Engines share nothing with each other, so that `run_batch` is concurrent in its
launching, collecting and unwinding only. The sweep page calls `run_batch()`
through the Python bindings. `LiveSession` is the one object that
several threads share. The strategy keeps its own idea of the position
(`in_position_`), which nothing ever reconciles with the portfolio's.

The hazards that follow from this are listed, each at its line, in
`PROJECT.json`; the properties below are aimed at them.

## 2. The modules

| module | models | composes or implements |
|---|---|---|
| `BoundedFifo` | what a queue promises its clients | |
| `EventQueue` | the ring buffer, one action per call and outcome | implements `BoundedFifo` |
| `Trading` | the events, sizing, fill price and commission as operators | |
| `Account` | what the engine promises the owner of the money: quotes, covered purchases and sales, each in one step | `Trading` |
| `Cascade` | the five handlers of one bar's cascade, one action each | implements `Account`; uses the queue as `BoundedFifo` promises it and the strategy as `Signaller` does |
| `Backtest` | `run_backtest()`: the loops around the cascade | extends `Cascade` |
| `LiveSession` | `tick()`, `get_state()`, `stop()` by any number of threads | extends `Cascade` |
| `SequentialBatch` | what `run_batch()` promises: results in order, or an exception, whichever | |
| `RunBatch` | validation, warm-up, waves, collection, unwinding | implements `SequentialBatch` |
| `Sums` | loops that add up or multiply: sums, products and powers | |
| `Signaller` | what the engine may expect of a strategy | |
| `Strategies` | the nine strategies and the factory's defaults | implements `Signaller`; uses `Sums` |
| `StrategyRules` | when each strategy is in its position, from the whole history, without its incremental state | extends `Strategies` |
| `Performance` | the tracker's recorders, its metrics, the Sharpe cache | uses `Sums` |
| `Sweep` | the sweep page as one browser session sees it | uses `run_batch()` as `SequentialBatch` promises it |
| `Calendar` | `days_from_civil()`, and a calendar that counts days one by one | |
| `Feed` | what a run expects of its data | |
| `Ingest` | one CSV file read by `DataHandler`, and converted and read by `ProtoDataHandler` | extends `Calendar`; implements `Feed` |
| `MC*` | values of the constants for TLC | |
| `*_proofs` | the theorems; those about `Sweep` are in `RunBatch_proofs`, those about `Trading` and `Cascade` in `Backtest_proofs` and `LiveSession_proofs` | |

**State and actions against the code.** Variables carry the members' names
without the trailing underscore, in the case of the module; where they differ
the declaration says so. Members that are always assigned together are one
variable: `latestClose` is `latest_close` and `prices[0]`, the loop's two copies of
the price the handlers are passed; `costBasis` is `avg_cost_[0] * positions_[0]`, so that the
running average needs no division on a purchase; `realized` is the sum of
`trade_pnls_`. `PROJECT.json` maps every definition to its lines.

*Cascade.* An action pops the front of the queue, does all its handler does and
pushes the answer: `OnMarket` (`on_market_event`), `OnSignal`
(`Portfolio::on_signal`), `OnOrder` (`ExecutionHandler::on_order`),
`OnLongFill` and `OnExitFill` (`Portfolio::on_fill` with the pnl record). The
queue is `Enqueue`: `BoundedFifo`'s push, and the exception (`thrown`) when it
is full. The strategy is `Reactions`, any strategy `Signaller` allows.

*Backtest.* `pc` is the place in the two nested loops: `StreamBar` and
`EndOfData` at the head of the outer one, `DispatchEvent` and `RecordEquity` in
the inner one.

*LiveSession.* A thread's `pc` is its place in its call. The lock spans a call,
so what needs separate steps is what another thread can interleave with:
`stop()`, and every step of a variant that forgets the lock. `get_state()`
reads its fields in four groups into a `LiveState` that starts as the default-constructed
one (`NoState`); the market value of a position is an integer, as closes may be negative.
`running` is sampled where the code loads it:
in `tick()` once, after the lock; in `get_state()` among the counts. A bar comes
with a timestamp or without (`Stamps`, 0 being none), and is then stamped with
`bar_count_`, as `tick()` does.

*Performance.* `RecordEquity` and `RecordTrade` are the recorders. Asking for the
metrics starts with `AskMetrics` (`total_return()`, `annualised_sharpe()` with
its cache), goes through the loop of `max_drawdown()` point by point
(`DrawdownStep`) and ends in `MetricsReturned`, where `win_rate()` is read too.
`run_backtest()` and `get_state()` ask for all four at once, and `report()` does,
too.

*Sweep.* An action is a run of the script by Streamlit: `Interact` with any
widget but the button, `ClickRun` with the button, up to its answer from the
cache or to `run_batch()`, and then `BatchReturns`, `BatchThrows`, or
`Interrupted` when the user touches the form meanwhile. What the page draws
from the saved sweep is operators: `Cells` (`_pivot()`), `Composite`, `Winners`. Its
initial states, steps and specification are `PageInit`, `PageNext` and `PageSpec`,
so that one module can speak of the page and of `run_batch()`.

*RunBatch.* The calling thread is `Validate`, `WarmUp`, `Launch`, `Collect`,
`NextWave`, with `LaunchThrows` and `GetThrows` as the two exceptions and
`Unwind` as the destruction of the wave's futures, which blocks until their
runs have ended. A run is `WorkerEnds`; `Backtest` is what it does inside.

*Strategies.* `NextBar` gives a bar to the strategy that was made. `st` holds
the members of that strategy, in a record. The helpers the nine share
(`Decide`, `Slide`, `Ema`, `Wilder`) stand for code each class repeats.

*Ingest.* `StreamCsv` and `StreamProto` are the two `stream_next_event()`s,
`Convert` a row of the converter's loop, `Converted` its end, and `Cut` the
loss of any tail of its file. Which column a header gives for a kind differs:
`CsvColumn` takes the last match or the default place, `PyColumn` the first
name that matches and then the last column of that name.

Operators called faulty variants in the modules are not part of any
specification. Each is a plausible bug of the definition beside it, and the
mutants listed in `PROJECT.json` put them in its place to confirm that the
property they are paired with notices.

## 3. The runs

| run | states | what it asks |
|---|---|---|
| `event_queue` | 416 | Is the ring a bounded FIFO with a high-water mark, at every rotation and fill level? |
| `backtest` | 63,704 | Do the money, the shares and the loop's bookkeeping add up; does the engine implement the account; what becomes of a signal; does the run end? |
| `backtest_overdraft` | violation | Does the clamp prevent negative cash, as its comment says? |
| `live_session` | 244,240 | Are snapshots, the charts and the cached Sharpe ratio of one bar; what can happen after `stop()`; are the money and the shares still an account; does every call return? |
| `run_batch` | 10,532 | Results in order, in-flight bound, nothing left running, nothing started before names and descriptors are in order, termination? |
| `strategies` | 152,814 | Does each strategy's incremental computation give its rule over the history? |
| `sma_swapped` | violation | Does an `sma` whose fast period is the longer one compare means? |
| `rsi_of_one` | violation | Does `rsi` with a period of 1 do what its header says? |
| `ingest` | 79,352 | Do the two paths deliver the same bars; what does a cut file deliver; are timestamps epochs? |
| `ingest_malformed` | violation | Does the converter skip the rows `DataHandler` skips? |
| `performance` | 488,895 | Is the drawdown the worst fall of the curve; do the four metrics contradict each other? |
| `sweep` | 70,144 | Do the charts show what they are labelled with; is the winner beaten by any other run? |

**The bounds, and why they are enough.**

- *event_queue*: three slots, three events. With two slots "next" and
  "previous" coincide; with three every wrap of head and tail happens at every
  fill level. Events are compared only for identity. The theorems of
  `EventQueue_proofs` remove the bound.
- *backtest*: up to `MaxBars` = 6 bars, enough for two round trips with a
  quiet bar between; closes 0 to 3, where 0 is what a malformed row becomes;
  200 ticks of cash at 20 ticks a unit, so that a LONG can buy from zero up to
  ten shares; a `uint32_t` of eight values, so that the cast overflows, and
  two purchases hold more than one EXIT can sell; a close of 0 under a position, so that an
  EXIT is dropped and a LONG adds to what was left; a
  capacity of 2, so that an extra event would throw. No constant is large
  relative to another by accident: slippage and commission are large enough to
  overdraw the account on the first purchase. `Backtest_proofs` removes all
  these bounds.
- *live_session*: two ticking threads, one reader, three ticks and two reads.
  Two tickers contend; a reader can overlap a tick at each of its steps; two
  reads with ticks between them exercise a cache that was filled, invalidated
  and filled again; three ticks are a purchase, a sale and a bar more. Bars come
  stamped 9 or without a stamp, in every order; closes are 1 and 2, since
  what other closes do to the money is the same cascade's affair, in `backtest`. A
  third ticker would do nothing the two do not, since the lock admits one.
  Threads are not declared symmetric, because liveness is checked.
- *run_batch*: batches of up to four over waves of one to four (reported 0 means
  4), so that batches are smaller than, equal to, a multiple of, and not a
  multiple of a wave; up to four waves. Names known and unknown in every
  position, both formats in every mixture.
- *strategies*: six bars out of four (a row of zeros, one that closes below zero, a
  wide one and one that closes above the others); every strategy with periods short enough
  to warm up, enter, leave and enter again within six bars; also an `sma` whose
  fast window is the longer one and parameters that mean the defaults.
  `Strategies_proofs` removes the bounds. `sma_swapped` takes
  sound bars only (closes 1, 5 and 8), so that its counterexample is not owed to a
  malformed row.
- *ingest*: eight headers (ordered, reordered, with columns missing, doubled, or
  under two names), files of up to two rows of seven kinds, every cut of every
  `.pb` file; `Base` = 4 in the place of 128 makes lengths of one and two
  digits; and single rows on the first, the 28th and the last days of every month
  of 1968 to 1970, 1972, 1999, 2000, 2023, 2024, 2100 and 2400. `Ingest_proofs`
  removes all these bounds.
- *performance*: equities from -1 (an overdraft) over 0 to 3, five points: two
  peaks with a fall after each and a point between. Pnls lose, break even or
  win more than they lose; two of them make every win rate that matters.
  `Performance_proofs` removes the bounds.
- *sweep*: strategies with one axis and with two, on either second field, two of
  them with the same fields and values, so that only the name tells their
  frames apart; ranges that meet their stop, stop short of it, pass it and run
  backwards; none, one and two tickers; eight ways the metrics may rank the
  configurations, ties included; every combination of zero and nonzero weights.
  `RunBatch_proofs` removes the bounds.

**The deepest properties**, by what they relate:

- `ImplementsAccount`: whatever the cascade's queueing, what the owner sees is an
  account with covered purchases and sales of held shares at the current
  price. It fails if anything touches price, cash or shares between the sizing of
  an order and its settlement. The live session has it too, under its lock.
- `LedgerBalances`: cash, cost basis, recorded trade pnls and entry commissions
  reconcile in every state. Entry commissions leave the cash but are in no
  trade's pnl; the property says exactly that.
- `OverdraftIsFriction`: what does hold of the clamp that
  `backtest_overdraft` refutes: a purchase overdraws by that fill's
  friction at most.
- `SignalsTakeEffect`: the strategy changes its mind when it gives a signal and
  is never told what became of it. At the end of the bar a LONG has bought and an EXIT has
  sold everything, but for four cases, which the property names and the run
  reaches: a close that is not positive; cash for one share or less; cash for more
  shares than an order can count; more shares held than that.
- `SnapshotConsistent`, `SignalsIndexBars`, `StoppedStateIsFinal`: relate what a
  thread copied over several steps to itself and to the session afterwards.
- `NoOrphans` and `InFlightBounded` hold through exceptions only because the
  future of `std::async` blocks in its destructor.
- `FollowsItsRule`: nine incremental computations against nine rules over the
  history (sums, extrema, closed forms of the averages).
- `DrawdownIsWorstFall`: one pass against all pairs of points, and what is left of
  it on curves that touch or pass 0. `MetricsAgree`: four formulas against each
  other; a session that gained and stayed solvent has no negative Sharpe ratio.
- `ShownAsRun`: the cell, the frame in the cache, the saved sweep and the form at
  the time of the click, through every interleaving of them.
- `PathsAgree`: what two programs in two languages make of one file.

## 4. Fairness

- *Backtest*: `WF_vars(Step)`. The loop runs on one thread, and nothing in it
  blocks. Streaming may always find the end of the file; termination rests on the file
  being finite (`MaxBars`) and on the cascade being finite, which is what
  could be wrong.
- *LiveSession*: weak fairness of each thread's `TickStep` and `GetStateStep`,
  that is, a thread inside a call keeps running. `CallTick`, `CallGetState` and
  `Stop` are not fair: nobody has to call. `std::mutex` promises no fairness, and
  weak fairness of a thread that waits for it gives none: `CallsReturn` holds
  here because the calls are bounded. It says that no path keeps the lock or
  waits for something no one will do, not that a contended lock is fair.
- *RunBatch*: weak fairness of the calling thread and of the workers together: a
  run ends. That a run ends is `Terminates` of `Backtest`.
- The other specifications state no fairness and no liveness.

## 5. The proofs

All are for every value of the constants that the named assumptions of the
modules allow; `ExitsWhenOverbought` alone states one more. They say: the capacity is a natural number
(positive in `Cascade`), the initial cash is not negative, closes are integers,
slippage is from 0 to 1, commissions are natural numbers, `uint32_t` has at
least one value. The bars of the strategies are integers below `Infinity`, and the
parameters integers. The sweep page's axes are ranges of integers with a positive step, as its
inputs enforce; the tickers of a form are finitely many; the sliders stand at
natural numbers, `min_trades` at a positive one. A file is a header and rows of fields; the base of a varint
is 2 or more, a ticker takes at least a byte, a value any number.

**EventQueue_proofs.** `TypeCorrect`, `RingIsConsistent`, `Refinement`
(`ImplementsFifo`). `TypeOK` is not inductive: that `pop()` returns an event
and not a moved-from slot needs to know which slots hold events. `IInv` adds
`RingConsistent`, the tie between `head`, `tail` and `count`. Its
arithmetic is isolated in lemmas on `%` (`RingStep`, `SlotOfUnwrapped`).
The refinement then shows that a push appends at `SlotOf(count + 1)` and a pop
shifts every index by one.

**Cascade_proofs** holds the lemmas both loops can use; **Backtest_proofs** has
the theorems. The inductive invariant is `EngineInv` with the loop's
`LoopInv`:

- `OneInFlight` is the key. `InFlightCovered` alone does not survive a queue
  with two orders, each covered by itself. It is inductive since every handler
  answers one event with at most one.
- `Rank` is the position of an event in the chain market, signal, order, fill.
  While a bar is drained, `LoopInv` has the curve one point behind the bars and
  `eventCount` at most `4 * points + Rank`, which gives `BarsAreSettled`.
- `LedgerBalances` needs `costBasis` to be a natural number, and that needs
  sales to be of held shares, which is the order's cover carried along the
  chain.
- `LongQuantitiesCovered` carries the sizing: whatever the cast makes of the
  quotient, it makes it no larger.

From the invariant follow `TypeCorrect`, `QueueNeverOverflows`,
`OrdersStayCovered`, `LedgerAlwaysBalances`, `LoopSettlesBars`; and from it and one
step the action properties `OverdraftBounded` and `NoValueCreated`, and the
step simulation of `Refinement` (`ImplementsAccount`: a fill maps to `Buy` or
`Sell`, a market event to `Quote`, everything else stutters).
`BeliefHolds` (`HoldsOnlyInPosition`: on positive closes, shares are held between bars only
in a position) adds an invariant of its own, `Belief`: the strategy's flag agrees
with whatever is still in flight. `SignalsHaveEffect` (`SignalsTakeEffect`) adds
`Pursuit`: a signal, order or fill in flight goes the way of the flag, and an order to sell is
of the whole position if it fits (`OnSignalEffect`, `DispatchTakesEffect`; where
`on_signal()` answers nothing, `NothingBought` says which of the cases it is).

**Strategies_proofs.** `Refinement` (`ImplementsSignaller`) needs no invariant:
each of the nine actions ends in `Decide` or `Silent`. `TypeCorrect` rests on
`Shape`, the windows' lengths per strategy. `FlatWhileRangeBuilds` rests on
`OrbInv`: a position means that the cycle's counter is beyond the range.
`ExitsWhenOverbought` assumes that no `rsi` has a period of 1, the case
`rsi_of_one` refutes; its invariant `RsiInv` says that in its position the
strategy has a positive average loss, which with a longer period Wilder's
average never loses again (`WilderKeeps`), so that no bar is skipped there.

`FollowsRules` is `FollowsItsRule`: for every parameter and every sequence of bars of any
length, each of the nine strategies is in its position, and signals, exactly when the
rule over the whole history says so. `SmaIsInBounds` (an `sma` whose fast window
is not the longer one) is what the property itself excludes. The invariant `FollowInv`:

- `Kept`: each member is what the history makes of it. `WindowsKept`,
  `ChannelKept`: a window holds the latest closes, or highs and lows, and a running sum is the
  window's sum (one value in, one out). `OrbKept`: the counter is the bar's place in
  its cycle, and the range is the extrema of the cycle's first bars. `VwapKept`: the
  side of the price is that of the last bar whose window was traded in, however long
  ago. `AveragesKept`, `RsiKept`: the recurrences of the EMA and of Wilder's
  average equal their closed forms (`EmaSteps`, `AverageOfSteps`), for which each
  weight of the sum is multiplied by the same factor at a step.
- *Positions.* The rules are a recursion over the bars (`Held`), and nothing about
  recursion can be cited. The invariant therefore carries that some function tells the
  positions by the rules so far (`HeldBy`), one bar longer at each step, and that any
  such function tells the strategy's own position and last signal. `PullbackKept` is
  there because that rule looks at earlier positions: the flag is set exactly if a dip
  since the last position, in an unbroken uptrend, is in the history.
- *Later bars change no earlier rule* (`EntersStays`, `LeavesStays`): what the n-th bar
  makes of the rules depends on the first n bars only, for each of the nine.

**RunBatch_proofs.** The inductive invariant is `TypeOK`, `WavesInOrder` (what lies
before the wave is collected and ended, what lies beyond it is untouched, a wave
has `hw` configurations at most) and `PhaseInv`, which says for each place in
`run_batch()` what has been seen to: names before the warm-up, the warm-up
before the first launch, and that nothing runs once the call is over.
`WavesBoundRuns` counts the runs of a wave by an interval's cardinality;
`NothingOutlivesTheCall`, `RunsArePrepared` and the step simulation of
`Refinement` (`ImplementsSequential`) follow; which of several failures is
thrown is not specified. An exception leaves the call at any
point of a wave, so that `WavesInOrder` has to hold of half-launched and
half-collected waves too.

The second half of the module is about the sweep page. `PageInv` says of every key in the cache
that its frame is that of each form with this key, and of the saved sweep that
it is the frame of the form that was clicked. It survives every step because forms
with the same key ask for the same runs (`SameKeySameFrame`), which is where a key
without the strategy fails. `SweepsAreShown` (`ShownAsRun`) follows: the parameters of a
run are the label of its cell since the fields of the axes differ
(`LabelsAreParams`), every value of an axis is in some combination, and the values are those
of the range, since Python's rounding of a quotient is off by half a divisor at most
(`RoundIsNear`). `WinnersAreNotDominated` (`WinnerNotDominated`): over the rows of a ticker, which are
finitely many (`CombosAreFinite`, `FiniteSetsHaveExtremes`), each scaled metric has
one denominator and keeps the order (`MinMaxKeepsOrder`), the degenerate scale included,
so that a run that is better in one metric with weight and worse in none
scores more (`DominatingScores`).

**LiveSession_proofs.** The inductive invariant is `EngineInv` of `Cascade_proofs`,
`TypeOK`, `SessionInv` and `ReadersInv`.

- `LockInv`: whoever is inside a body holds the mutex, so that there is one such
  thread at most. It is what lets the lemmas on the single-threaded cascade be
  used here: of two threads only one can be at an event.
- `BarsInv` and `SignalsInv` tie the three series to `bar_count_`, with the
  tick's bar charted or not according to where the holder of the lock is.
- `SharpeInv`: a cache marked valid is that of the present curve.
- `StopInv`: after `stop()`, `barCount` exceeds `barsAtStop` by one at most, and
  not at all while a bar is being drained, which is still to be counted.
- `ReadersInv`: what a reader has copied so far agrees with the session, which
  cannot change while it holds the lock; when it has returned, the copy
  agrees with itself, and is the last state if it shows the session stopped.

Hence `SnapshotsAreConsistent`, `SignalsAreCharted`, `CachedRatioIsCurrent`,
`StoppedIsFinal`, `StopAdmitsOneBar`, for any number of tickers and readers. The engine's
results carry over: `TicksKeepTheBooks`, `OverdraftBounded`, `NoValueCreated`,
`BeliefHolds`, `SignalsHaveEffect` and `Refinement` (`ImplementsAccount`).

**Performance_proofs.** The invariant of `max_drawdown()`'s loop after n points:
`IsMaximum` (the peak is one of the points and none is above it) and
`IsDrawdown` (no fall among the points exceeds `max_dd`, which is one of them
unless nothing fell; on a curve that starts positive it is 1 or more exactly if
a point was not). A pass keeps it since the fall from the peak is the worst
to the new point (`WorstFromThePeak`) and "does not exceed" is transitive over
positive denominators (`AtMostIsTransitive`). `DrawdownIsExact` is
`DrawdownIsWorstFall` for every curve; `LossIsADrawdown` is the part of
`MetricsAgree` about the total return, the fall from the first point to the last.

`MetricsDoAgree` is all of `MetricsAgree`. Its hard part is that a curve which stays
positive and ends with a gain has no negative mean of returns, the inequality of arithmetic and
geometric means in disguise. The proof needs a logarithm and has no reals; `Climb` takes
its place: over the common denominator d of the returns, the sum of `d \div k` over the
whole amounts k below x. From x to y it grows by no more than the return from x to y
(`ReturnClimbs`), whether that is a gain or a loss, so that the returns of a curve sum to no less than
`Climb` of its end minus `Climb` of its start, which telescopes and is not negative.
`RatioHasSign` takes that through the squares and the three cases of a
deviation that is 0. `RatesInv` says that the ratio the caller is told, and the
cached one, is one of the present curve: a cache that outlived a recorded bar would break the
theorem. Trades are counted: if none wins their sum is not positive, and
if all win it is not negative.

**Ingest_proofs.** `TypeCorrect`, `TimestampsHold`, `Refinement`
(`ImplementsFeed`) and `PathsAlwaysAgree` (`PathsAgree`), for every set of
files, every `Base` from 2 and every size of a ticker and of a value. Four pieces:

- *Least elements.* A sum, a power or a number of digits is defined over the
  numbers below it, and no induction theorem with an operator as its parameter can be
  used. `SmallestOf` and `SmallestSet` take its place: a set of
  counterexamples would have a least one. From them come how sums over
  intervals grow and split (`SumFunctionOnSet`), the laws of `Power`, and
  `DigitsSuffice`: a number is the sum of its digits, of which it has `Digits`.
- *Days.* On every day of every year, past or future, `DaysFromCivil` of the next
  day is one more (`CountsDays`; `Tomorrow` knows leap years). The argument
  goes by year from March, as the code does: in such a year the leap day is the
  last. With `CountsFrom1970`, and sums of the lengths of years and months,
  it is the number of days from 1970 counted one by one (`CountsAllDays`), before
  1970 negative. `TimestampsHold` follows.
- *Framing.* `ReadsRecords`: a `.pb` file is the records' frames one after
  the other, as far as it goes; the reader stands at the end of the last record it
  delivered. A varint is its digits' sum (`NextLength`), and a record starts
  where its length ends, so that the next read delivers the next record if the file
  has all of it, and ends if not (`NextRecord`). No byte inside a record is
  taken for a length, whatever its value and wherever the file was cut.
- *Rows.* `ConvertsRows`: the records so far are those of the well-formed rows
  so far, each at the place given by the number of well-formed rows up to it. The
  proof counts: a place belongs to one row only (`KeptCount`). Together
  with `ReadsRecords` it gives `PathsAgree`.

**What the proofs found wrong in the models.** `DaysCounted`, the reference for
`days_from_civil()`, counted no days for years before 1970, so that
`TimestampsAreEpochs` did not hold of every set of files; no file of the run
had such a year. It is signed now, and the run has two such years. `PathsAgree`
filtered the rows into a sequence and compared prefixes; it now names the row each bar
is of, which is the same and can be reasoned about. The rule of
`momentum` multiplied the comparison out as if the oldest close were positive; the code
divides by it, and a negative one turns the sign, a zero one makes an infinity. No
bar of the run closed below zero. The rule says so now, and the run has such a bar.
Sums and products were folds, about which nothing can be proved for sequences of
any length; `Sums` goes along the index.

**Model-checked only.**

- `Terminates` (twice) and `CallsReturn`: liveness is beyond the prover. Every safety
  and action property of the passing runs is a theorem.
- The four claims of comments and documents that TLC refutes (section 7), one of them
  `LeavesWhenOverbought` with a period of 1, are counterexamples and need no proof.

## 6. What is abstracted

- **Money** is integer ticks. The tick is chosen so that slippage is exact; the
  code's doubles are exact here too, but for a sale of part of a position,
  whose cost is rounded down (`SoldCost`). Rounding of doubles is not modelled.
- **One ticker**, since both callers register one, with `target_weight` 1.0, the
  value every strategy sends.
- **Undefined behaviour** is a choice. An out-of-range cast to `uint32_t` keeps
  the low bits (x86-64) or saturates (AArch64). An `sma` whose fast window is
  longer than the slow one reads before its container: the comparison may come
  out any way.
- **Averages** are fractions without rounding, and comparisons are multiplied out.
  `fparam` is in tenths.
- **Ingest**: of six columns date, open and close stand for all; an hour stands
  for seconds; a field is a number, a date or text, and a number is one that both
  programs read alike. What `float()` takes and `from_chars` does not (spaces, a
  leading plus, underscores), or reads in part, is outside `PathsAgree`; the bytes of a record are
  tokens that know which record they belong to, and if read as a length have the
  largest value, so that losing the framing shows. Protobuf parses what it
  serialised.
- **Metrics** are fractions, without the factors 100 and the root of 252; the
  Sharpe ratio is squared with its sign. A denominator of 0 is the infinity or
  the NaN the double would be. Rounding shows in one place: returns that are
  equal may have a deviation of 0 or one of almost 0, a choice.
- **Sweep**: a result is its configuration and the metrics `Engines` gives it; the
  data does not change while the session lasts; an axis of floats is one of
  integers. That Streamlit stops a script whose form was touched, after the
  call in progress, is its behaviour, not this repository's, and marked external.
- **History variables**, read by properties only: `entryFees`, `barsAtStop`,
  `history` (of bars), `records`, `metrics` (what was last asked for), `clicked`.
- The queue is used through `BoundedFifo` and strategies through `Signaller`.
  The refinements of `EventQueue` and `Strategies` are what allows it; both are
  proved.

## 7. Findings

1. `src/portfolio.cpp:42` says that the clamp "prevents negative cash / hidden
   leverage". It is computed without slippage and commission, and the first
   purchase can overdraw the account (`backtest_overdraft`). `OverdraftIsFriction`
   is the bound that holds.
2. `make_strategy()` accepts an `sma` whose fast period is the longer one. Its mean is
   then over memory before the window, which is undefined (`sma_swapped`): a LONG
   after two bars with a fast period of three, of which there is no mean, although
   `README.md:177` has it buy when fast is above slow. This is an error in the
   code; `FollowsItsRule` leaves these periods out, since any outcome is possible.
3. `include/strategy/rsi_strategy.hpp:7` says that an RSI above `overbought` exits.
   With a period of 1 a gaining bar has no average loss and is skipped: the
   position is never left (`rsi_of_one`).
4. `data/csv_to_proto.py:75` skips malformed rows "same as C++ DataHandler", which
   skips none (`ingest_malformed`).

Where a document says one thing and the code another, the models follow the code. No
run refutes the following documents; the property named holds of what the code does instead.

- `README.md:184` describes `vwap` as buying below the VWAP; the code, and its
  header, buy on a cross above it (`vwap_strategy.cpp:36`; `FollowsItsRule`).
- `README.md:179` has `mean_reversion` leave above the upper band; the code leaves at
  the mean (`mean_reversion_strategy.cpp:39`; `FollowsItsRule`).
- `include/strategy/pullback_strategy.hpp:11` has the pullback strategy enter when the
  fast EMA crosses above the slow one; the code enters when the close recrosses
  the fast one (`pullback_strategy.cpp:47`; `FollowsItsRule`).
- `include/backtest_result.hpp:19-21` says that `DataHandler` stores 0 for date strings. It
  parses them into epochs (`data_handler.cpp:132`; `TimestampsAreEpochs`).
- `ui/app.py:59` promises values from start to stop; the last may lie up to half a
  step beyond: from 1 to 4 by 2 gives 1, 3 and 5. `ShownAsRun` allows that, and no more.

Remarks that no run depends on:

- With an `overbought` level below 30, which the factory accepts, the RSI
  strategy can enter with an RSI above it: `LeavesWhenOverbought` says so in its
  precondition.
- A sweep may include 0 or negative values of an axis. `make_strategy()` takes
  them for its default, while the cell keeps the swept value as its label.
- `run_sweep()` is cached by its arguments, which name a ticker and not its file:
  after the file has been downloaded again, the page shows the old data.
- A caller of `tick()` that passes a timestamp only sometimes gets a chart whose
  time goes backwards; `SignalsIndexBars` says what each bar's timestamp is.

## 8. What is not modelled

- **A second ticker**: `add_ticker()` beyond the first, the limit of 64, fills of
  tickers that were never registered, `on_signal()`'s sum over all positions at
  one price. No driver in the repository registers two tickers, so that none of
  it is reachable.
- **`run_backtest()`'s timings**, which only measure.
- **Command line and `run.sh`**: one thread, one call of `run_backtest()`, no state
  that outlives it.
- **Python bindings**: field-by-field exposure. The GIL is released around
  calls that touch no Python object.
- **Download script**, **benchmark helper**: network, wall-clock time.
- **Build files, tests, vendored doctest, generated protobuf code**.

## 9. The plan

In the order in which they were, or will be, written; the engine's money came
first, because all three drivers rest on it.

1. *Done.* `EventQueue` against `BoundedFifo`; then `Trading`, `Cascade` against
   `Account`, `Backtest`; their proofs.
2. *Done.* The drivers: `LiveSession` and `RunBatch` against
   `SequentialBatch`.
3. *Done.* `Strategies` against `Signaller` and `StrategyRules`; `Calendar` and
   `Ingest` against `Feed`; proofs of the first and of the calendar.
4. *Done.* `Performance`, the timestamps of live bars, and `Sweep`.
5. *Done.* Proofs of the drivers and the tracker: `LiveSession_proofs`,
   `RunBatch_proofs`, `Performance_proofs`.
6. *Done.* `Ingest_proofs`: the file formats and the calendar.
7. *Done.* `FollowsItsRule` of all nine strategies, `MetricsAgree`, and the sweep page.
8. Open: a second ticker, should a driver ever register one; the effects of
   rounding on the strategies' running sums, which are exact here.
