------------------------------- MODULE Sweep -------------------------------
(***************************************************************************)
(* The sweep page (ui/app.py), as one browser session sees it.  Streamlit  *)
(* runs the whole script again on every interaction; what survives from    *)
(* one run of it to the next is the form, session_state["sweep"] and the   *)
(* cache of run_sweep().  run_batch() is used as SequentialBatch promises: *)
(* one result per configuration, or an exception.                          *)
(***************************************************************************)
EXTENDS Integers, Sequences, FiniteSetsExt

CONSTANTS
    Strats,     \* STRATS: the one or two config fields each strategy's axes drive
    Forms,      \* what the sidebar may say: strategy, tickers and one range per axis
    Weights,    \* where the sliders may stand: sharpe, dd, win, trade and min_trades
    Engines     \* what run_backtest() may make of the data: the metrics of every configuration

Fields == {"p1", "p2", "fp"}

AxisRange == [start : Int, stop : Int, step : Nat \ {0}]

ASSUME SweepAssumption ==
    /\ \A s \in DOMAIN Strats : Strats[s] \in {<<"p1">>, <<"p1", "p2">>, <<"p1", "fp">>}
    /\ \A f \in Forms :
         /\ f.strategy \in DOMAIN Strats
         /\ IsFiniteSet(f.tickers)
         /\ f.axes \in Seq(AxisRange) /\ Len(f.axes) = Len(Strats[f.strategy])
    /\ Weights \subseteq [sharpe : Nat, dd : Nat, win : Nat, trade : Nat, min_trades : Nat \ {0}]

VARIABLES
    engine,     \* the data as it is
    form,       \* the sidebar
    cache,      \* of run_sweep(): the frames of the arguments it was called with
    sweep,      \* session_state["sweep"]
    page,       \* "info", "warning", "error", "charts", or "spinner" while run_batch() runs
    clicked     \* history: the form of the sweep shown

pageVars == <<engine, form, cache, sweep, page, clicked>>

NoSweep == [axis_fields |-> <<>>]

-----------------------------------------------------------------------------
(* axis_values() *)

\* Python's round() of n / d: a half goes to the even neighbour.
Round(n, d) ==
    LET q == n \div d
        rest == 2 * (n % d)
    IN  IF rest > d \/ (rest = d /\ q % 2 = 1) THEN q + 1 ELSE q

AxisValues(axis) ==
    { axis.start + i * axis.step :
        i \in 0 .. Max({0, Round(axis.stop - axis.start, axis.step)}) }

-----------------------------------------------------------------------------
(* run_sweep() *)

\* The configuration that drives the fields of the axes with the values of combo
\* and leaves the others at their default.
Config(ticker, strategy, fields, combo) ==
    [ticker |-> ticker, strategy_name |-> strategy,
     params |-> [f \in Fields |-> IF \E a \in DOMAIN fields : fields[a] = f
                                    THEN combo[CHOOSE a \in DOMAIN fields : fields[a] = f]
                                    ELSE 0]]

\* The combinations of values the axes of a form run through, and their grid.
Combos(f) ==
    LET fields == Strats[f.strategy]
    IN  { combo \in [DOMAIN fields -> UNION { AxisValues(f.axes[a]) : a \in DOMAIN fields }] :
            \A a \in DOMAIN fields : combo[a] \in AxisValues(f.axes[a]) }

Grid(f) ==
    { Config(ticker, f.strategy, Strats[f.strategy], combo) :
        ticker \in f.tickers, combo \in Combos(f) }

\* The metrics as run_batch() returns them, on scales of integers.
Metrics == [sharpe : Int, max_drawdown : Int, win_rate : Int, trades : Nat]

ASSUME EngineAssumption ==
    \A e \in Engines, f \in Forms : \A c \in Grid(f) : e[c] \in Metrics

\* A row of the data frame echoes ticker and params; it does not name its strategy.
Frame(f) == { [of |-> c, metrics |-> engine[c]] : c \in Grid(f) }

\* The arguments run_sweep() is cached by.  Faulty variant: without the strategy.
KeyWithoutStrategy(f) ==
    <<f.tickers, Strats[f.strategy], [a \in DOMAIN f.axes |-> AxisValues(f.axes[a])]>>
Key(f) ==
    <<f.strategy, f.tickers, Strats[f.strategy], [a \in DOMAIN f.axes |-> AxisValues(f.axes[a])]>>

-----------------------------------------------------------------------------
(* main() *)

PageInit ==
    /\ engine \in Engines
    /\ form \in Forms
    /\ cache = <<>>
    /\ sweep = NoSweep
    /\ page = "info"
    /\ clicked = form

Shown == IF sweep = NoSweep THEN "info" ELSE "charts"

\* Any widget but the button: the script runs with run = False.
Interact ==
    /\ page # "spinner"
    /\ form' \in Forms
    /\ page' = Shown
    /\ UNCHANGED <<engine, cache, sweep, clicked>>

Saves(df) ==
    /\ sweep' = [df |-> df, strategy |-> form.strategy, axis_fields |-> Strats[form.strategy]]
    /\ clicked' = form
    /\ page' = "charts"

ClickRun ==
    /\ page # "spinner"
    /\ IF form.tickers = {} THEN page' = "warning" /\ UNCHANGED <<sweep, clicked>>
       ELSE IF Key(form) \in DOMAIN cache THEN Saves(cache[Key(form)])
       ELSE page' = "spinner" /\ UNCHANGED <<sweep, clicked>>
    /\ UNCHANGED <<engine, form, cache>>

Caches == cache' = [k \in DOMAIN cache \cup {Key(form)} |->
                     IF k = Key(form) THEN Frame(form) ELSE cache[k]]

BatchReturns ==
    /\ page = "spinner"
    /\ Caches
    /\ Saves(Frame(form))
    /\ UNCHANGED <<engine, form>>

BatchThrows ==
    /\ page = "spinner"
    /\ page' = "error"
    /\ UNCHANGED <<engine, form, cache, sweep, clicked>>

\* The user did not wait: run_batch() comes to its end and its frame is cached,
\* but Streamlit starts the script again before the sweep is saved.
Interrupted ==
    /\ page = "spinner"
    /\ Caches
    /\ form' \in Forms
    /\ page' = Shown
    /\ UNCHANGED <<engine, sweep, clicked>>

PageNext == Interact \/ ClickRun \/ BatchReturns \/ BatchThrows \/ Interrupted

PageSpec == PageInit /\ [][PageNext]_pageVars

-----------------------------------------------------------------------------
(* The charts *)

\* The frame's rows for the ticker in focus.
Rows(focus) == { r \in sweep.df : r.of.ticker = focus }

\* _pivot(): the rows that meet in each cell; their mean is what is shown.
Cells(focus) ==
    LET Coordinates(r) ==
          [a \in DOMAIN sweep.axis_fields |-> r.of.params[sweep.axis_fields[a]]]
    IN  [at \in { Coordinates(r) : r \in Rows(focus) } |->
          { r \in Rows(focus) : Coordinates(r) = at }]

\* _minmax(): n over d for a value between the least and the greatest of values.
MinMax(values, v) ==
    IF Max(values) = Min(values) THEN [n |-> 1, d |-> 2]
    ELSE [n |-> v - Min(values), d |-> Max(values) - Min(values)]

\* Faulty variant: the drawdown counts as it stands.
LowDrawdownAsIs(scaled) == scaled
LowDrawdown(scaled) == [n |-> scaled.d - scaled.n, d |-> scaled.d]

\* composite_score() of a row, up to a factor that is the same for all rows.
Composite(rows, w, r) ==
    LET Scaled(field) == MinMax({ q.metrics[field] : q \in rows }, r.metrics[field])
        s == Scaled("sharpe")
        dd == LowDrawdown(Scaled("max_drawdown"))
        win == Scaled("win_rate")
        trade == Min({r.metrics.trades, w.min_trades})
    IN  w.sharpe * s.n * dd.d * win.d * w.min_trades
          + w.dd * dd.n * s.d * win.d * w.min_trades
          + w.win * win.n * s.d * dd.d * w.min_trades
          + w.trade * trade * s.d * dd.d * win.d

\* The cell that is outlined: idxmax() takes the first of the best rows, that
\* is, any of them as far as the page tells.
Winners(focus, w) ==
    { r \in Rows(focus) :
        \A q \in Rows(focus) : Composite(Rows(focus), w, q) <= Composite(Rows(focus), w, r) }

-----------------------------------------------------------------------------
(* Properties *)

\* The values an axis should have: start, and on by step as far as stop.  The
\* last value may miss stop by half a step, on either side.
InRange(axis, v) ==
    /\ v >= axis.start /\ (v - axis.start) % axis.step = 0
    /\ v = axis.start \/ 2 * (v - axis.stop) <= axis.step
Reaches(axis, values) ==
    \E v \in values : axis.stop <= axis.start \/ 2 * (axis.stop - v) <= axis.step

\* Whatever the sidebar says meanwhile, the charts are those of one sweep that
\* was asked for: a cell for every combination of the values its axes run
\* through and no other, and in each cell one run, of the strategy, ticker
\* and parameters it is labelled with, and none of another sweep.
ShownAsRun ==
    page = "charts" =>
      LET fields == Strats[clicked.strategy]
      IN  /\ clicked.tickers = { r.of.ticker : r \in sweep.df }
          /\ \A focus \in clicked.tickers :
               LET At == DOMAIN Cells(focus)
                   Values(a) == { at[a] : at \in At }
               IN  /\ \A at \in At :
                        Cells(focus)[at] =
                          {[of |-> Config(focus, clicked.strategy, fields, at),
                            metrics |-> engine[Config(focus, clicked.strategy, fields, at)]]}
                   /\ At = { at \in [DOMAIN fields -> UNION { Values(a) : a \in DOMAIN fields }] :
                               \A a \in DOMAIN fields : at[a] \in Values(a) }
                   /\ \A a \in DOMAIN fields :
                        /\ \A v \in Values(a) : InRange(clicked.axes[a], v)
                        /\ Reaches(clicked.axes[a], Values(a))

\* No run of the ticker beats the one the page calls the best in every metric
\* that has weight: as good in all of them and better in one (for the number of
\* trades, below the number that counts as adequate).
WinnerNotDominated ==
    page = "charts" =>
      \A focus \in clicked.tickers, w \in Weights :
        w.sharpe + w.dd + w.win + w.trade > 0 =>
          \A best \in Winners(focus, w), r \in Rows(focus) :
            LET b == best.metrics
                m == r.metrics
                Adequate(n) == Min({n, w.min_trades})
            IN  ~ /\ w.sharpe > 0 => m.sharpe >= b.sharpe
                  /\ w.dd > 0 => m.max_drawdown <= b.max_drawdown
                  /\ w.win > 0 => m.win_rate >= b.win_rate
                  /\ w.trade > 0 => Adequate(m.trades) >= Adequate(b.trades)
                  /\ \/ w.sharpe > 0 /\ m.sharpe > b.sharpe
                     \/ w.dd > 0 /\ m.max_drawdown < b.max_drawdown
                     \/ w.win > 0 /\ m.win_rate > b.win_rate
                     \/ w.trade > 0 /\ Adequate(m.trades) > Adequate(b.trades)

=============================================================================
