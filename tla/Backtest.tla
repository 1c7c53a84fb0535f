------------------------------ MODULE Backtest ------------------------------
(***************************************************************************)
(* run_backtest(): stream a bar into the queue, drain the cascade it sets  *)
(* off, record the equity, until the data handler has no more.             *)
(***************************************************************************)
EXTENDS Cascade

CONSTANT MaxBars    \* bound: the most bars a data file holds

ASSUME BacktestAssumption == MaxBars \in Nat

VARIABLES
    pc,             \* "stream", "drain" or "done": the head of the outer loop, the inner loop, the result
    barCount,       \* bar_count
    eventCount,     \* event_count
    points,         \* the length of the equity curve
    lastEquity      \* its last point

vars == <<engine, pc, barCount, eventCount, points, lastEquity>>

Init ==
    /\ InitEngine
    /\ pc = "stream"
    /\ barCount = 0
    /\ eventCount = 0
    /\ points = 0
    /\ lastEquity = 0

\* stream_next_event() pushed a bar.
StreamBar ==
    /\ pc = "stream" /\ ~thrown
    /\ barCount < MaxBars
    /\ \E c \in Closes : Enqueue(queue, <<Market(c)>>)
    /\ barCount' = barCount + 1
    /\ pc' = "drain"
    /\ UNCHANGED <<inPosition, latestClose, cash, position, costBasis, realized, entryFees,
                   eventCount, points, lastEquity>>

\* Faulty variant: the loop goes on after the end of the file.
EndOfDataIgnored ==
    /\ pc = "stream" /\ ~thrown
    /\ pc' = "stream"
    /\ UNCHANGED <<engine, barCount, eventCount, points, lastEquity>>

\* It found the end of the file, or a record it cannot read.
EndOfData ==
    /\ pc = "stream" /\ ~thrown
    /\ pc' = "done"
    /\ UNCHANGED <<engine, barCount, eventCount, points, lastEquity>>

DispatchEvent ==
    /\ pc = "drain" /\ ~thrown
    /\ Dispatch
    /\ eventCount' = eventCount + 1
    /\ UNCHANGED <<pc, barCount, points, lastEquity>>

\* Faulty variant: the inner loop is left with events still queued.
RecordEquityEarly ==
    /\ pc = "drain" /\ ~thrown
    /\ points' = points + 1
    /\ lastEquity' = Equity
    /\ pc' = "stream"
    /\ UNCHANGED <<engine, barCount, eventCount>>

RecordEquity ==
    /\ pc = "drain" /\ ~thrown
    /\ queue = <<>>
    /\ points' = points + 1
    /\ lastEquity' = Equity
    /\ pc' = "stream"
    /\ UNCHANGED <<engine, barCount, eventCount>>

Step == StreamBar \/ EndOfData \/ DispatchEvent \/ RecordEquity

\* The result was returned, or the exception has left run_backtest().
Returned == (pc = "done" \/ thrown) /\ UNCHANGED vars

Next == Step \/ Returned

Spec == Init /\ [][Next]_vars

\* The loop runs on one thread that nothing blocks.
FairSpec == Spec /\ WF_vars(Step)

-----------------------------------------------------------------------------
(* Properties *)

TypeOK ==
    /\ EngineTypeOK
    /\ pc \in {"stream", "drain", "done"}
    /\ barCount \in 0 .. MaxBars
    /\ eventCount \in Nat
    /\ points \in Nat
    /\ lastEquity \in Int

\* Between two bars nothing is left of the last one: its events are all
\* handled, at least the bar and at most a bar, a signal, an order and a
\* fill; the curve has one point per bar; and the last point is what the
\* account is worth, the bar's own fills included.
BarsAreSettled ==
    pc # "drain" =>
      /\ queue = <<>>
      /\ points = barCount
      /\ eventCount \in barCount .. 4 * barCount
      /\ barCount > 0 => lastEquity = Equity

\* A file of finitely many bars is run to its end.
Terminates == <>(pc = "done")

=============================================================================
