------------------------------ MODULE MCIngest ------------------------------
(* Headers in and out of order, with a column missing, twice, or under two *)
(* names; rows of every kind of defect; and single rows dated around the   *)
(* ends of the months of common, leap and secular years.                   *)
EXTENDS Ingest

NoCivil == [month |-> 0, day |-> 0, hour |-> 0, offset |-> 0]
Number(n) == [sort |-> "number", n |-> n, civil |-> NoCivil]
Text == [sort |-> "text", n |-> 0, civil |-> NoCivil]
Instant(y, m, d, h, o) ==
    [sort |-> "instant", n |-> y, civil |-> [month |-> m, day |-> d, hour |-> h, offset |-> o]]

Headers ==
    { <<"date", "open", "close">>, <<"open", "close", "timestamp">>,
      <<"other", "adj_close", "date", "open">>,
      <<"date", "open", "close", "adj_close">>, <<"close", "date", "open", "close">>,
      <<"date", "open">>, <<"date", "close">>, <<"other", "other", "other">> }

Rows ==
    { <<>>, <<Number(7), Number(2)>>, <<Number(7), Number(2), Number(3)>>,
      <<Number(7), Text, Number(3)>>, <<Instant(2000, 2, 29, 9, -5), Number(2), Number(0)>>,
      <<Number(2), Number(0), Instant(1970, 1, 1, 0, 2)>>,
      <<Text, Number(3), Number(7), Number(2)>> }

Files2 == [header : Headers, rows : UNION { [1 .. n -> Rows] : n \in 0 .. 2 }]

Dates ==
    { date \in {1968, 1969, 1970, 1972, 1999, 2000, 2023, 2024, 2100, 2400} \X (1 .. 12) \X {1, 28, 29, 30, 31} :
        IsDate(date[1], date[2], date[3]) }

Dailies ==
    { [header |-> <<"date", "open", "close">>,
       rows |-> <<<<Instant(date[1], date[2], date[3], 16, -5), Number(2), Number(3)>>>>] :
      date \in Dates }

MCFiles == Files2 \cup Dailies

\* A file of one malformed row under a header both programs understand.
MCMalformed ==
    [header : {<<"date", "open", "close">>},
     rows : [1 .. 2 -> {<<Number(7), Number(2), Number(3)>>, <<Number(7), Text, Number(3)>>}]]

=============================================================================
