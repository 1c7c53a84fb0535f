----------------------------- MODULE MCRunBatch -----------------------------
(* Every batch of up to four configurations over a known and an unknown    *)
(* name and both data formats, in waves of one, two, three and four.       *)
EXTENDS RunBatch

CONSTANTS sma, typo

MCName == {sma, typo}
MCKnown == {sma}
MCReported == 0 .. 3
MCBatches ==
    UNION { [1 .. n -> [name : {sma}, use_proto : BOOLEAN]] : n \in 0 .. 4 }
      \cup UNION { [1 .. n -> [name : {sma, typo}, use_proto : {FALSE}]] : n \in 0 .. 3 }

=============================================================================
