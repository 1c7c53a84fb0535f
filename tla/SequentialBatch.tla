-------------------------- MODULE SequentialBatch --------------------------
(***************************************************************************)
(* What run_batch() promises its caller: the results of the configurations *)
(* in the order they were given, as if the runs had been made one after    *)
(* the other, or an exception.                                             *)
(***************************************************************************)
EXTENDS Naturals, Sequences

CONSTANT Batches        \* the batches of configurations a caller may pass

VARIABLES
    configs,            \* the batch
    results,            \* the results so far: the indices of the configurations they are of
    outcome             \* "none" until the call is left

vars == <<configs, results, outcome>>

Init ==
    /\ configs \in Batches
    /\ results = <<>>
    /\ outcome = "none"

RunNext ==
    /\ outcome = "none"
    /\ Len(results) < Len(configs)
    /\ results' = Append(results, Len(results) + 1)
    /\ UNCHANGED <<configs, outcome>>

Return ==
    /\ outcome = "none"
    /\ Len(results) = Len(configs)
    /\ outcome' = "returned"
    /\ UNCHANGED <<configs, results>>

Throw ==
    /\ outcome = "none"
    /\ outcome' = "threw"
    /\ UNCHANGED <<configs, results>>

Next == RunNext \/ Return \/ Throw

Spec == Init /\ [][Next]_vars

=============================================================================
