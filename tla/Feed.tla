-------------------------------- MODULE Feed --------------------------------
(***************************************************************************)
(* What a run expects of its data: the bars of the source one by one, in   *)
(* order, none left out and none made up, and the end once all are out.    *)
(***************************************************************************)
EXTENDS Naturals, Sequences

VARIABLES
    source,
    delivered,
    ended

vars == <<source, delivered, ended>>

Init ==
    /\ delivered = <<>>
    /\ ended = FALSE

\* The source is made before anything is read of it.
Supply ==
    /\ delivered = <<>> /\ ~ended
    /\ UNCHANGED <<delivered, ended>>

Deliver ==
    /\ ~ended /\ Len(delivered) < Len(source)
    /\ delivered' = Append(delivered, source[Len(delivered) + 1])
    /\ UNCHANGED <<source, ended>>

End ==
    /\ Len(delivered) = Len(source)
    /\ ended' = TRUE
    /\ UNCHANGED <<source, delivered>>

Next == Supply \/ Deliver \/ End

Spec == Init /\ [][Next]_vars

=============================================================================
