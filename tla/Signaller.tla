----------------------------- MODULE Signaller -----------------------------
(***************************************************************************)
(* What the engine may expect of a strategy, whatever it computes: in a    *)
(* bar one signal at most, LONG when it is out of its position and EXIT    *)
(* when it is in it, the position following the signal.  Cascade runs the  *)
(* engine on this (Reactions, InPositionAfter).                            *)
(***************************************************************************)

VARIABLES
    inPosition,
    signals         \* what the latest bar made the strategy push

vars == <<inPosition, signals>>

Init ==
    /\ inPosition = FALSE
    /\ signals = <<>>

Keep ==
    /\ signals' = <<>>
    /\ UNCHANGED inPosition

Enter ==
    /\ ~inPosition
    /\ signals' = <<"LONG">>
    /\ inPosition' = TRUE

Leave ==
    /\ inPosition
    /\ signals' = <<"EXIT">>
    /\ inPosition' = FALSE

Next == Keep \/ Enter \/ Leave

Spec == Init /\ [][Next]_vars

=============================================================================
