---------------------------- MODULE MCEventQueue ----------------------------
(* A queue of three slots and three distinguishable events: every fill     *)
(* level at every rotation of the ring.                                    *)
EXTENDS EventQueue

CONSTANTS e1, e2, e3

MCEvent == {e1, e2, e3}

=============================================================================
