--------------------------- MODULE MCLiveSession ---------------------------
(* Two threads feed bars, one reads states, and stop() comes at any time.  *)
EXTENDS LiveSession

CONSTANTS t1, t2, r1

MCTicker == {t1, t2}
MCReader == {r1}
MCCloses == 1 .. 2
MCStamps == {0, 9}

=============================================================================
