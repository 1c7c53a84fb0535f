--------------------------- MODULE MCPerformance ---------------------------
(* Every curve of up to five points from insolvent to tripled, and up to   *)
(* two trades that win, lose or break even.                                *)
EXTENDS Performance

MCEquities == -1 .. 3
MCPnls == {-1, 0, 2}

=============================================================================
