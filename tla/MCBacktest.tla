----------------------------- MODULE MCBacktest -----------------------------
(* Prices of a few units, a slippage of 1/20, commissions that matter, and a *)
(* uint32_t of eight values, so that a bar can buy more than fits.           *)
EXTENDS Backtest

MCCloses == 0 .. 3
MCPositiveCloses == 1 .. 3

=============================================================================
