---------------------------- MODULE Statistics -----------------------------
(***************************************************************************)
(* Significance of a win rate (backtest/statistics.py).  With a            *)
(* break-even probability of ask / payout, the z score of w wins in n      *)
(* trades is (w * payout - n * ask) / sqrt(n * ask * (payout - ask)); the  *)
(* one-sided test at level alpha compares it with a quantile of the normal *)
(* distribution, here by their squares.                                    *)
(***************************************************************************)
EXTENDS Integers

CONSTANT CriticalPermille   \* square of the quantile, in thousandths

ASSUME StatisticsAssumption == CriticalPermille \in Nat

\* z_test_vs_break_even: p < alpha.  No trades have p = 1.
Significant(w, n, ask, payout) ==
    LET d == w * payout - n * ask
    IN  n > 0 /\ d > 0 /\ d * d * 1000 > CriticalPermille * n * ask * (payout - ask)

\* evaluate_significance(...).is_reliable
Reliable(w, n, ask, payout, minSample) ==
    Significant(w, n, ask, payout) /\ n >= minSample
=============================================================================
