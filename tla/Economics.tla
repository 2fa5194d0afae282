----------------------------- MODULE Economics -----------------------------
(***************************************************************************)
(* The mathematics of a binary payout (risk/payout_math.py).  A stake of   *)
(* ask pays payout when the contract wins and nothing when it loses; prob  *)
(* is the model's probability of winning, in percent.  An inequality       *)
(* between fractions is cleared of its denominators.                       *)
(***************************************************************************)
EXTENDS Integers

CONSTANTS MinEdgePct,         \* min_probability_edge, in percent
          MinExpectedValue    \* min_expected_value, in units of money

ASSUME EconomicsAssumption == MinEdgePct \in Int /\ MinExpectedValue \in Int

\* break_even_probability raises unless the payout ratio is positive; a free
\* contract is given the ratio zero.
HasBreakEven(ask, payout) == payout > ask /\ ask # 0

\* The expected value of the stake, in hundredths of the unit of money.
ExpectedValue(prob, ask, payout) == prob * payout - 100 * ask

\* model_probability - break_even_probability >= min_probability_edge
ClearsEdge(prob, ask, payout) ==
    prob * payout - 100 * ask >= MinEdgePct * payout

ClearsValue(prob, ask, payout) ==
    ExpectedValue(prob, ask, payout) >= 100 * MinExpectedValue
=============================================================================
