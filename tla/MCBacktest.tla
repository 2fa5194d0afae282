---------------------------- MODULE MCBacktest -----------------------------
(* Two prices, so that the price rises, falls and stays; a strategy that    *)
(* follows the trend, one that follows the last move and sees no edge in    *)
(* falling prices, and a model that expects a move to be reversed and, when *)
(* there is none, what the majority of its labels say.                      *)
EXTENDS DeploymentChecklist

Says(direction, prob) == [direction |-> direction, prob |-> prob]

Sum(prices) == FoldLeft(LAMBDA a, price : a + price, 0, prices)

\* How far the average of the last two candles is above that of all of them.
Separation(seen) == Len(seen) * Sum(SubSeq(seen, Len(seen) - 1, Len(seen))) - 2 * Sum(seen)

MCSignal(strategy, fitted, seen) ==
    LET n == Len(seen)
    IN  IF n < 2 THEN Says("NO_TRADE", 50)
        ELSE IF strategy = "model"
             THEN IF \/ seen[n] < seen[n - 1]
                     \/ /\ seen[n] = seen[n - 1]
                        /\ 2 * Len(SelectSeq(fitted, LAMBDA l : l)) >= Len(fitted)
                  THEN Says("CALL", 60) ELSE Says("PUT", 60)
        ELSE IF strategy = "simple_momentum"
             THEN IF seen[n] > seen[n - 1] THEN Says("CALL", 60)
                  ELSE IF seen[n] < seen[n - 1] THEN Says("PUT", 50)
                  ELSE Says("NO_TRADE", 50)
        ELSE IF Separation(seen) > 0 THEN Says("CALL", 60)
             ELSE IF Separation(seen) < 0 THEN Says("PUT", 70)
             ELSE Says("NO_TRADE", 50)

\* A rising market is the volatile one.
MCRegimeOf(seen) ==
    IF Len(seen) > 1 /\ seen[Len(seen)] > seen[Len(seen) - 1]
    THEN "HIGH_VOLATILITY" ELSE "LOW_VOLATILITY"

MCTradeLogs == {[trades |-> 0, pnl |-> 0, latency |-> "none"],
                [trades |-> 3, pnl |-> 2, latency |-> "low"]}

MCBaselines == <<"simple_momentum", "simple_trend">>
=============================================================================
