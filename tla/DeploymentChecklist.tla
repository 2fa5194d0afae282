------------------------- MODULE DeploymentChecklist ------------------------
(***************************************************************************)
(* The gate before live trading (analytics/deployment_checklist.py): once  *)
(* the two reports are made, the trades of the first are put to the stress *)
(* tests (backtest/stress_testing.py, backtest/monte_carlo.py), the trade  *)
(* log and the system events are counted, and every item is decided.       *)
(*                                                                         *)
(* A Monte Carlo path draws its trades with replacement, so it may consist *)
(* of the worst trade only, or of the best; how many of the paths drawn    *)
(* are ruined is left open between these two.  Profits under stress are    *)
(* counted in twentieths of the unit of money.                             *)
(***************************************************************************)
EXTENDS Backtest

CONSTANTS Bankroll,             \* starting_bankroll
          DrawdownPct,          \* max_drawdown, in percent of it
          StabilityPct,         \* min_walk_forward_stability, in percent
          StreakLength,         \* the losses appended by a stress test
          MinLifetimeTrades,
          MaxErrors,            \* max_acceptable_errors
          TradeLogs,            \* what get_lifetime_stats may find
          ErrorCounts           \* what get_reliability_stats may find

ASSUME ChecklistAssumption ==
    /\ Bankroll \in Nat \ {0} /\ DrawdownPct \in 1..100 /\ StabilityPct \in 1..100
    /\ StreakLength \in Nat /\ MinLifetimeTrades \in Nat /\ MaxErrors \in Nat
    /\ TradeLogs \subseteq [trades : Nat, pnl : Int, latency : {"none", "low", "high"}]
    /\ ErrorCounts \subseteq Nat

VARIABLE checklist      \* the status of each item, or NotMade

NotMade == <<>>

Statuses == {"PASS", "FAIL", "NOT_AUTOMATED"}

Items == {"sufficient_historical_sample", "positive_expected_value",
          "acceptable_drawdown", "profitable_out_of_sample",
          "walk_forward_validation_passed", "monte_carlo_risk_acceptable",
          "demo_forward_test_passed", "probability_calibration_acceptable",
          "api_reliability_acceptable", "execution_latency_acceptable",
          "risk_limits_configured", "emergency_stop_tested",
          "duplicate_trade_protection_tested", "model_version_locked"}

-----------------------------------------------------------------------------
(* Stress scenarios: what the trades of a back-test are turned into.       *)

Profits(ts) == [i \in DOMAIN ts |-> 20 * ts[i].profit]

\* round(), of a number of tenths: halves go to the even neighbour.
Rounded(tenths) ==
    LET whole == tenths \div 10
        rest  == tenths % 10
    IN  IF rest > 5 \/ (rest = 5 /\ whole % 2 = 1) THEN whole + 1 ELSE whole

\* Mutant: a part of a trade counts as none.
FewerWinsOfWhole(ts, tenths) ==
    LET wins  == WinCount(ts)
        flips == Min({wins, (tenths * Len(ts)) \div 10})
    IN  [i \in DOMAIN ts |-> IF i <= wins - flips THEN 20 * WinProfit ELSE -20 * Stake]

\* Every win earns the same, so which of them are turned into losses does not
\* matter to a resampling.
FewerWins(ts, tenths) ==
    LET wins  == WinCount(ts)
        flips == Min({wins, Rounded(tenths * Len(ts))})
    IN  [i \in DOMAIN ts |-> IF i <= wins - flips THEN 20 * WinProfit ELSE -20 * Stake]

LowerPayout(ts) ==
    [i \in DOMAIN ts |-> IF Won(ts[i]) THEN 16 * ts[i].profit ELSE 20 * ts[i].profit]

Slippage(ts) == [i \in DOMAIN ts |-> 20 * ts[i].profit - Stake]

LosingStreak(ts) == Profits(ts) \o [i \in 1..StreakLength |-> -20 * Stake]

\* Any of the trades may be the ones that are missed.
MissedTrades(ts) ==
    LET keep == Len(ts) - Rounded(2 * Len(ts))
        only(kept) == LET index == SetToSortSeq(kept, <)
                      IN  [i \in DOMAIN index |-> ts[index[i]]]
    IN  {Profits(only(kept)) : kept \in kSubset(keep, DOMAIN ts)}

InRegime(ts, regime) == Profits(SelectSeq(ts, LAMBDA t : t.regime = regime))

\* The scenarios, each with the lists of profits it may come to.
Scenarios(ts) ==
    {{FewerWins(ts, 1)}, {FewerWins(ts, 2)}, {LowerPayout(ts)}, {Slippage(ts)},
     MissedTrades(ts), {LosingStreak(ts)},
     {InRegime(ts, "HIGH_VOLATILITY")}, {InRegime(ts, "LOW_VOLATILITY")}}

-----------------------------------------------------------------------------
(* The Monte Carlo engine.                                                 *)

\* A path is ruined once the bankroll is used up, whatever comes later.
Ruined(path) ==
    FoldLeft(LAMBDA s, profit :
                LET left == s.bankroll + profit
                IN  [bankroll |-> left, ruined |-> s.ruined \/ left <= 0],
             [bankroll |-> 20 * Bankroll, ruined |-> FALSE], path).ruined

\* The path that repeats one of the trades all the way.
Repeating(profit, pnl) == [i \in DOMAIN pnl |-> profit]

CanBeRuined(pnl)  == pnl # <<>> /\ Ruined(Repeating(Min(Range(pnl)), pnl))
CanSurvive(pnl)   == pnl # <<>> /\ ~Ruined(Repeating(Max(Range(pnl)), pnl))

\* all_survived: scenarios without a trade do not count.
SuiteMaySay(survived, ts) ==
    IF survived
    THEN \A scenario \in Scenarios(ts) : \E pnl \in scenario : pnl = <<>> \/ CanSurvive(pnl)
    ELSE \E scenario \in Scenarios(ts) : \E pnl \in scenario : CanBeRuined(pnl)

-----------------------------------------------------------------------------
(* The items.                                                              *)

Passes(holds) == IF holds THEN "PASS" ELSE "FAIL"

Measured(available, holds) == IF available THEN Passes(holds) ELSE "NOT_AUTOMATED"

Earns(ts) == ts # <<>> /\ TotalProfit(ts) > 0

\* One minus the deviation of the average profits of these windows over the
\* size of their mean is the stability asked for, compared by squares.
EvenProfits(windows, traded) ==
    LET scale    == FoldFunction(LAMBDA a, b : a * b, 1, [w \in traded |-> Len(windows[w])])
        value(w) == TotalProfit(windows[w]) * (scale \div Len(windows[w]))
        sum      == MapThenSumSet(value, traded)
        square   == MapThenSumSet(LAMBDA w : value(w) * value(w), traded)
        spread   == Cardinality(traded) * square - sum * sum
        loose    == 100 - StabilityPct
    IN  10000 * spread <= loose * loose * sum * sum

\* stability_score, of the windows that traded: it takes two of them.
Stable(windows) ==
    LET traded == {w \in DOMAIN windows : windows[w] # <<>>}
    IN  Cardinality(traded) >= 2 /\ EvenProfits(windows, traded)

Traded   == real[1].trades
WalkedOn == [w \in 1..Len(real) - 1 |-> real[w + 1].trades]

\* The model report has a candidate only if a model could be fitted.
HasCandidate == Traded # <<>> /\ results # <<>>

\* Examples of the test region, which need an outcome but no warm-up.
HasCalibration == HasCandidate /\ Len(series) - TrainEnd(Len(series)) > Duration

Decide(tradeLog, errors, survived, calibrated) ==
    [sufficient_historical_sample      |-> Passes(Len(Traded) >= MinSample),
     positive_expected_value           |-> Passes(Earns(Traded)),
     acceptable_drawdown               |->
        Passes(100 * MaxDrawdown(Traded) <= DrawdownPct * Bankroll),
     profitable_out_of_sample          |->
        Measured(HasCandidate, HasCandidate /\ Earns(results[1].trades)),
     walk_forward_validation_passed    |-> Passes(Stable(WalkedOn)),
     monte_carlo_risk_acceptable       |-> Measured(Traded # <<>>, survived),
     demo_forward_test_passed          |->
        Passes(tradeLog.trades >= MinLifetimeTrades /\ tradeLog.pnl > 0),
     probability_calibration_acceptable |-> Measured(HasCalibration, calibrated),
     api_reliability_acceptable        |-> Passes(errors <= MaxErrors),
     execution_latency_acceptable      |->
        Measured(tradeLog.latency # "none", tradeLog.latency = "low"),
     risk_limits_configured            |-> "PASS",
     emergency_stop_tested             |-> "PASS",
     duplicate_trade_protection_tested |-> "PASS",
     model_version_locked              |-> "PASS"]

\* Mutant: what could not be measured does not block.
NothingFailed(items) == items # NotMade /\ \A item \in Items : items[item] # "FAIL"

AllPassed(items) == items # NotMade /\ \A item \in Items : items[item] = "PASS"

-----------------------------------------------------------------------------
ChecklistInit == Init /\ checklist = NotMade

\* The settings are those the module is given, with sane risk limits.
MakeChecklist ==
    /\ phase = "done" /\ checklist = NotMade
    /\ \E tradeLog \in TradeLogs, errors \in ErrorCounts, survived, calibrated \in BOOLEAN :
          /\ SuiteMaySay(survived, Traded)
          /\ checklist' = Decide(tradeLog, errors, survived, calibrated)
    /\ UNCHANGED vars

ChecklistNext == MakeChecklist \/ (Next /\ UNCHANGED checklist)

ChecklistSpec == ChecklistInit /\ [][ChecklistNext]_<<vars, checklist>>

-----------------------------------------------------------------------------
(***************************************************************************)
(* Properties.                                                             *)
(***************************************************************************)

ChecklistTypeOK == /\ BacktestTypeOK
                   /\ checklist = NotMade \/ checklist \in [Items -> Statuses]

\* "If any box fails: DO NOT ENABLE LIVE TRADING", and "an honestly unmeasured
\* item still blocks deployment": with every item passed, a model was fitted
\* and earned on candles it was not fitted to, at least two windows were
\* traded, and the starting bankroll outlives the trades of the back-test in
\* the order in which they happened.  "This is a hard gate": an approved model
\* earned money on the held-out candles, more for each stake than any baseline.
VerdictsAreEarned ==
    /\ approved => ApprovedModelEarns
    /\ AllPassed(checklist) =>
         /\ results # <<>> /\ TotalProfit(results[1].trades) > 0
         /\ Cardinality({w \in DOMAIN WalkedOn : WalkedOn[w] # <<>>}) > 1
         /\ ~Ruined(Profits(Traded))

\* The places of a list of profits that reach an amount, and whether every
\* amount is reached by no larger a share of one list than of another.
Reach(pnl, amount) == {i \in DOMAIN pnl : pnl[i] >= amount}

NeverAbove(worse, pnl) ==
    \A amount \in Range(worse) :
        Cardinality(Reach(worse, amount)) * Len(pnl) <= Cardinality(Reach(pnl, amount)) * Len(worse)

\* "The strategy should remain survivable under adverse conditions": when the
\* checklist can be made, the scenarios that leave no trade out make the trades
\* worse throughout, so that what can ruin the account can do so under each of
\* them; and a win rate that is lowered by so many tenths loses so many tenths
\* of the trades as wins, to within half a trade, or all the wins there are.
StressNeverEasier ==
    phase = "done" /\ checklist = NotMade =>
        /\ \A pnl \in {FewerWins(Traded, 1), FewerWins(Traded, 2), LowerPayout(Traded),
                       Slippage(Traded), LosingStreak(Traded)} :
             /\ NeverAbove(pnl, Profits(Traded))
             /\ CanBeRuined(Profits(Traded)) => CanBeRuined(pnl)
        /\ \A tenths \in {1, 2} :
             LET left == Cardinality(Reach(FewerWins(Traded, tenths), 1))
                 lost == WinCount(Traded) - left
             IN  left = 0 \/ 10 * lost - tenths * Len(Traded) \in -5..5
=============================================================================
