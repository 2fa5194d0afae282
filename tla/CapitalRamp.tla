---------------------------- MODULE CapitalRamp ----------------------------
(***************************************************************************)
(* The capital ramp (risk/capital_ramp.py) behind the control API          *)
(* (api/server.py), over the lifetime trade log (monitoring/trade_log.py)  *)
(* the trading loop appends to.  A handler reads the log and changes the   *)
(* stage without awaiting anything, so each is one step; the stage lives   *)
(* in memory, the log in SQLite.                                           *)
(*                                                                         *)
(* The id of a logged trade is its position in the log.                    *)
(***************************************************************************)
EXTENDS Statistics, Sequences, FiniteSets, FiniteSetsExt

CONSTANTS MinTrades,    \* min_trades_to_advance
          Results,      \* the profits and losses of trades
          MaxTrades,    \* bound: the length of the log
          MaxRestarts   \* bound: how often the process starts again

ASSUME RampAssumption ==
    MinTrades \in Nat /\ Results \subseteq Int /\ MaxTrades \in Nat /\ MaxRestarts \in Nat

VARIABLES log,          \* SQLite: trade_log, the profit of each trade
          rank,         \* the stage, as its place in Stages
          entryId,      \* stage_entry_trade_id
          advances,     \* history: the trades each advance was granted for,
                        \* in this process
          changedAt,    \* history: trades logged when the stage last changed
          restarts      \* history: restarts so far

vars == <<log, rank, entryId, advances, changedAt, restarts>>

Stages == <<"DEMO", "MICRO_LIVE", "SMALL_LIVE", "NORMAL_LIVE">>

Init == /\ log = <<>>
        /\ rank = 1 /\ entryId = 0
        /\ advances = <<>> /\ changedAt = 0 /\ restarts = 0

-----------------------------------------------------------------------------
\* get_latest_trade_id
LatestId == Len(log)

\* Mutant: the trade with which the stage began is counted as well.
SinceInclusive(id) == {i \in DOMAIN log : i >= id}

\* The trades of get_lifetime_stats with a since_id.
Since(id) == {i \in DOMAIN log : i > id}

Wins(ids)     == {i \in ids : log[i] > 0}
TotalPnl(ids) == MapThenSumSet(LAMBDA i : log[i], ids)

\* Judged at the break-even probability of a payout of 9 for a price of 5,
\* the one the handler assumes.
WinsReliably(ids) ==
    Reliable(Cardinality(Wins(ids)), Cardinality(ids), 5, 9, MinTrades)

\* evaluate_advancement_eligibility
Eligible(ids) ==
    /\ rank < Len(Stages)
    /\ Cardinality(ids) >= MinTrades
    /\ TotalPnl(ids) > 0
    /\ WinsReliably(ids)

-----------------------------------------------------------------------------
\* The trading loop logs a settled trade.
TradeLogged(pl) == /\ Len(log) < MaxTrades
                   /\ log' = Append(log, pl)
                   /\ UNCHANGED <<rank, entryId, advances, changedAt, restarts>>

\* POST /control/capital-ramp/advance, when it is not refused.
Advance == /\ Eligible(Since(entryId))
           /\ rank' = rank + 1
           /\ entryId' = LatestId
           /\ advances' = Append(advances, Since(entryId))
           /\ changedAt' = LatestId
           /\ UNCHANGED <<log, restarts>>

\* Mutant: a demotion leaves the trades that led up to it to count again.
DemoteKeepingEntry == /\ rank > 1
                      /\ rank' = rank - 1
                      /\ changedAt' = LatestId
                      /\ UNCHANGED <<log, entryId, advances, restarts>>

\* demote is public and has no caller under src/.
Demote == /\ rank > 1
          /\ rank' = rank - 1
          /\ entryId' = LatestId
          /\ changedAt' = LatestId
          /\ UNCHANGED <<log, advances, restarts>>

\* A new process has a new CapitalRampManager.
Restart == /\ restarts < MaxRestarts
           /\ restarts' = restarts + 1
           /\ rank' = 1 /\ entryId' = 0
           /\ advances' = <<>> /\ changedAt' = 0
           /\ UNCHANGED log

Next == \/ \E pl \in Results : TradeLogged(pl)
        \/ Advance
        \/ Demote
        \/ Restart

Spec == Init /\ [][Next]_vars

-----------------------------------------------------------------------------
(***************************************************************************)
(* Properties.                                                             *)
(***************************************************************************)

\* The stage began at a trade that is in the log.
RampTypeOK == /\ log \in Seq(Int)
              /\ rank \in 1..Len(Stages)
              /\ entryId \in 0..Len(log)

\* "Performance SINCE this stage began": no trade serves as evidence for two
\* advances of one process, however advances and demotions are mixed.
EvidenceUsedOnce ==
    \A i, j \in DOMAIN advances : i # j => advances[i] \cap advances[j] = {}

\* More capital is at stake only after enough trades since the stage last
\* changed: what was lost by a demotion is not regained on the trades that led
\* up to it.
AdvanceNeedsNewTrades ==
    [][rank' > rank => Len(log) - changedAt >= MinTrades]_vars
=============================================================================
