---------------------------- MODULE GovernorOps ----------------------------
(***************************************************************************)
(* The arithmetic of the risk governor (risk/governor.py): a governor is a *)
(* record, and each method of the class an operator on such records, so    *)
(* that the modules in which a governor is shared state can use them in    *)
(* their actions.                                                          *)
(*                                                                         *)
(* Money is an integer number of some unit.  A fraction of the code is a   *)
(* ratio of integers here and is compared by cross-multiplication, and a   *)
(* risk multiplier is a number of quarters.                                *)
(***************************************************************************)
EXTENDS Integers, Sequences

CONSTANTS StartingBalance,      \* what a new governor believes it owns
          MaxDailyLoss,
          MaxDrawdownPct,       \* max_drawdown, in percent of the peak
          WarningPct,           \* drawdown_warning_threshold, in percent
          MaxConsecutiveLosses

ASSUME GovernorAssumption ==
    /\ StartingBalance \in Nat \ {0}
    /\ MaxDailyLoss \in Nat
    /\ MaxDrawdownPct \in Nat
    /\ WarningPct \in Nat
    /\ MaxConsecutiveLosses \in Nat

Governors == [starting : Int, peak : Int, current : Int,
              losses : Nat, stopped : BOOLEAN]

\* What monitoring/state_persistence.py saves of a governor.
Snapshots == [current : Int, peak : Int, losses : Nat, stopped : BOOLEAN]

Larger(a, b)  == IF a >= b THEN a ELSE b
Smaller(a, b) == IF a <= b THEN a ELSE b

NewGovernor == [starting |-> StartingBalance, peak |-> StartingBalance,
                current |-> StartingBalance, losses |-> 0, stopped |-> FALSE]

-----------------------------------------------------------------------------
DailyLoss(g) == Larger(0, g.starting - g.current)

\* drawdown_fraction >= num / den.  A peak of zero or less counts as no
\* drawdown at all, whatever the balance.
DrawdownReaches(g, num, den) ==
    LET drop == IF g.peak <= 0 THEN 0 ELSE Larger(0, g.peak - g.current)
    IN  drop * den >= num * Larger(1, g.peak)

DrawdownAtLimit(g)   == DrawdownReaches(g, MaxDrawdownPct, 100)
DrawdownAtWarning(g) == DrawdownReaches(g, MaxDrawdownPct * WarningPct, 10000)

-----------------------------------------------------------------------------
\* Mutant: a short streak is tested before the warning.
ReducedFirstState(g) ==
    IF g.stopped THEN "EMERGENCY_STOP"
    ELSE IF \/ DailyLoss(g) >= MaxDailyLoss
            \/ g.losses >= MaxConsecutiveLosses THEN "MAJOR_ANOMALY"
    ELSE IF g.losses >= Larger(1, MaxConsecutiveLosses \div 2)
         THEN "REDUCED_CONFIDENCE"
    ELSE IF DrawdownAtWarning(g) THEN "DRAWDOWN_WARNING"
    ELSE "NORMAL"

\* Mutant: the loss of the day is not looked at.
StateIgnoringDay(g) ==
    IF g.stopped THEN "EMERGENCY_STOP"
    ELSE IF g.losses >= MaxConsecutiveLosses THEN "MAJOR_ANOMALY"
    ELSE IF DrawdownAtWarning(g) THEN "DRAWDOWN_WARNING"
    ELSE IF g.losses >= Larger(1, MaxConsecutiveLosses \div 2)
         THEN "REDUCED_CONFIDENCE"
    ELSE "NORMAL"

\* The conditions are tested in the order of the code: the first that holds
\* names the state.
RiskState(g) ==
    IF g.stopped THEN "EMERGENCY_STOP"
    ELSE IF \/ DailyLoss(g) >= MaxDailyLoss
            \/ g.losses >= MaxConsecutiveLosses THEN "MAJOR_ANOMALY"
    ELSE IF DrawdownAtWarning(g) THEN "DRAWDOWN_WARNING"
    ELSE IF g.losses >= Larger(1, MaxConsecutiveLosses \div 2)
         THEN "REDUCED_CONFIDENCE"
    ELSE "NORMAL"

Quarters == [NORMAL |-> 4, REDUCED_CONFIDENCE |-> 2, DRAWDOWN_WARNING |-> 1,
             MAJOR_ANOMALY |-> 0, EMERGENCY_STOP |-> 0]

RiskMultiplier(g) == Quarters[RiskState(g)]

CanTrade(g) == RiskMultiplier(g) > 0

-----------------------------------------------------------------------------
\* The balance, the peak and the streak after a trade that made pl.
Booked(g, pl) ==
    [starting |-> g.starting,
     peak     |-> Larger(g.peak, g.current + pl),
     current  |-> g.current + pl,
     losses   |-> IF pl < 0 THEN g.losses + 1 ELSE 0,
     stopped  |-> g.stopped]

\* Mutant: the peak follows the balance down as well as up.
AfterResultForgettingPeak(g, pl) ==
    LET h == [Booked(g, pl) EXCEPT !.peak = g.current + pl]
    IN  [h EXCEPT !.stopped = h.stopped \/ DrawdownAtLimit(h)]

\* Mutant: the drawdown looked at is the one before the trade.
AfterResultStaleCheck(g, pl) ==
    [Booked(g, pl) EXCEPT !.stopped = g.stopped \/ DrawdownAtLimit(g)]

\* record_trade_result
AfterResult(g, pl) ==
    LET h == Booked(g, pl)
    IN  [h EXCEPT !.stopped = h.stopped \/ DrawdownAtLimit(h)]

\* The events record_trade_result logs, given the governor it leaves.
EventsOf(h) ==
       (IF DailyLoss(h) >= MaxDailyLoss THEN <<"DAILY_LIMIT_REACHED">> ELSE <<>>)
    \o (IF DrawdownAtLimit(h) THEN <<"EMERGENCY_STOP">> ELSE <<>>)
    \o (IF h.losses >= MaxConsecutiveLosses THEN <<"CONSECUTIVE_LOSS_LIMIT">>
        ELSE <<>>)

\* manual_reset: the streak of losses and the peak are left as they are.
AfterReset(g) == [g EXCEPT !.stopped = FALSE]

\* Mutant: a new day also forgets how far the balance is below its peak.
NextDayForgettingPeak(g) == [g EXCEPT !.starting = g.current, !.peak = g.current]

\* Mutant: a new day lifts every halt.
NextDayLiftingHalts(g) ==
    [g EXCEPT !.starting = g.current, !.stopped = FALSE,
              !.losses = IF @ >= MaxConsecutiveLosses THEN 0 ELSE @]

\* start_new_day
NextDay(g) == [g EXCEPT !.starting = g.current]

SnapshotOf(g) == [current |-> g.current, peak |-> g.peak,
                  losses |-> g.losses, stopped |-> g.stopped]

\* load_state: everything but the day's starting balance.
Loaded(g, s) ==
    [starting |-> g.starting, peak |-> s.peak, current |-> s.current,
     losses |-> s.losses, stopped |-> s.stopped]
=============================================================================
