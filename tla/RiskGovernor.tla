--------------------------- MODULE RiskGovernor ----------------------------
(***************************************************************************)
(* The life of one RiskGovernor (risk/governor.py) under any sequence of   *)
(* calls its users may make: it is built, possibly loaded with what an     *)
(* earlier process saved, and then told of settled trades, of new days and *)
(* of manual resets in any order.                                          *)
(***************************************************************************)
EXTENDS GovernorOps

CONSTANTS Moves,        \* the profits and losses a trade may settle with
          SavedStates,  \* the snapshots a process may be started from
          MaxEvents,    \* bound: no call is made once the log holds this many
          Balances      \* bound: the balances the model follows

\* A snapshot was taken of a governor whose peak never fell, neither below
\* its balance nor below the balance it was built with.
ASSUME SavedStatesAssumption ==
    /\ Moves \subseteq Int
    /\ MaxEvents \in Nat
    /\ Balances \subseteq Int
    /\ SavedStates \subseteq Snapshots
    /\ \A s \in SavedStates : s.current <= s.peak /\ StartingBalance <= s.peak

VARIABLES gov,      \* the governor
          events,   \* its event log, oldest first
          fresh     \* TRUE until the first call after load_state

vars == <<gov, events, fresh>>

TypeOK == /\ gov \in Governors
          /\ events \in Seq({"DAILY_LIMIT_REACHED", "EMERGENCY_STOP",
                             "CONSECUTIVE_LOSS_LIMIT", "MANUAL_RESET"})
          /\ fresh \in BOOLEAN

Init == gov = NewGovernor /\ events = <<>> /\ fresh = TRUE

-----------------------------------------------------------------------------
\* Restoring happens before the trading loop starts, on a new object.
LoadState == /\ fresh
             /\ fresh' = FALSE
             /\ \E s \in SavedStates : gov' = Loaded(gov, s)
             /\ UNCHANGED events

RecordTradeResult(pl) ==
    /\ Len(events) < MaxEvents /\ gov.current + pl \in Balances
    /\ gov' = AfterResult(gov, pl)
    /\ events' = events \o EventsOf(gov')
    /\ fresh' = FALSE

ManualReset == /\ Len(events) < MaxEvents
               /\ gov' = AfterReset(gov)
               /\ events' = Append(events, "MANUAL_RESET")
               /\ fresh' = FALSE

StartNewDay == /\ gov' = NextDay(gov)
               /\ fresh' = FALSE
               /\ UNCHANGED events

Next == \/ LoadState
        \/ \E pl \in Moves : RecordTradeResult(pl)
        \/ ManualReset
        \/ StartNewDay

Spec == Init /\ [][Next]_vars

-----------------------------------------------------------------------------
(***************************************************************************)
(* Properties.                                                             *)
(***************************************************************************)

\* The peak is an all-time peak: neither the balance nor the day's starting
\* balance ever lies above it, through any mix of trades, new days and
\* restarts, so the drawdown measured from it is never understated.
PeakDominates == /\ gov.current <= gov.peak
                 /\ gov.starting <= gov.peak
                 /\ StartingBalance <= gov.peak

\* A governor is stopped whenever its drawdown is at the limit, unless the
\* last thing logged is a manual reset: no sequence of wins, losses and new
\* days leaves it trading there.  (Before the first event the drawdown is that
\* of a loaded snapshot, which may have been saved after a reset.)
StoppedAtDrawdownLimit ==
    DrawdownAtLimit(gov) /\ ~gov.stopped /\ events # <<>>
        => events[Len(events)] = "MANUAL_RESET"

\* "Risk exposure can only ever be held steady or reduced ... never increased
\* because of losses": a call that records a loss leaves a multiplier that is
\* no larger, in whichever state of the streak, the day and the drawdown.
NeverMoreRiskAfterLoss ==
    [][gov'.losses > gov.losses => RiskMultiplier(gov') <= RiskMultiplier(gov)]_vars

\* An emergency stop is lifted by a manual reset and by nothing else that
\* may happen to a governor in use.
StopOnlyLiftedByReset ==
    [][gov.stopped /\ ~gov'.stopped /\ ~fresh
        => events' = Append(events, "MANUAL_RESET")]_vars

\* Risk is regained in four ways only: the balance rises, a streak of losses
\* ends, a stop is lifted by hand, or a new day begins after a day that had
\* used up its loss allowance.  In particular a new day does not undo what the
\* drawdown or the streak has taken away.
RiskRegainedOnlyBy ==
    [][RiskMultiplier(gov') > RiskMultiplier(gov)
        => \/ gov'.current > gov.current
           \/ gov.losses > 0 /\ gov'.losses = 0
           \/ gov.stopped /\ ~gov'.stopped
           \/ gov'.starting # gov.starting /\ DailyLoss(gov) >= MaxDailyLoss]_vars
=============================================================================
