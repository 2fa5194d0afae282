-------------------------- MODULE GovernorAlerts ---------------------------
(***************************************************************************)
(* How the trading loop turns what happens to the governor into alerts     *)
(* (scripts/run_forward_test.py): after each tick the events logged since  *)
(* the last one are forwarded, and then the step into the emergency stop   *)
(* is reported.  Sending an alert writes to SQLite, outside any try; when  *)
(* that raises, the loop is over.                                          *)
(*                                                                         *)
(* manual_reset is public and has no caller under src/: it may be called   *)
(* whenever the loop is suspended.                                         *)
(***************************************************************************)
EXTENDS RiskGovernor, SequencesExt

VARIABLES phase,        \* "start", "tick", "forward" or "fatal"
          seen,         \* last_alerted_event_count
          wasStopped,   \* was_emergency_stopped
          alerts        \* the alerts sent: <<type, who raised it>>

alertVars == <<vars, phase, seen, wasStopped, alerts>>

AlertInit == /\ Init
             /\ phase = "start"
             /\ seen = 0 /\ wasStopped = FALSE
             /\ alerts = <<>>

\* The state of today, if there is one, is restored before the loop starts.
Restore == /\ phase = "start"
           /\ LoadState
           /\ UNCHANGED <<phase, seen, wasStopped, alerts>>

StartLoop == /\ phase = "start"
             /\ phase' = "tick"
             /\ seen' = Len(events)
             /\ wasStopped' = gov.stopped
             /\ UNCHANGED <<vars, alerts>>

\* A tick with a trade, which only a governor that permits it can have.
TickTrades == /\ phase = "tick" /\ CanTrade(gov)
              /\ \E pl \in Moves : RecordTradeResult(pl)
              /\ phase' = "forward"
              /\ UNCHANGED <<seen, wasStopped, alerts>>

TickIdles == /\ phase = "tick"
             /\ phase' = "forward"
             /\ UNCHANGED <<vars, seen, wasStopped, alerts>>

\* A person resets the governor.
OperatorResets == /\ phase \in {"tick", "forward"}
                  /\ ManualReset
                  /\ UNCHANGED <<phase, seen, wasStopped, alerts>>

NewDayTick == /\ phase = "tick"
              /\ StartNewDay
              /\ UNCHANGED <<phase, seen, wasStopped, alerts>>

-----------------------------------------------------------------------------
\* The events with an alert: a manual reset has none of its own.
Alerted == {"DAILY_LIMIT_REACHED", "DRAWDOWN_LIMIT_REACHED", "CONSECUTIVE_LOSS_LIMIT",
            "EMERGENCY_STOP"}

\* The elements of a list that are in S, taken one after the other.
Those(S, list) ==
    FoldLeft(LAMBDA kept, x : IF x \in S THEN Append(kept, x) ELSE kept, <<>>, list)

AlertsOf(new) == LET due == Those(Alerted, new)
                 IN  [i \in DOMAIN due |-> <<due[i], "event">>]

\* The alerts due after a tick: one for each new event, and one more when the
\* governor has just stopped.
Due == AlertsOf(SubSeq(events, seen + 1, Len(events)))
       \o (IF gov.stopped /\ ~wasStopped
           THEN <<<<"EMERGENCY_STOP", "transition">>>> ELSE <<>>)

\* Mutant: what was alerted is remembered one event short.
ForwardAlertsShort ==
    /\ phase = "forward"
    /\ alerts' = alerts \o Due
    /\ seen' = IF Len(events) > seen THEN Len(events) - 1 ELSE seen
    /\ wasStopped' = gov.stopped
    /\ phase' = "tick"
    /\ UNCHANGED vars

ForwardAlerts ==
    /\ phase = "forward"
    /\ alerts' = alerts \o Due
    /\ seen' = Len(events)
    /\ wasStopped' = gov.stopped
    /\ phase' = "tick"
    /\ UNCHANGED vars

\* The alerts before the one whose row cannot be written are sent; that one
\* reached its sinks too, since they are served first.
ForwardRaises ==
    /\ phase = "forward"
    /\ \E k \in DOMAIN Due : alerts' = alerts \o SubSeq(Due, 1, k)
    /\ phase' = "fatal"
    /\ UNCHANGED <<vars, seen, wasStopped>>

AlertNext == \/ Restore \/ StartLoop
             \/ TickTrades \/ TickIdles \/ NewDayTick \/ OperatorResets
             \/ ForwardAlerts \/ ForwardRaises

AlertSpec == AlertInit /\ [][AlertNext]_alertVars

-----------------------------------------------------------------------------
(***************************************************************************)
(* Properties.                                                             *)
(***************************************************************************)

\* "Without re-alerting on ones already seen": between two ticks the events
\* forwarded are the events logged, each once and in their order, whatever
\* resets fall between them.
EveryEventAlertedOnce ==
    phase = "tick" => Those(Alerted \X {"event"}, alerts) = AlertsOf(events)
=============================================================================
