---------------------------- MODULE ForwardTest ----------------------------
(***************************************************************************)
(* The forward test: scripts/run_forward_test.py initialises what the bot  *)
(* depends on, trying again until it succeeds, and its trading loop drives *)
(* ForwardTestRunner.run_once, the order manager, the settlement monitor,  *)
(* the session statistics and the daily state saved to SQLite, while the   *)
(* control API starts and stops it and the process crashes.                *)
(*                                                                         *)
(* All of it is one coroutine; `loop' is where it is suspended, or which   *)
(* statement that may raise comes next.  An exception nobody catches ends  *)
(* the loop for good ("fatal") while the process stays up; only a new      *)
(* process trades again.                                                   *)
(***************************************************************************)
EXTENDS OrderManager

CONSTANTS PollInterval,     \* the sleep between two ticks
          MaxPolls,         \* how often an open contract is polled
          FirstBackoff,     \* the wait after the first failed initialisation
          MaxBackoff,       \* and the longest
          MaxTicks,         \* bound: ticks of one process
          MaxCrashes,       \* bound: how often the process dies
          NoRow             \* the row of a day that has none

ASSUME LoopAssumption ==
    /\ PollInterval \in Nat \ {0} /\ MaxPolls \in Nat /\ MaxTicks \in Nat
    /\ MaxCrashes \in Nat /\ DaySpan > 0
    /\ FirstBackoff \in Nat \ {0} /\ MaxBackoff \in Nat /\ FirstBackoff < MaxBackoff
    /\ Signals = (0..MaxTime) \X (1..MaxTicks)

VARIABLES loop,         \* where the coroutine is
          backoff,      \* the wait that the next failed initialisation brings
          running,      \* bot_controller.running
          tickCount,    \* tick_count
          tradeDate,    \* current_trade_date
          session,      \* the SessionStats
          polls,        \* polls made of the open contract
          profit,       \* the profit of the settlement being booked
          candle,       \* SQLite: the time of the latest candle stored
          warm,         \* SQLite: whether 120 candles are stored
          daily,        \* SQLite: daily_state, a row for each date or NoRow
          log,          \* SQLite: trade_log, the profit of each row
          dropped,      \* history: contracts sold without a clear result
          sentStopped,  \* history: orders sent since the bot was stopped
          crashes       \* history: how often the process died

locals   == <<backoff, running, tickCount, tradeDate, session, polls, profit>>
loopVars == <<loop, locals>>
database == <<candle, warm, daily, log>>
history  == <<dropped, sentStopped, crashes>>
vars     == <<omVars, loopVars, database, history>>

StartPlaces == {"schema", "history", "account", "announce", "waiting"}

Places == StartPlaces \cup
          {"down", "restore", "top", "fetch", "evaluate", "attempt", "placed", "polling",
           "log", "finish", "alerts", "sleep", "fatal"}

Sessions == [trades : Nat, wins : Nat, losses : Nat, pnl : Int,
             streak : Nat, longest : Nat]

Rows == [gov : Snapshots, session : Sessions]

ASSUME RowAssumption == NoRow \notin Rows

Date(t) == t \div DaySpan
Dates   == 0..Date(MaxTime)

LoopTypeOK ==
    /\ TypeOK
    /\ loop \in Places
    /\ backoff \in FirstBackoff..MaxBackoff
    /\ running \in BOOLEAN /\ warm \in BOOLEAN
    /\ tickCount \in 0..MaxTicks
    /\ tradeDate \in Dates
    /\ session \in Sessions
    /\ polls \in 0..MaxPolls /\ profit \in Int
    /\ candle \in 0..MaxTime
    /\ daily \in [Dates -> Rows \cup {NoRow}]
    /\ log \in Seq(Int)
    /\ dropped \in Nat /\ sentStopped \in Nat /\ crashes \in 0..MaxCrashes

-----------------------------------------------------------------------------
(* Session statistics (monitoring/session_stats.py).                       *)

NewSession == [trades |-> 0, wins |-> 0, losses |-> 0, pnl |-> 0,
               streak |-> 0, longest |-> 0]

\* record_settlement
WithSettlement(s, won, pl) ==
    LET streak == IF won THEN 0 ELSE s.streak + 1
    IN  [trades  |-> s.trades + 1,
         wins    |-> s.wins + (IF won THEN 1 ELSE 0),
         losses  |-> s.losses + (IF won THEN 0 ELSE 1),
         pnl     |-> s.pnl + pl,
         streak  |-> streak,
         longest |-> Larger(s.longest, streak)]

-----------------------------------------------------------------------------
(* A process begins and ends.                                              *)

\* Everything kept in memory is as the constructors leave it.
FreshMemory ==
    /\ gov' = NewGovernor
    /\ traded' = {} /\ lastTrade' = [s \in Symbols |-> Never]
    /\ tradeTimes' = <<>> /\ held' = {}
    /\ stage' = "idle" /\ att' = NoAttempt
    /\ outcome' = [status |-> "NONE", reason |-> ""]
    /\ trades' = <<>>
    /\ running' = TRUE /\ tickCount' = 0 /\ session' = NewSession
    /\ polls' = 0 /\ profit' = 0 /\ backoff' = FirstBackoff

LoopInit ==
    /\ Init
    /\ loop = "down" /\ running = TRUE /\ tickCount = 0 /\ tradeDate = 0
    /\ session = NewSession /\ polls = 0 /\ profit = 0
    /\ backoff = FirstBackoff
    /\ candle = 0 /\ warm \in BOOLEAN
    /\ daily = [d \in Dates |-> NoRow]
    /\ log = <<>>
    /\ dropped = 0 /\ sentStopped = 0 /\ crashes = 0

\* What the broker has been sent is not recalled.
Crash ==
    /\ loop # "down" /\ crashes < MaxCrashes
    /\ crashes' = crashes + 1
    /\ loop' = "down"
    /\ FreshMemory
    /\ sentStopped' = 0
    /\ UNCHANGED <<now, broker, tradeDate, database, dropped>>

Goes(place) == loop' = place

\* What the coroutine does without touching anything but its place and the
\* number of polls.
Moves(from, to) ==
    /\ loop = from
    /\ Goes(to)
    /\ UNCHANGED <<omVars, backoff, running, tickCount, tradeDate, session,
                   profit, database, history>>

\* What it does by letting time pass.
Waits(from, to, d) ==
    /\ loop = from
    /\ TimePasses(d)
    /\ Goes(to)
    /\ UNCHANGED <<gov, guards, stage, att, outcome, broker, trades, running,
                   tickCount, tradeDate, session, polls, profit, daily, log,
                   history>>

-----------------------------------------------------------------------------
(* initialize_bot_dependencies and the beginning of trading_loop.          *)

BotStarts == Moves("down", "schema") /\ UNCHANGED polls

\* ensure_db_schema
SchemaApplied == Moves("schema", "history") /\ UNCHANGED polls

\* fetch_and_store_candles, of a thousand candles.
HistoryFetched(d) ==
    /\ Waits("history", "account", d)
    /\ candle' \in {candle, now} /\ warm' \in {warm, TRUE}
    /\ UNCHANGED backoff

\* get_demo_ws_url: the accounts are listed and a URL is minted for one.
\* A wait that has grown tells that an earlier try failed.
AccountResolved(d) ==
    /\ Waits("account", IF backoff = FirstBackoff THEN "restore" ELSE "announce", d)
    /\ UNCHANGED <<backoff, candle, warm>>

Announced == Moves("announce", "restore") /\ UNCHANGED polls

\* Any of these raises; the handler writes an alert to SQLite and waits, or
\* the alert itself raises (as it must when it was the tables that could not
\* be created), which nothing catches.
StartFails(d, next) ==
    /\ loop \in StartPlaces \ {"waiting"} /\ next \in {"waiting", "fatal"}
    /\ loop \in {"schema", "announce"} => d = 0
    /\ Waits(loop, next, d)
    /\ UNCHANGED <<backoff, candle, warm>>

StartsAgain ==
    /\ Waits("waiting", "schema", backoff) /\ now' <= MaxTime
    /\ backoff' = Smaller(2 * backoff, MaxBackoff)
    /\ UNCHANGED <<candle, warm>>

\* restore_state_if_present: only today's row is looked for.
Restored(row) ==
    IF row = NoRow THEN UNCHANGED <<gov, session>>
    ELSE gov' = Loaded(gov, row.gov) /\ session' = row.session

Restore ==
    /\ loop = "restore"
    /\ tradeDate' = Date(now)
    /\ Restored(daily[tradeDate'])
    /\ backoff' = FirstBackoff
    /\ Goes("top")
    /\ UNCHANGED <<now, guards, stage, att, outcome, broker, trades, running,
                   tickCount, polls, profit, database, history>>

RestoreRaises == Moves("restore", "fatal") /\ UNCHANGED polls

-----------------------------------------------------------------------------
(* The top of a tick.                                                      *)

PausedTick ==
    /\ loop = "top" /\ ~running /\ tickCount < MaxTicks
    /\ tickCount' = tickCount + 1
    /\ Goes("sleep")
    /\ UNCHANGED <<omVars, backoff, running, tradeDate, session, polls, profit,
                   database, history>>

\* Mutant: the statistics of the day that ended are carried into the new one.
RolloverKeepingSession ==
    IF Date(now) # tradeDate
    THEN gov' = NextDay(gov) /\ tradeDate' = Date(now) /\ UNCHANGED session
    ELSE UNCHANGED <<gov, session, tradeDate>>

\* Daily figures start anew when the date has changed since the last tick
\* that was not paused.
Rollover ==
    IF Date(now) # tradeDate
    THEN gov' = NextDay(gov) /\ session' = NewSession /\ tradeDate' = Date(now)
    ELSE UNCHANGED <<gov, session, tradeDate>>

\* Mutant: a tick begins although the bot is stopped.
BeginTickAnyway ==
    /\ loop = "top" /\ tickCount < MaxTicks
    /\ tickCount' = tickCount + 1
    /\ Rollover
    /\ Goes("fetch")
    /\ UNCHANGED <<now, guards, stage, att, outcome, broker, trades, backoff,
                   running, polls, profit, database, history>>

BeginTick ==
    /\ loop = "top" /\ running /\ tickCount < MaxTicks
    /\ tickCount' = tickCount + 1
    /\ Rollover
    /\ Goes("fetch")
    /\ UNCHANGED <<now, guards, stage, att, outcome, broker, trades, backoff,
                   running, polls, profit, database, history>>

\* New candles may or may not have come.  With too few of them the loop goes
\* back to sleep; otherwise it connects and evaluates the strategy.
FetchDone(d) ==
    /\ candle' \in {candle, now} /\ warm' \in {warm, TRUE}
    /\ Waits("fetch", IF warm' THEN "evaluate" ELSE "sleep", d)
    /\ UNCHANGED backoff

\* Fetching raises, or connecting does after the candles were stored.
FetchRaises(d) ==
    /\ candle' \in {candle, now} /\ warm' \in {warm, TRUE}
    /\ Waits("fetch", "fatal", d)
    /\ UNCHANGED backoff

-----------------------------------------------------------------------------
(* run_once: the attempt.                                                  *)

\* signal_id: the latest candle and the number of the tick.
SignalId == <<candle, tickCount>>

Evaluate ==
    /\ loop = "evaluate"
    /\ \E y \in Symbols, dir \in Candidates, p \in Probabilities :
          AttemptTrade(SignalId, y, dir, p)
    /\ Goes(IF stage' = "proposal" THEN "attempt" ELSE "finish")
    /\ UNCHANGED <<locals, database, history>>

\* An answer ends the await it belongs to; an exception ends the loop.
Await(d) ==
    /\ loop = "attempt"
    /\ \/ \E gain \in Gains : ProposalAnswered(d, gain)
       \/ \E gain \in Gains : ProposalNameless(d, gain)
       \/ ProposalUnpriced(d)
       \/ ProposalRaises(d)
       \/ BuyAnswered(d)
       \/ BuyRaises(d)
    /\ Goes(IF stage' # "idle" THEN "attempt"
            ELSE IF outcome'.status = "TRADE" THEN "placed"
            ELSE IF outcome'.status = "RAISED" THEN "fatal"
            ELSE "finish")
    /\ sentStopped' = IF nextOrder' # nextOrder /\ ~running
                      THEN sentStopped + 1 ELSE sentStopped
    /\ UNCHANGED <<locals, database, dropped, crashes>>

\* on_trade_placed alerts, and an alert is written to SQLite unguarded.
PlacedAlerted == Moves("placed", "polling") /\ polls' = 0
PlacedRaises  == Moves("placed", "fatal") /\ UNCHANGED polls

-----------------------------------------------------------------------------
(* run_once: the settlement.                                               *)

\* What a poll of an open contract leaves alone.
KeepsPolling(d) ==
    /\ loop = "polling"
    /\ TimePasses(d)
    /\ UNCHANGED <<gov, guards, stage, att, outcome, broker, trades, loop,
                   backoff, running, tickCount, tradeDate, session, profit,
                   database, history>>

\* Mutant: the time spent polling is counted from zero again.
PollOpenRestarting(d) ==
    KeepsPolling(d) /\ polls' = IF polls = MaxPolls THEN 0 ELSE polls + 1

\* Mutant: one poll too many.
PollOpenPastTimeout(d) ==
    KeepsPolling(d) /\ polls <= MaxPolls /\ polls' = polls + 1

\* The contract is still open, and is asked about again until the time for
\* it is used up.
PollOpen(d) == KeepsPolling(d) /\ polls < MaxPolls /\ polls' = polls + 1

\* Mutant: a contract that stays open is given up and the loop goes on.
PollTimesOutQuietly == /\ polls = MaxPolls
                       /\ Moves("polling", "finish") /\ UNCHANGED polls

PollTimesOut == /\ polls = MaxPolls
                /\ Moves("polling", "fatal") /\ UNCHANGED polls

PollRaises == Moves("polling", "fatal") /\ UNCHANGED polls

\* The contract is sold: governor and statistics learn of it in one step.  The
\* code takes result and profit from two fields of the answer; the broker is
\* assumed to report a win with the gain of the proposal and a loss with the
\* stake.
PollSold(pl) ==
    /\ loop = "polling"
    /\ RunnerSettles(pl)
    /\ session' = WithSettlement(session, pl > 0, pl)
    /\ profit' = pl
    /\ Goes("log")
    /\ UNCHANGED <<backoff, running, tickCount, tradeDate, polls, database,
                   history>>

\* Sold, but neither won nor lost, or with no profit given: nobody is told.
PollUnclear ==
    /\ loop = "polling"
    /\ Goes("finish")
    /\ att' = NoAttempt /\ outcome' = [status |-> "NONE", reason |-> ""]
    /\ dropped' = dropped + 1
    /\ UNCHANGED <<now, gov, guards, stage, broker, trades, locals, database,
                   sentStopped, crashes>>

\* Mutant: the alert comes first, and its failure costs the row of the log.
LogTradeAfterAlert(next) ==
    /\ loop = "log"
    /\ log' = IF next = "fatal" THEN log ELSE Append(log, profit)
    /\ Goes("finish")
    /\ UNCHANGED <<omVars, locals, candle, warm, daily, history>>

\* on_settlement: the trade is logged, then an alert is sent.
LogTrade(next) ==
    /\ loop = "log"
    /\ log' = Append(log, profit)
    /\ Goes(next)
    /\ UNCHANGED <<omVars, locals, candle, warm, daily, history>>

LogRaises == Moves("log", "fatal") /\ UNCHANGED polls

-----------------------------------------------------------------------------
(* The end of a tick.                                                      *)

Row == [gov |-> SnapshotOf(gov), session |-> session]

\* Mutant: the row is filed under the date at which the tick ends.
SaveUnderToday ==
    /\ loop = "finish"
    /\ daily' = [daily EXCEPT ![Date(now)] = Row]
    /\ Goes("alerts")
    /\ UNCHANGED <<omVars, locals, candle, warm, log, history>>

\* save_daily_state, under the date the tick began with.
SaveDailyState ==
    /\ loop = "finish"
    /\ daily' = [daily EXCEPT ![tradeDate] = Row]
    /\ Goes("alerts")
    /\ UNCHANGED <<omVars, locals, candle, warm, log, history>>

SaveRaises   == Moves("finish", "fatal") /\ UNCHANGED polls
AlertsSent   == Moves("alerts", "sleep") /\ UNCHANGED polls
AlertsRaise  == Moves("alerts", "fatal") /\ UNCHANGED polls

Wake ==
    /\ Waits("sleep", "top", PollInterval) /\ now' <= MaxTime
    /\ UNCHANGED <<backoff, candle, warm>>

-----------------------------------------------------------------------------
(* The control API (control/bot_controller.py), at any time.               *)

SetRunning(on) ==
    /\ loop # "down"
    /\ running' = on
    /\ sentStopped' = IF on THEN 0 ELSE sentStopped
    /\ UNCHANGED <<omVars, loop, backoff, tickCount, tradeDate, session, polls,
                   profit, database, dropped, crashes>>

\* The broker, which goes on while no process runs.
BrokerActs ==
    /\ \E o \in wire : BrokerFills(o) \/ BrokerDrops(o)
    /\ UNCHANGED <<loopVars, database, history>>

-----------------------------------------------------------------------------
\* What takes time.
Timed(d) ==
    \/ HistoryFetched(d) \/ AccountResolved(d)
    \/ \E next \in {"waiting", "fatal"} : StartFails(d, next)
    \/ FetchDone(d) \/ FetchRaises(d)
    \/ Await(d)
    \/ PollOpen(d)

\* The steps of the coroutine between two sleeps.
TickStep ==
    \/ \E d \in Delays : InTime(d) /\ Timed(d)
    \/ SchemaApplied \/ Announced \/ Restore \/ RestoreRaises
    \/ Evaluate
    \/ PlacedAlerted \/ PlacedRaises
    \/ PollTimesOut \/ PollRaises \/ PollUnclear
    \/ /\ loop = "polling"
       /\ \E pl \in {-att.stake, att.gain} : PollSold(pl)
    \/ LogTrade("finish") \/ LogTrade("fatal") \/ LogRaises
    \/ SaveDailyState \/ SaveRaises
    \/ AlertsSent \/ AlertsRaise

LoopNext ==
    \/ BotStarts \/ StartsAgain
    \/ TickStep
    \/ PausedTick \/ BeginTick \/ Wake
    \/ \E on \in BOOLEAN : SetRunning(on)
    \/ Crash
    \/ BrokerActs

LoopSpec == LoopInit /\ [][LoopNext]_vars

\* asyncio resumes a coroutine whose await is over, and every await of a tick
\* is bounded: requests by their timeout, polling by its own.
FairLoopSpec == LoopSpec /\ WF_vars(TickStep)
-----------------------------------------------------------------------------
(***************************************************************************)
(* Properties.                                                             *)
(***************************************************************************)

InTick == loop \in {"fetch", "evaluate", "attempt", "placed", "polling"}

\* "RiskGovernor and SessionStats are saved ... after every tick": whenever
\* the loop is not between booking a trade and saving it, a row that exists
\* for the date the loop works under is exactly what the loop has in memory,
\* across midnights, pauses, warm-up ticks and restarts.
SavedRowIsCurrent ==
    loop \in {"top", "sleep", "alerts"} \/ InTick
        => daily[tradeDate] \in {NoRow, Row}

\* What was saved of trades is in the trade log, and a trade that was logged
\* is missing from the saved rows only if the process that booked it died or
\* stopped before it saved: one trade at most for each process.
SavedTrades == MapThenSumSet(LAMBDA d : daily[d].session.trades,
                             {d \in Dates : daily[d] # NoRow})

LogAgreesWithRows ==
    /\ SavedTrades <= Len(log)
    /\ Len(log) <= SavedTrades + crashes
                     + (IF loop \in {"finish", "fatal"} THEN 1 ELSE 0)

\* As long as the process lives, the loop does not come back for another
\* trade before every contract it opened is logged, unless the broker never
\* said how the contract ended: nothing it has bought is left behind open.
NothingLeftOpen ==
    crashes = 0 /\ loop \in {"top", "sleep", "fetch", "evaluate"}
        => wire = {} /\ Cardinality(filled) = Len(log) + dropped

\* Within one process the loss the governor holds against its daily limit is
\* the loss of the day in the statistics: both start anew at the same tick
\* and learn of every settlement together.
DailyLossIsTodaysLoss == gov.current - gov.starting = session.pnl

\* A day loses less than its limit and one stake.
TodaysLossBounded == -session.pnl < MaxDailyLoss + MaxStake

\* A governor at any of its limits sends no order: not at the limit exactly
\* either, and not in a later tick.
HaltedSendsNothing ==
    [][(\/ gov.stopped
        \/ gov.losses >= MaxConsecutiveLosses
        \/ DailyLoss(gov) >= MaxDailyLoss) => nextOrder' = nextOrder]_vars

\* A halt for consecutive losses lasts as long as the process: no trade can
\* end the streak any more, and a new day does not.
LossHaltIsFinal ==
    [][gov.losses >= MaxConsecutiveLosses /\ loop' # "down"
        => gov'.losses >= MaxConsecutiveLosses]_vars

\* Every try to initialise and every tick that begins comes to its end: the
\* bot is ready or waits, the loop sleeps, or it has failed or died; no answer
\* that fails to come and no contract that stays open suspends it forever.
TickEnds == loop \in {"schema", "fetch"}
                ~> loop \in {"top", "waiting", "sleep", "fatal", "down"}

\* A stop lets at most one more order out, that of the tick it came in: the
\* flag is read at the top of a tick only, but every tick reads it, also the
\* first one after an initialisation during which the stop came.
StopLetsOneOut == sentStopped <= 1


\* "One open position = +-1 to each of its two currencies" (risk/exposure.py):
\* what an attempt is refused for is a position that is open.
RefusedForOpenPositions ==
    crashes = 0 /\ outcome.reason = "CORRELATED_EXPOSURE"
        => Cardinality(filled) > Len(log) + dropped
=============================================================================
