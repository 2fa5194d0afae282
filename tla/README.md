# Verification of the forward-test trading bot

This directory holds TLA+ models of the trading bot in this repository, the TLC
configurations that check them on small instances, and TLAPS proofs of what
matters most for every instance.  Paths of source files are relative to the
root of the repository.

    tlc -config MCOrderManagerDelivery.cfg MCOrderManager.tla     # check a model
    tlapm OrderManagerProofs.tla                                  # check the proofs

## 1. The system

The bot is one asyncio process.  `scripts/run_forward_test.py` starts an HTTP
server and, beside it, `bot_main_loop`, which initialises the dependencies
(retrying until it succeeds) and then runs `trading_loop` forever.  Every tick of
that loop fetches candles into SQLite, evaluates a strategy on them, lets the
order manager attempt a trade on a demo account, polls the contract until it is
settled, books the result, saves the day's state, sends alerts and sleeps.  Any
exception that leaves the loop ends trading until somebody restarts the process,
while the HTTP server keeps answering.

| Component | Source | State | Operations | Interacts with |
|---|---|---|---|---|
| Risk governor | `risk/governor.py` | balance, peak, day's starting balance, loss streak, stop flag, event log | record a result, manual reset, load, start a day | asked by the order manager, told by the runner, read by the loop's alerting |
| Trade gates | `risk/overtrading.py`, `risk/exposure.py`, `risk/stake_sizing.py`, `risk/payout_math.py` | last trade per symbol, times of trades, marked signals, open positions | is satisfied / within limits / would exceed, record, mark, open, close | asked and told by the order manager |
| Order manager | `execution/order_manager.py` | none of its own; locals across two awaits | `attempt_trade` | gates, governor, broker |
| Settlement monitor | `execution/contract_monitor.py` | polls made | poll until sold or timed out | broker |
| Runner and loop | `orchestration/forward_test_runner.py`, `scripts/run_forward_test.py` | tick count, trade date, events already alerted | tick, rollover, save, alert, initialise and retry | everything |
| Session statistics, daily state | `monitoring/session_stats.py`, `monitoring/state_persistence.py` | counters of the day; one SQLite row per date | record, reset, save, load, restore | governor, loop |
| Trade log | `monitoring/trade_log.py` | SQLite rows, never reset | append, statistics since an id | runner, capital ramp, checklist |
| Bot controller, HTTP API | `control/bot_controller.py`, `api/server.py` | running flag, active strategy | start, stop, select, reports | loop, database |
| Capital ramp | `risk/capital_ramp.py` | stage, trade id at which it began | eligibility, advance, demote | trade log, API |
| Alerts | `alerts/notifier.py`, `monitoring/system_events_log.py` | SQLite rows | notify sinks, persist, count errors | loop, checklist |
| WebSocket clients | `markets/ws_client.py`, `execution/auth_client.py` | connection, request counter | request and match its answer, stream | broker, everybody who asks it |
| Market discovery | `markets/discovery.py` | `markets` table | discover, upsert | WebSocket client |
| Trade advisor | `analytics/trade_advisor.py` | none | ask a price for each duration, pick the best | WebSocket client |
| Candle store | `data/historical_store.py` | `candles` table | fetch what is missing, insert or ignore | WebSocket client, loop, reports |
| Tick quality, ingestion, aggregation | `data/quality.py`, `data/tick_ingestion.py`, `data/candles.py` | last good epoch and time of a symbol | score, store, aggregate | nobody under the forward test |
| Back-test, walk-forward, Monte Carlo, stress tests, statistics | `backtest/` | none: pure functions | simulate, split, resample, transform, test | reports |
| Reports and deployment gate | `analytics/` | none | combine reports into fourteen items | back-test, trade log, events |
| Features, strategies, models | `features/`, `strategies/`, `models/` | fitted weights | numeric functions of a candle series | back-test, runner |
| Settings, dashboard | `config/`, `monitoring/dashboard.py`, `static/` | configuration, text | read, render | everything |

What makes each of them correct, and is hard to see in tests:

- *Governor*: risk is never raised by a loss; a stop persists; the peak is a peak
  through days and restarts; the limits halt trading at the very trade that
  reaches them.
- *Order manager*: one contract for a signal whatever happens to the answers;
  stakes within their ceiling, exposure within its limit in every currency;
  limits hold in every window of time, although trades are recorded late and
  forgotten early.
- *Loop*: nothing bought is forgotten while the process lives; what is saved
  agrees with what was booked; a halt holds; every tick ends.
- *Restarts*: what the database holds is enough to resume the day.
- *Clients*: an answer is never taken for the answer to another question; what
  is fetched again and again leaves no hole that could have been filled; a bad
  tick does not make a worse one look good.
- *Research*: no look-ahead, windows that do not overlap, figures that mean
  what their names say, and a gate that stays shut when something could not be
  measured.

Behaviour that is hard to get right: two awaits inside an attempt with gates
before them and bookkeeping after them; answers that are lost, late or for
somebody else; a tick that spans midnight; a process that dies between booking a
trade and saving it; an exception in a step whose failure nobody planned for.
`PROJECT.json` lists these hazards line by line with the properties that look at
them.

## 2. The plan

What the money depends on comes first: the governor, the order manager and the
loop that drives them, with restarts.  Then the parts that decide on what
evidence more money is risked (capital ramp, back-test), then the clients.

1. *Done.* Governor, gates, order manager, signal ledger, trading loop with
   persistence and restarts, WebSocket clients with advisor and discovery,
   capital ramp, back-test and reports; proofs about governor, order manager and
   capital ramp.
2. *Done.* The initialisation of the bot with its retries, its alerts and stops
   that come meanwhile; the candle store; tick subscription, quality, ingestion
   and aggregation; stress scenarios, the ruin of a Monte Carlo path and the
   deployment checklist over the reports, the trade log and the events.
3. *Done, proofs.* Every invariant and every action property that a passing run
   checks is stated by a theorem for all values of the constants (section 5).
4. *Next, proofs.* The steps of fairness under which `TickEnds` and `AdviceEnds`
   hold stay with TLC; what can still be proved about them is the safety part:
   that polls and questions only grow and are bounded.  That the governor inside
   `ForwardTest` is driven only by steps of `RiskGovernor`, and that within one
   process the loop implements `SignalLedger` too.
5. *Left, small.* The API's key and the selection of a strategy, which change who
   may call the modelled endpoints and which member of a set `Evaluate` draws.

## 3. The modules

| Module | What it models | Composition |
|---|---|---|
| `GovernorOps` | the methods of `RiskGovernor` as operators on a record, and what a snapshot keeps of it | used by everything that has a governor |
| `RiskGovernor` | the governor alone, under any sequence of calls | `GovernorOps` |
| `GovernorAlerts` | the loop's side of the event log: what it has alerted and what is due | `RiskGovernor` |
| `Economics` | break-even, edge and expected value of a price | constants only |
| `TradeGates` | cooldown, rate limits, exposure, stake, verdict on a price | `GovernorOps`, `Economics` |
| `SignalLedger` | *abstract*: a signal is committed once, an order filled at most once for it | |
| `OrderManager` | `attempt_trade` step by step, its caller and the broker | `TradeGates`; implements `SignalLedger` |
| `ForwardTest` | initialisation, the trading loop, settlement, statistics, SQLite, crashes, the control API | `OrderManager` |
| `WsConnection` | connections, request ids, what is read in which order | |
| `TradeAdvisor`, `MarketDiscovery` | the two coroutines that ask the broker beside the loop | `WsConnection` (and `Economics`) |
| `CandleStore` | fetching candles after the latest one stored, and what the broker may answer | `WsConnection` |
| `TickIngestion` | a tick stream, the score and the row of each tick, the candles made of them | `WsConnection` |
| `BrokerClients` | all four against one broker, those in `running` at the same time | the four above |
| `Statistics` | the significance test | |
| `CapitalRamp` | stages, evidence, trade log, restart | `Statistics` |
| `Backtest` | `run_backtest`, walk-forward, the two reports and the model's approval | `Economics`, `Statistics` |
| `DeploymentChecklist` | stress scenarios, ruin, the fourteen items | `Backtest` |
| `MC*` | values for the constants | |
| `GovernorLemmas` | what the operators of `GovernorOps` return and bound | `GovernorOps` |
| `CollectionLemmas` | sums over finite sets, lists, intervals, greatest and least, folds | library modules |
| `RiskGovernorProofs`, `OrderManagerProofs`, `ForwardTestProofs`, `BrokerProofs`, `CapitalRampProofs`, `BacktestProofs` | the theorems | the modules they are named for, `DeploymentChecklist` with `Backtest`; the forward test uses what is proved of the order manager |

**State and steps.** A variable is an attribute, a local that survives an await, a
SQLite table, or (marked `history`) a record of what happened that only
properties read.  A coroutine's place between two awaits is a variable of its
own: `stage` in `OrderManager` (`idle`, `proposal`, `buy`), `loop` in
`ForwardTest`, `advising`, `discovering`, `storing` and `streaming` in the clients.  What runs between
two awaits without a statement that may raise is one step, for asyncio runs
nothing else in between.  In `ForwardTest` the statements that may raise after a
trade has been booked (callbacks, saving, alerts) are steps of their own, so that
an exception or the death of the process can come between them.

**Mutants.** An operator whose comment begins with "Mutant" is not part of the
specification.  It is the definition after it with a plausible bug, and shows that
a property can fail: with the mutant in place of the definition TLC finds the
property violated.  `PROJECT.json` lists which goes with which.

**Abstractions.**

- Money is counted in whole units, a probability in percent, a fraction of the
  governor's multiplier in quarters.  Comparisons of fractions are cleared of their
  denominators, so that they are exact where the code has floating-point error.
  The code does not round a stake (`stake_sizing.py:15`): it is the balance times
  the risk, capped.  The models round that product up to the unit, so that a stake
  is zero exactly when the code's is.
- Time is a counter.  An await takes one of `Delays`; a day is `DaySpan` long.
- What a strategy says is chosen freely (`Candidates`, `Probabilities`) in
  `OrderManager`, and is a function of the candles it has been shown, and of the
  labels it was fitted to, in `Backtest`.  `RandomStrategy` draws from a
  generator that lives as long as the strategy, so `WindowsAgree` is about the
  strategies that do not.
- A signal is a model value in `OrderManager`, the pair of candle time and tick
  number, as in the code, in `ForwardTest`.
- The broker may answer, refuse, answer after the sender gave up, execute without
  answering, or never react.  It does not execute one request twice.  A proposal
  may lack its prices, which is a reason not to trade, or its id, which the code
  misses only after it has marked the signal (`order_manager.py:140` and `142`,
  `ProposalNameless`).
- A proposal of a stake is assumed to cost that stake.  The code asks for a price
  by stake (`order_manager.py:110`) and buys at whatever price it is given
  (`order_manager.py:121` and `142`), without comparing the two, so how much an
  order costs is the broker's word.  `TodaysLossBounded` and `OnlyPermittedOrders`
  speak of the stake asked for, and of money lost only as far as this holds.
- A sold contract that is won brings the gain of its proposal, one that is lost
  costs the stake.  The code takes result and profit from two fields of the answer
  (`contract_monitor.py:35` and `36`) and does not compare them either.
- A process is modelled from its first try to initialise.  Creating the tables,
  fetching the history, resolving the account and announcing success are a place
  each in `loop`, and each may raise.
- Profits under stress are counted in twentieths, so that slippage of five percent
  and a payout lowered by a fifth are whole numbers.  A Monte Carlo path draws
  trades with replacement; it lies between the one that repeats the worst trade
  and the one that repeats the best, and how many of the paths are ruined is left
  open between the two.
- In the source only tests join tick stream, scoring, ingestion and aggregation;
  `TickIngestion` joins them as their docstrings say.  A candle is a number, its
  prices left out of `CandleStore`.
- A message from the broker that cannot be decoded raises where a broken connection
  does, and is one of the failures of `WsConnection`.
- In `Statistics` the quantile of the normal distribution is the constant
  `CriticalPermille`, squared: 2706 for the code's `alpha` of 0.05, as in
  `MCCapitalRamp`; 1000 in `MCBacktest`, so that a handful of trades can be significant.

## 4. What is checked

Each run with what it bounds.  "Passes" means that TLC explored every state
within the bounds.

| Run | States | Question |
|---|---|---|
| `MCGovernorAlerts` | 279 000 | Does any mix of results, new days, resets and snapshots lift a stop, raise risk after a loss, understate the peak, or lose or repeat an alert? |
| `MCOrderManagerDelivery` | 226 000 | Is there at most one contract for a signal, whatever happens to the answers, and is every order sized within its ceiling and within exposure? |
| `MCOrderManagerLimits` | 796 000 | Do cooldown and rate limits hold in every window although a trade is recorded after its answers and forgotten after a day? |
| `MCForwardTestOneProcess` | 514 000 | In one process over three days, from its first try to start: do halts hold, does a stop let out one order at most, is nothing left open, does every try and every tick end? |
| `MCForwardTestRestarts` | 2 954 000 | Does what SQLite holds agree with what was booked, whenever the process dies? |
| `MCBrokerClients` | 972 000 | Is an answer only taken for its own question, does asking for advice end, is a hole in the stored candles no narrower than what a request skips, are the ticks fit for use in order? |
| `MCCapitalRamp` | 271 000 | Does every advance rest on enough trades of its own? |
| `MCBacktest` | 588 000 | Does a back-test use every candle it may and none it may not, is a model judged on what it was not fitted to, are the verdicts of approval and checklist earned, is stress never easier and as hard as it says? |

**Bounds and why they are enough.**  Limits are set so low that they are reached
well within the bounds, several of them and in different orders: a governor of
twenty units that two losses halt for the day and three for good; rate limits of
two and three with four trades, over a span longer than the day, so that pruning
happens; one order more than there are trades allowed.  Two pairs share a
currency on opposite or equal sides, a third symbol has none.  Three signals and
three orders suffice for a signal to be repeated after each way an order may end.
A loop of four ticks crosses two midnights, one of them in the middle of a tick
and one in a pause.  The wait for a failed start doubles once and is then at its
cap.  One crash is enough for what crosses a restart: a second
process reads what the first has left, and a third would read no more than that.
Two durations and two symbols make an answer that is late for one question arrive
before the answer to the next.  Three fetches of two or three candles among six
leave a hole, store candles above it and ask again.  Four ticks of two candles
with a gap in time after which a tick is stale hold a good tick, one repeated or
out of order, and one more that must be compared with the first.  `Together`
lets the advisor run beside discovery, whose answers could be mixed up; store and
stream run by themselves, for they share with the others only the counter of
request ids.  Nine logged trades hold two advances of four and
one to spare.  Ten candles of two prices, of which a report loads nine, hold two
windows with training and test slices of their own, rises, falls and ties; within
them a checklist passes in every item, one fails, and one cannot be made because
fitting the model raises.

The two `MCOrderManager` runs take signals as interchangeable (`SYMMETRY`): no
definition tells them apart, and nothing these runs check is a liveness property.

`CHECK_DEADLOCK FALSE` is said where the system really stops: `MCGovernorAlerts`
(an alert that cannot be persisted ends the loop), `MCBrokerClients` (advice given,
the pass made, the stream raised), `MCCapitalRamp` (log and restarts at their bounds, the advance
refused), `MCBacktest` (the report is done).

**Fairness.**  Two properties are about what must happen.  `TickEnds` assumes
weak fairness of the loop's steps within a try to start or a tick: requests carry
a timeout (`ws_client.py:49`, and ten seconds in `rest_client.py:47`), polling has
its own (`contract_monitor.py:58`), and asyncio resumes a coroutine whose await is
over.  The timeout of a WebSocket request covers the wait for the answer; the
request is sent before it begins (`ws_client.py:45`), and sending is taken to
complete or to raise.  `AdviceEnds` assumes the same of the
advisor's steps.  Nothing is assumed of the broker, the operator, the clock or the
process: that it crashes or that the loop fails is among the ends.

**Where the code does not do what its documents say.**  Four runs have a property
that TLC refutes; the trace of each is the argument, and `PROJECT.json` quotes the
sentence.

- `MCForwardTestEmergencyStop`: a stop saved on one day is gone after a restart on
  the next, because only the row of today's date is looked for.
- `MCForwardTestDailyLoss`: the day's starting balance is not saved, so after a
  restart the day may lose its limit again.
- `MCForwardTestSignalTwice`: signal ids repeat in a new process, whose duplicate
  guard is empty.
- `MCForwardTestExposure`: a position that was opened is never closed, so
  settled trades use up the exposure limit and, at two more calls than puts, every
  further call of the process is refused.

Met while modelling, and without a run of its own:

- *Starting.* The retries are to go on until they succeed
  (`run_forward_test.py:253`), but the handler writes an alert to SQLite
  (`run_forward_test.py:332`), and when that raises nothing catches it:
  `StartFails` may end in `fatal`.
- *The loop.* The stop is announced twice, as an event and as a state
  (`run_forward_test.py:236` and `242`).  A payout that does not exceed its price
  ends the loop with `ValueError` instead of one of the reasons
  (`payout_math.py:19`).  A proposal without an id ends the loop with `KeyError`
  and leaves its signal marked, though nothing was bought.  The price of a proposal
  is not held against the stake or `max_stake` (`order_manager.py:121`), so neither
  bounds what is paid.  The death of the loop sends no alert.  The runner takes
  its data as quality-scored (`forward_test_runner.py:65`), though candles fetched
  by the loop pass no score.
- *Clients.* A late error of another request fails the one that is waiting
  (`ws_client.py:53`).  "Never raises on a bad tick" (`tick_ingestion.py:31`): one
  without a price or an epoch does, for the table takes neither and a missing
  epoch cannot be compared (`IngestRaises`).  A candle stored while it is still
  forming is never replaced (`historical_store.py:36`).
- *Capital.* After a restart the ramp is back at `DEMO` and counts all trades again.
- *The gate.* `deployment_checklist.py` speaks of thirteen items and has fourteen.
  No events at all pass the item for reliability, where "honestly unmeasured"
  items are to block.  The checklist does not ask whether the model was approved,
  which `baseline_comparison.py` calls a hard gate.  The stability score is as
  good for windows that lose alike as for windows that earn alike.  With labels
  of one side only fitting raises (`logistic_model.py:64`), and so does the
  checklist.  The item on demo trades counts those of every strategy.  Ten percent
  of up to five trades round to no win lost (`stress_testing.py:61`).

## 5. What is proved

The proofs hold for every value of the constants that satisfies the named
assumptions beside the declarations, which TLC evaluates in every run: limits,
stakes and spans are natural numbers and an hour no longer than a day
(`GatesAssumption`), fractions lie between zero and one, symbols map to pairs of
currencies or to none, snapshots are those a governor may have saved, the four
clients are four (`TogetherAssumption`), a missing row or value is not taken for
one that is there (`RowAssumption`, `IngestionAssumption`), durations and lengths
of windows are positive (`BacktestAssumption`).  Every invariant and every action
property that a passing run checks is stated by a theorem.

Four theorems say less than the invariant alone, and each for a reason that lies
in the code:

- `ExposureKept` assumes `~ClosesPositions`.  Nothing under `src/` closes a position.
- `DailyLossAgrees` and `DailyLossBounded` are about the time until a process has
  died.  Its successor restores the day's statistics but not the balance the day
  began with, so that afterwards both are false; the run
  `MCForwardTestDailyLoss` shows how.  `DailyLossBounded` needs besides that
  `MaxDailyLoss + MaxStake > 0`: with neither, a day without a trade would have to
  lose less than nothing.
- `VerdictsEarned` assumes `DrawdownPct < 100`.  The default is 15 percent
  (`settings.py:42`), but the checklist takes up to 100 for a sane limit
  (`deployment_checklist.py:197`); at 100 a back-test whose deepest fall uses up the
  bankroll is still accepted.

**Governor** (`RiskGovernorProofs`).  `IInv` is the type invariant, `PeakDominates`
and that an unused governor is as the constructor left it; the last conjunct is
what makes `load_state` harmless, as it may only be called on such a governor.
The drawdown test is monotone in the balance (`DrawdownMonotone`), and so the
multiplier never grows when the balance falls and the streak grows
(`MultiplierMonotone`); from this follow `RiskNeverGrowsFromLoss` and, with what
a new day leaves alone (`NextDayFields`), `RiskRegained`.  For `StoppedAtLimit`
the invariant is strengthened by the log's being empty before use: each result
that reaches the limit sets the flag in the same call, so that only a reset can
have cleared it since.

The loop's alerting refines the governor's specification (`AlertsFollow`), so all
of this holds of the governor it drives.  `AlertInv` says that the alerts sent for
events are those due for the events up to `seen`, and that
what was logged since calls for none when a tick is over.  Selecting from a list distributes over joining two lists
(`ThoseJoined`, by way of the table of partial results of the pass), so what a
tick adds to the alerts is what it added to the events: `AlertedOnce`.

**Order manager** (`OrderManagerProofs`).  One contract for a signal needs more than
the duplicate guard: `OrderInv` says that every request under way or filled is of
a marked signal, that no two are of one signal, and that an attempt waiting for
its proposal has not marked its own.  The guard is read when the attempt begins
and written before the request goes out, and the second and third conjunct carry
the fact from one to the other across the await.  The step lemma `StepKinds`
reduces the actions to five effects on signals and requests; from it follow
`OneContract` and the refinement `OrdersImplementLedger`.  `LimitInv` adds that the
tracker knows the latest trade of each symbol and that a suspended attempt began a
cooldown after it, because a trade is recorded with the time at which its attempt
began; and that the balance stays below the peak, which the stake's monotonicity
needs.

`ExposureInv`: what is exposed is within the limit, and a suspended attempt has the
room it was granted, for nothing else enters a position while it waits.  The sum
over the set of positions grows by what the new one exposes.  `RateInv`: whatever
the limiter has forgotten is older than a day, so that an attempt it clears has
room in the window that ends with it; every window that holds a later trade ends
with one.  That an hour is not longer than a day is what lets one pruning serve
both limits.

**Forward test** (`ForwardTestProofs`).  Some thirty actions are reduced to a dozen
kinds of step (`LoopSteps`); what is proved of the order manager is used for the
two that contain an attempt (`EvaluateSteps`, `AwaitSteps`).

- `LoopInv` is the type invariant with what each place in the loop implies, such as
  where an attempt may be suspended, and that no date is ahead of the clock.
- `PermitInv`: while an attempt is suspended, and until its trade is settled, the
  governor is within every limit, for in the loop nothing books a result meanwhile.  So a governor at a limit sends
  nothing (`HaltSendsNothing`), and no win can end a streak that halts
  (`LossHaltLasts`).
- `StopInv`: an order is sent only in a tick that has read the flag; after a stop
  at most the tick under way may do so (`OneOrderAfterStop`).
- `DayInv`, `BoundInv`: governor and statistics learn of each settlement together
  and begin the day together; and a stake is lost only by a day that had not
  reached its limit when it was placed.
- `RowInv`: outside the places between booking and saving, the row of the loop's
  date is what the process would save, or there is none; rows of later dates do not
  exist, so a midnight finds none.
- `OpenInv` counts requests: those filled are logged or dropped, but for the one
  being bought, polled or logged.
- `LogInv` relates the sum over all saved rows to the length of the log, with one
  trade of difference for each process that died between the two writes.

**Clients** (`BrokerProofs`).  A step of one client leaves alone what concerns the
others (`BrokerSteps`), so each is proved by itself.  `ConnInv`: ids are unique and
below the next one, so an answer bears the id of one question only.  `Belongs`, on
top of it, says of the request a client waits for that the broker still has the
question it was asked for; so a late answer to a question given up on is passed
over (`AdvisorQuotes`, `RegistryContracts`).  For the store, `Fits` says what an
answer to a request for candles may hold, and a stretch that is not connected to
what is stored is at least as long as the smallest request asks for (`StoreHoles`).  For the ticks,
`RemembersLastGood`: what quality scoring remembers is the last good tick, so the
good ticks ascend; the aggregation passes the periods in ascending order and a
candle that has a successor is not touched by a later tick (`TicksInOrder`).

**Capital ramp** (`CapitalRampProofs`).  `StageInv`: all evidence used so far lies at
or before the trade at which the stage began, which is the latest one when the
stage last changed.

**Research** (`BacktestProofs`).  `BacktestInv` says of the back-test under way how far
it has walked (`Walked`) and which plan of the report it belongs to (`PlanIs`), and
of the finished ones that they walked to their end (`Stop`).  Each step of the walk
enters a trade or counts a no-trade, so every candle is counted
(`CandlesCounted`).  `TradesLookBack` has two parts.  Where the strategy, shown
the candles so far, clears the gate, a trade is entered, and nowhere else
(`WhereWalked`).  And two back-tests by one strategy agree on the candles both
walked, also when the second knew candles the first did not (`WalkedByBoth`): that
needs the candles of the first report to be the beginning of those stored.  With the arithmetic of the windows (`WindowLies`) a window's
trades are those of the whole in its slice (`WindowsScoreTheWhole`), and with where
training ends (`TrainedOn`), the model is held out (`ModelHeldOut`).

Drawdown, equity and ruin are folds over lists.  `DrawdownIsFall` shows by a table
of the pass's partial results that after each trade the pass holds the highest
equity so far and the deepest fall so far.  `StressIsWorse` shows that repeating
the worst trade ruins a bankroll exactly when that trade loses
(`RepeatedRuin`), and that each scenario keeps a losing trade that loses at least
as much.  It also shows of each that no profit is reached by a larger share of its
trades than of the trades it was made of (`NeverAbove`): trade by trade where a
scenario lowers each of them (`BelowNeverAbove`), by counting where it turns wins
into losses (`FewerNeverAbove`) or repeats losses (`StreakNeverAbove`).  The wins
lost are the tenths it says, to within half a trade, for rounding to the nearest
whole is never further off (`RoundedIs`, `WinsLost`).  `VerdictsEarned` follows the fourteen items to what each rests on: the
significance test can only be passed by trades that earn (`ReliableEarns`), and a
drawdown within the limit leaves something of the bankroll.

**Sums and folds** (`CollectionLemmas`).  The provers cannot instantiate the
library's induction theorems, which take an operator.  What is needed is proved
from the recursive definitions of the community modules: by taking a smallest
set for which a claim fails, a table is shown to exist that
satisfies the recursion (`SumsExist`, `FoldsExist`), and the sum or the fold is
shown to be its entry for the whole set (`SumOfTable`, `TablesAgree`).  A sum does not depend on
the order in which elements are taken (`AnyElementFirst`).

**Only model-checked**: the liveness properties `TickEnds` and `AdviceEnds`, which
need fairness and so `ENABLED`; and the properties of the four runs that refute
one, where TLC's trace is the argument.

## 6. What is not modelled

Features, strategies and the logistic model are arithmetic on real numbers; the
models take what they say as given, and know of the model only whether it can be
fitted.  `RandomStrategy` is left out.  Of a Monte Carlo simulation the share of
ruined paths and the percentiles need probabilities; the calibration error is a
floating-point figure, and whether it is acceptable is left open.  Profit factor,
streaks, the Wilson interval and the Bonferroni correction are displayed or have
no caller.  Rendering, settings and the HTTP framework have no state of their own;
the control API's key is a guard in front of the modelled endpoints.  What is
planned is listed in section 2.
