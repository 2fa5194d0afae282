----------------------------- MODULE Backtest ------------------------------
(***************************************************************************)
(* The back-test (backtest/simulator.py), its walk-forward repetition      *)
(* (backtest/walk_forward.py) and the two reports built on them            *)
(* (analytics/real_data_report.py, analytics/model_comparison_report.py),  *)
(* as api/server.py runs them for the deployment checklist: in a thread,   *)
(* one after the other, each from what the candles table holds when it     *)
(* loads it, while the trading loop goes on storing candles.               *)
(*                                                                         *)
(* A candle is its close.  Indices count from 0, as in the code.           *)
(***************************************************************************)
EXTENDS Economics, Statistics, SequencesExt

CONSTANTS Prices,
          Warmup, Duration,     \* warmup and duration_candles
          NWindows,             \* n_walk_forward_windows
          TrainTenths,          \* train_fraction, in tenths
          Stake, WinProfit,     \* the stake, and what a win earns
          MinSample, MinExamples,
          MinPerClass,          \* labels of each kind the model's fit needs
          Baselines,            \* the baseline strategies of the comparison
          Reported,             \* the strategy of the report
          Signal(_, _, _),      \* what a strategy says, fitted to labels, of candles
          RegimeOf(_),          \* the market regime of candles
          MaxCandles,           \* max_candles
          MaxStored             \* bound: candles stored

ASSUME BacktestAssumption ==
    /\ Warmup \in Nat /\ Duration \in Nat \ {0} /\ NWindows \in Nat \ {0}
    /\ TrainTenths \in 1..9 /\ Stake \in Nat \ {0} /\ WinProfit \in Nat \ {0}
    /\ MinSample \in Nat /\ MinExamples \in Nat \ {0} /\ MinPerClass \in Nat
    /\ Baselines \in Seq(STRING) /\ Reported # "model" /\ MaxCandles \in Nat \ {0} /\ MaxStored \in Nat

VARIABLES stored,       \* SQLite: the candles of the symbol
          phase,        \* "idle", "real", "between", "model", "done" or "raised"
          series,       \* the candles the report under way has loaded
          jobs,         \* the back-tests it has still to run
          at,           \* the index the current one has come to
          trades,       \* the trades of the current one
          skipped,      \* its no_trade_count
          results,      \* back-tests finished by this report
          real,         \* those of the first report, once it is made
          labels,       \* the labels the model is fitted to
          approved      \* the verdict on the model

reports == <<phase, series, jobs, at, trades, skipped, results, real, labels, approved>>
vars    == <<stored, reports>>

-----------------------------------------------------------------------------
(* The figures of a finished back-test (BacktestResult).                   *)

Won(t) == t.profit > 0

TotalProfit(ts) == MapThenSumSet(LAMBDA i : ts[i].profit, DOMAIN ts)

WinCount(ts) == Cardinality({i \in DOMAIN ts : Won(ts[i])})

Greater(a, b) == IF a >= b THEN a ELSE b

\* Mutant: the fall is measured from the start of the curve.
MaxDrawdownFromStart(ts) ==
    FoldLeft(LAMBDA s, t : [equity |-> s.equity + t.profit,
                            worst  |-> Greater(s.worst, -(s.equity + t.profit))],
             [equity |-> 0, worst |-> 0], ts).worst

\* max_drawdown, in one pass over the equity curve.
MaxDrawdown(ts) ==
    FoldLeft(LAMBDA s, t :
                LET equity == s.equity + t.profit
                    peak   == Greater(s.peak, equity)
                IN  [equity |-> equity, peak |-> peak,
                     worst  |-> Greater(s.worst, peak - equity)],
             [equity |-> 0, peak |-> 0, worst |-> 0], ts).worst

\* realized_ev_per_stake of a result is greater than that of another: one
\* without trades has none, and is beaten by any that has.
Beats(ts, us) ==
    /\ ts # <<>>
    /\ us = <<>> \/ TotalProfit(ts) * Len(us) > TotalProfit(us) * Len(ts)

-----------------------------------------------------------------------------
(* One index of run_backtest.                                              *)

Candle(i) == series[i + 1]

\* Mutant: the candle after the last one is among those seen.
SeenAhead(i) == SubSeq(series, 1, i + 2)

\* What is known when the candle at i has closed.
Seen(i) == SubSeq(series, 1, i + 1)

\* Only the model is fitted to the labels.
Fitted(strategy) == IF strategy = "model" THEN labels ELSE <<>>

PassesGate(signal) ==
    /\ signal.direction # "NO_TRADE"
    /\ ClearsEdge(signal.prob, Stake, Stake + WinProfit)
    /\ ClearsValue(signal.prob, Stake, Stake + WinProfit)

\* A tie loses.
Resolved(i, direction) ==
    LET won == IF direction = "CALL" THEN Candle(i + Duration) > Candle(i)
               ELSE Candle(i + Duration) < Candle(i)
    IN  [entry |-> i, exit |-> i + Duration, direction |-> direction,
         regime |-> RegimeOf(Seen(i)),
         profit |-> IF won THEN WinProfit ELSE -Stake]

Job(strategy, first, end) == [strategy |-> strategy, first |-> first, end |-> end]

\* Mutant: the last candle is never used.
LastEntryTooEarly(job) == job.end - 2 - Duration

\* The last index whose contract is resolved within the candles given.
LastEntry(job) == job.end - 1 - Duration

-----------------------------------------------------------------------------
(* The back-tests of the reports.                                          *)

\* make_walk_forward_windows: equal chunks, the last of which takes what is
\* left over; each begins with its training slice.
Windows(n) ==
    LET chunk == n \div NWindows
    IN  [w \in 1..NWindows |->
            LET start == (w - 1) * chunk
                end   == IF w = NWindows THEN n ELSE start + chunk
            IN  [start |-> start, end |-> end,
                 split |-> Greater(start + ((end - start) * TrainTenths) \div 10,
                                   start + 1)]]

\* Mutant: a window is traded from its beginning.
WindowJobsFromStart(n) ==
    [w \in 1..NWindows |-> Job(Reported, Greater(Warmup, Windows(n)[w].start),
                               Windows(n)[w].end)]

WindowJobs(n) ==
    [w \in 1..NWindows |-> Job(Reported, Greater(Warmup, Windows(n)[w].split),
                               Windows(n)[w].end)]

\* generate_real_data_report: all candles, then the windows if there are enough.
RealJobs(n) ==
    <<Job(Reported, Warmup, n)>>
    \o (IF n >= (Warmup + Duration + 1) * NWindows THEN WindowJobs(n) ELSE <<>>)

TrainEnd(n) == (n * TrainTenths) \div 10

\* Mutant: the labels are not cut off where the training slice ends.
LabelsLeaking(candles) ==
    [k \in 1..Greater(0, TrainEnd(Len(candles)) - Warmup) |->
        LET i == Warmup + k - 1
        IN  i + Duration + 1 <= Len(candles)
            /\ candles[i + Duration + 1] > candles[i + 1]]

\* build_training_examples on the training slice: whether the price is higher
\* a duration later, for every index with a warm-up and an outcome in it.
LabelsOf(candles) ==
    [k \in 1..Greater(0, TrainEnd(Len(candles)) - Duration - Warmup) |->
        candles[Warmup + k + Duration] > candles[Warmup + k]]

\* generate_model_comparison_report: the model and every baseline, from the
\* end of the training slice.
ModelJobs(n) ==
    [k \in 1..(1 + Len(Baselines)) |->
        Job(IF k = 1 THEN "model" ELSE Baselines[k - 1],
            Greater(Warmup, TrainEnd(n)), n)]

\* load_candles_from_db: the latest max_candles.
Loaded == SubSeq(stored, Greater(1, Len(stored) - MaxCandles + 1), Len(stored))

-----------------------------------------------------------------------------
Init == /\ stored = <<>> /\ phase = "idle"
        /\ series = <<>> /\ jobs = <<>> /\ at = 0
        /\ trades = <<>> /\ skipped = 0
        /\ results = <<>> /\ real = <<>> /\ labels = <<>> /\ approved = FALSE

\* The trading loop stores a candle.
CandleStored(price) ==
    /\ Len(stored) < MaxStored
    /\ stored' = Append(stored, price)
    /\ UNCHANGED reports

\* A report begins with the back-tests todo.
Begins(candles, todo) ==
    /\ series' = candles /\ jobs' = todo
    /\ at' = IF todo = <<>> THEN 0 ELSE Head(todo).first
    /\ trades' = <<>> /\ skipped' = 0 /\ results' = <<>>
    /\ UNCHANGED stored

LoadReal == /\ phase = "idle"
            /\ phase' = "real"
            /\ Begins(Loaded, RealJobs(Len(Loaded)))
            /\ UNCHANGED <<real, labels, approved>>

Current == Head(jobs)

Walk == /\ jobs # <<>> /\ at <= LastEntry(Current)
        /\ at' = at + 1
        /\ LET signal == Signal(Current.strategy, Fitted(Current.strategy), Seen(at))
           IN  IF PassesGate(signal)
               THEN trades' = Append(trades, Resolved(at, signal.direction)) /\ UNCHANGED skipped
               ELSE skipped' = skipped + 1 /\ UNCHANGED trades
        /\ UNCHANGED <<stored, phase, series, jobs, results, real, labels, approved>>

\* Mutant: the count of no trades is carried into the next back-test.
BacktestDoneCarrying ==
    /\ jobs # <<>> /\ at > LastEntry(Current)
    /\ results' = Append(results, [job |-> Current, trades |-> trades, skipped |-> skipped])
    /\ jobs' = Tail(jobs)
    /\ at' = IF Tail(jobs) = <<>> THEN 0 ELSE Head(Tail(jobs)).first
    /\ trades' = <<>>
    /\ UNCHANGED <<stored, phase, series, skipped, real, labels, approved>>

BacktestDone ==
    /\ jobs # <<>> /\ at > LastEntry(Current)
    /\ results' = Append(results, [job |-> Current, trades |-> trades, skipped |-> skipped])
    /\ jobs' = Tail(jobs)
    /\ at' = IF Tail(jobs) = <<>> THEN 0 ELSE Head(Tail(jobs)).first
    /\ trades' = <<>> /\ skipped' = 0
    /\ UNCHANGED <<stored, phase, series, real, labels, approved>>

\* No model is looked at when the strategy never traded.
RealDone == /\ phase = "real" /\ jobs = <<>>
            /\ phase' = IF results[1].trades # <<>> THEN "between" ELSE "done"
            /\ real' = results
            /\ UNCHANGED <<stored, series, jobs, at, trades, skipped, results, labels, approved>>

\* LogisticProbabilityModel.fit raises unless it finds labels of each kind
\* for every fold of its cross-validation.
CanFit(ls) == \A kind \in BOOLEAN :
                 Len(SelectSeq(ls, LAMBDA l : l = kind)) >= MinPerClass

\* With too few examples the report is made without a model.
LoadModel == /\ phase = "between"
             /\ labels' = LabelsOf(Loaded)
             /\ \/ /\ Len(labels') < MinExamples
                   /\ phase' = "done" /\ Begins(Loaded, <<>>)
                \/ /\ Len(labels') >= MinExamples /\ ~CanFit(labels')
                   /\ phase' = "raised" /\ Begins(Loaded, <<>>)
                \/ /\ Len(labels') >= MinExamples /\ CanFit(labels')
                   /\ phase' = "model" /\ Begins(Loaded, ModelJobs(Len(Loaded)))
             /\ UNCHANGED <<real, approved>>

\* compare_to_baselines
Approves == LET model == results[1].trades
            IN  /\ Reliable(WinCount(model), Len(model), Stake, Stake + WinProfit, MinSample)
                /\ \A k \in 2..Len(results) : Beats(model, results[k].trades)

ModelDone == /\ phase = "model" /\ jobs = <<>>
             /\ phase' = "done"
             /\ approved' = Approves
             /\ UNCHANGED <<stored, series, jobs, at, trades, skipped, results, real, labels>>

Next == \/ \E price \in Prices : CandleStored(price)
        \/ LoadReal \/ LoadModel
        \/ Walk \/ BacktestDone
        \/ RealDone \/ ModelDone

Spec == Init /\ [][Next]_vars

-----------------------------------------------------------------------------
(***************************************************************************)
(* Properties.                                                             *)
(***************************************************************************)

\* While a back-test runs, the candles it has walked are its trades and its
\* count of no trades.
BacktestTypeOK == /\ phase \in {"idle", "real", "between", "model", "done", "raised"}
                  /\ at \in 0..Greater(Len(series), Warmup)
                  /\ skipped \in 0..Len(series) /\ approved \in BOOLEAN
                  /\ jobs # <<>> => Len(trades) + skipped = at - Current.first

Finished(k) == results[k].trades

\* "A real system can't trade before it has data", and contracts that would
\* outlive the data are not entered: of the candles a back-test walks, each
\* becomes a trade or a count of no trade, and it walks exactly those with a
\* warm-up behind and an outcome ahead of them within its own candles.
EveryCandleCounted ==
    \A k \in DOMAIN results :
        /\ Len(Finished(k)) + results[k].skipped
             = Cardinality({i \in 0..Len(series) - 1 :
                   i >= results[k].job.first /\ i + Duration < results[k].job.end})
        /\ \A t \in Range(Finished(k)) : t.exit < results[k].job.end

\* "Building a MarketContext from only what's known so far": a trade is entered
\* exactly where the strategy, shown the candles up to there and none of those
\* to come, clears the gate, and in the direction it says.  So candles that
\* come later change nothing: as long as no report loads less than all of
\* them, what the second report trades with the strategy of the first is, up
\* to the end of what the first had loaded, what the first traded, with the
\* same profits and in the same regimes.
NoLookAhead ==
    /\ \A k \in DOMAIN results :
         LET job  == results[k].job
             said == [i \in job.first..job.end - 1 - Duration |->
                        Signal(job.strategy, Fitted(job.strategy), SubSeq(series, 1, i + 1))]
         IN  {<<t.entry, t.direction>> : t \in Range(Finished(k))}
               = {<<i, said[i].direction>> : i \in {j \in DOMAIN said : PassesGate(said[j])}}
    /\ real # <<>> /\ Len(stored) <= MaxCandles =>
         \A k \in DOMAIN results :
             LET job == results[k].job
             IN  job.strategy = Reported =>
                   {t \in Range(Finished(k)) : t.exit < real[1].job.end}
                     = {t \in Range(real[1].trades) : t.entry >= job.first /\ t.exit < job.end}

\* In the walk-forward report a window's trades are those of the whole
\* back-test that lie in its test slice, in the same order: splitting the
\* history changes which trades are scored, never how they end, and no trade
\* is scored twice.
WindowsAgree ==
    phase \in {"real", "between"} /\ Len(results) > 1 =>
        \A w \in 1..Len(results) - 1 :
            LET window == Windows(Len(series))[w]
            IN  /\ Range(Finished(w + 1))
                     = {t \in Range(Finished(1)) : /\ t.entry >= window.split
                                                  /\ t.exit < window.end}
                /\ \A k \in {1, w + 1} : \A i, j \in DOMAIN Finished(k) :
                      i < j => Finished(k)[i].entry < Finished(k)[j].entry

\* "Never the training data": every label the model was fitted to was settled
\* before the first candle on which the model or a baseline traded, and there
\* is one for every candle of the slice that can have one.
HeldOut ==
    phase \in {"model", "done"} =>
        /\ \A k \in DOMAIN results : results[k].job.strategy = "model" =>
             \A t \in Range(Finished(k)) : t.entry >= Warmup + Len(labels) + Duration
        /\ Warmup + Len(labels) + Duration <= Greater(TrainEnd(Len(series)), Warmup + Duration)

\* max_drawdown is the deepest fall between any two points of the equity curve.
DrawdownIsWorstFall ==
    \A k \in DOMAIN results :
        LET ts == Finished(k)
            fall(i, j) == TotalProfit(SubSeq(ts, 1, i)) - TotalProfit(SubSeq(ts, 1, j))
            pairs == {p \in (0..Len(ts)) \X (0..Len(ts)) : p[1] <= p[2]}
        IN  MaxDrawdown(ts) = Max({fall(p[1], p[2]) : p \in pairs})

\* "This is a hard gate": an approved model earned money on the held-out
\* candles, and more for each stake than any baseline on the same ones.
ApprovedModelEarns ==
    approved => /\ TotalProfit(Finished(1)) > 0
                /\ \A k \in 2..Len(results) :
                     /\ results[k].job.first = results[1].job.first
                     /\ results[k].job.end = results[1].job.end
                     /\ Beats(Finished(1), Finished(k))
=============================================================================
