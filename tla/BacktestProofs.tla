--------------------------- MODULE BacktestProofs ---------------------------
(***************************************************************************)
(* Proofs about the back-test, its walk-forward repetition and the two     *)
(* reports, for any candles, strategies, lengths of windows and numbers of *)
(* them: every candle counts once, no trade knows more than its time,      *)
(* windows score the trades of the whole, the model never meets its        *)
(* training data, the drawdown reported is the worst fall there is, no     *)
(* stress scenario is easier than what it is derived from, and a verdict   *)
(* is passed on earnings only.                                             *)
(***************************************************************************)
EXTENDS DeploymentChecklist, CollectionLemmas

-----------------------------------------------------------------------------
(* The inductive invariant.                                                *)

\* A back-test lies within n candles.
FitsIn(job, n) == /\ job.first \in Nat /\ job.end \in 0..n
                  /\ Warmup <= job.first /\ job.first <= Greater(n, Warmup)

Fits(job) == FitsIn(job, Len(series))

\* Where a back-test ends its walk.
Stop(job) == Greater(job.first, LastEntry(job) + 1)

SaidAt(job, i) == Signal(job.strategy, Fitted(job.strategy), Seen(i))

\* The trades of a back-test that has walked from its first index to the one
\* before upto: those, in their order, at which a signal passed the gate.
Walked(job, upto, ts) ==
    /\ IsSeq(ts)
    /\ \A i \in DOMAIN ts :
          /\ ts[i].entry \in job.first..(upto - 1)
          /\ PassesGate(SaidAt(job, ts[i].entry))
          /\ ts[i] = Resolved(ts[i].entry, SaidAt(job, ts[i].entry).direction)
    /\ \A e \in job.first..(upto - 1) :
          PassesGate(SaidAt(job, e)) => \E i \in DOMAIN ts : ts[i].entry = e
    /\ \A i, j \in DOMAIN ts : i < j => ts[i].entry < ts[j].entry

\* The back-test under way, and those that are finished.
RunningInv ==
    /\ at \in Nat /\ skipped \in Nat
    /\ jobs = <<>> => at = 0 /\ trades = <<>> /\ skipped = 0
    /\ jobs # <<>> => /\ at \in Current.first..Stop(Current)
                      /\ Len(trades) + skipped = at - Current.first
                      /\ Walked(Current, at, trades)

Counted(result) ==
    /\ Fits(result.job) /\ result.skipped \in Nat
    /\ Len(result.trades) + result.skipped = Stop(result.job) - result.job.first
    /\ Walked(result.job, Stop(result.job), result.trades)

FinishedInv == \A k \in DOMAIN results : Counted(results[k])

\* The back-tests of a report, finished and to come, in their order.
PlanIs(plan) ==
    /\ IsSeq(plan)
    /\ Len(results) + Len(jobs) = Len(plan)
    /\ \A k \in DOMAIN results : results[k].job = plan[k]
    /\ \A k \in DOMAIN jobs : jobs[k] = plan[Len(results) + k]

PlanInv ==
    /\ phase \in {"real", "between"} => PlanIs(RealJobs(Len(series))) /\ labels = <<>>
    /\ phase = "model" => PlanIs(ModelJobs(Len(series)))
    /\ phase \in {"idle", "between", "done", "raised"} => jobs = <<>>
    /\ phase = "idle" => results = <<>> /\ labels = <<>>
    /\ labels = <<>> \/ labels = LabelsOf(series)

\* Where the model trades, it was fitted to the labels of its training slice.
TrainedOn(job) ==
    job.strategy = "model" =>
        /\ labels = LabelsOf(series) /\ Len(labels) >= MinExamples
        /\ job.first = Greater(Warmup, TrainEnd(Len(series)))

ModelInv == /\ \A k \in DOMAIN jobs : TrainedOn(jobs[k])
            /\ \A k \in DOMAIN results : TrainedOn(results[k].job)

BacktestInv ==
    /\ IsSeq(stored) /\ IsSeq(series) /\ IsSeq(jobs) /\ IsSeq(results)
    /\ phase \in {"idle", "real", "between", "model", "done", "raised"}
    /\ approved \in BOOLEAN
    /\ \A k \in DOMAIN jobs : Fits(jobs[k])
    /\ RunningInv /\ FinishedInv /\ PlanInv /\ ModelInv

-----------------------------------------------------------------------------
(* One index of a back-test.                                               *)

\* The indices walked, and one more.
LEMMA OneFurther ==
    ASSUME NEW first \in Int, NEW n \in Int, first <= n
    PROVE  first..(n + 1 - 1) = (first..(n - 1)) \cup {n}
OBVIOUS

\* At the first index nothing has been walked.
LEMMA WalkBegins ==
    ASSUME NEW job, job.first \in Int PROVE Walked(job, job.first, <<>>)
<1>1. DOMAIN <<>> = {}
  BY EmptyIsSeq, SeqFacts
<1>2. job.first..(job.first - 1) = {}
  OBVIOUS
<1>3. \A i \in DOMAIN <<>> : FALSE
  BY <1>1
<1>4. \A e \in job.first..(job.first - 1) : FALSE
  BY <1>2
<1> QED
  BY <1>3, <1>4, EmptyIsSeq DEF Walked

\* A signal that passes the gate adds the trade of its index.
LEMMA WalkTrades ==
    ASSUME NEW job, job.first \in Int, NEW n \in Int, job.first <= n, NEW ts,
           Walked(job, n, ts), PassesGate(SaidAt(job, n))
    PROVE  Walked(job, n + 1, Append(ts, Resolved(n, SaidAt(job, n).direction)))
<1> DEFINE t == Resolved(n, SaidAt(job, n).direction)
           us == Append(ts, t)
<1>1. t.entry = n
  BY DEF Resolved
<1>2. /\ IsSeq(ts) /\ IsSeq(us) /\ Len(us) = Len(ts) + 1 /\ Len(ts) \in Nat
      /\ \A i \in 1..Len(ts) : us[i] = ts[i]
      /\ us[Len(ts) + 1] = t
      /\ DOMAIN ts = 1..Len(ts) /\ DOMAIN us = 1..Len(us)
  BY Appended, SeqFacts DEF Walked
<1> HIDE DEF t, us
<1>3. \A i \in DOMAIN us :
          \/ i \in DOMAIN ts /\ us[i] = ts[i]
          \/ i = Len(ts) + 1 /\ us[i] = t
  BY <1>2
<1>4. job.first..(n + 1 - 1) = (job.first..(n - 1)) \cup {n}
  BY OneFurther
<1>5. job.first..(n - 1) \subseteq job.first..(n + 1 - 1) /\ n \in job.first..(n + 1 - 1)
  BY <1>4
<1>6. \A i \in DOMAIN us :
          /\ us[i].entry \in job.first..(n + 1 - 1)
          /\ PassesGate(SaidAt(job, us[i].entry))
          /\ us[i] = Resolved(us[i].entry, SaidAt(job, us[i].entry).direction)
  <2> TAKE i \in DOMAIN us
  <2>1. CASE i \in DOMAIN ts /\ us[i] = ts[i]
    BY <1>5, <2>1 DEF Walked
  <2>2. CASE us[i] = t
    BY <1>1, <1>5, <2>2 DEF t
  <2> QED
    BY <1>3, <2>1, <2>2
<1>7. \A e \in job.first..(n + 1 - 1) :
          PassesGate(SaidAt(job, e)) => \E i \in DOMAIN us : us[i].entry = e
  <2> TAKE e \in job.first..(n + 1 - 1)
  <2>1. CASE e \in job.first..(n - 1)
    <3> HAVE PassesGate(SaidAt(job, e))
    <3>1. PICK i \in DOMAIN ts : ts[i].entry = e
      BY <2>1 DEF Walked
    <3>2. i \in DOMAIN us /\ us[i] = ts[i]
      BY <1>2
    <3> QED
      BY <3>1, <3>2
  <2>2. CASE e = n
    <3>1. Len(ts) + 1 \in DOMAIN us
      BY <1>2
    <3> QED
      BY <1>1, <1>2, <2>2, <3>1
  <2> QED
    BY <1>4, <2>1, <2>2
<1>8. \A i, j \in DOMAIN us : i < j => us[i].entry < us[j].entry
  <2>1. \A i \in DOMAIN ts : ts[i].entry < n /\ i < Len(ts) + 1
    BY <1>2 DEF Walked
  <2>2. \A i, j \in DOMAIN ts : i < j => ts[i].entry < ts[j].entry
    BY DEF Walked
  <2> QED
    BY <1>1, <1>2, <1>3, <2>1, <2>2
<1> QED
  BY <1>2, <1>6, <1>7, <1>8 DEF Walked, us, t

\* Any other only counts.
LEMMA WalkSkips ==
    ASSUME NEW job, job.first \in Int, NEW n \in Int, job.first <= n, NEW ts,
           Walked(job, n, ts), ~PassesGate(SaidAt(job, n))
    PROVE  Walked(job, n + 1, ts)
<1>1. job.first..(n + 1 - 1) = (job.first..(n - 1)) \cup {n}
  BY OneFurther
<1>2. job.first..(n - 1) \subseteq job.first..(n + 1 - 1)
  BY <1>1
<1> QED
  BY <1>1, <1>2 DEF Walked

-----------------------------------------------------------------------------
(* The back-tests of the reports.                                          *)

\* A part of what is more is not less.
LEMMA Products ==
    ASSUME NEW a \in Int, NEW b \in Int, NEW c \in Nat, a <= b
    PROVE  a * c <= b * c /\ a * c \in Int /\ b * c \in Int /\ (a + 1) * c = a * c + c
OBVIOUS

\* The chunks fit into the candles, and are as long as the parts they have.
LEMMA Chunks ==
    ASSUME NEW n \in Nat, NEW parts \in Nat \ {0}, NEW least \in Nat, n >= least * parts
    PROVE  /\ n \div parts \in Nat /\ (n \div parts) * parts <= n
           /\ n \div parts >= least
<1> DEFINE c == n \div parts
<1>1. c \in Nat /\ n = (parts * c) + (n % parts)
  OBVIOUS
<1>2. n % parts \in 0..(parts - 1)
  OBVIOUS
<1> HIDE DEF c
<1>3. parts * c = c * parts /\ c * parts \in Int /\ (c + 1) * parts = c * parts + parts
  BY <1>1, Products
<1>4. n < (c + 1) * parts /\ c * parts <= n
  BY <1>1, <1>2, <1>3
<1>5. c >= least
  <2> SUFFICES ASSUME c + 1 <= least PROVE FALSE
    BY <1>1
  <2>1. (c + 1) * parts <= least * parts
    BY <1>1, Products
  <2>2. (c + 1) * parts \in Int /\ least * parts \in Int
    BY <1>1
  <2> QED
    BY <1>4, <2>1, <2>2
<1> QED
  BY <1>1, <1>4, <1>5 DEF c

\* A window lies within the candles, and its test slice within it.
LEMMA WindowLies ==
    ASSUME NEW n \in Nat, n >= (Warmup + Duration + 1) * NWindows,
           NEW w \in 1..NWindows
    PROVE  LET window == Windows(n)[w]
           IN  window.split \in 1..n /\ window.end \in 0..n
<1> DEFINE chunk == n \div NWindows
           start == (w - 1) * chunk
           end   == IF w = NWindows THEN n ELSE start + chunk
           slice == ((end - start) * TrainTenths) \div 10
<1>1. /\ NWindows \in Nat \ {0} /\ Warmup \in Nat /\ Duration \in Nat \ {0}
      /\ TrainTenths \in 1..9
  BY BacktestAssumption
<1>2. chunk \in Nat /\ chunk * NWindows <= n /\ chunk >= Warmup + Duration + 1
  BY <1>1, Chunks
<1> HIDE DEF chunk
<1>3. start \in Nat /\ start + chunk = w * chunk /\ w * chunk <= n
  <2>1. w - 1 \in Nat /\ w \in Nat /\ w <= NWindows
    BY <1>1
  <2>2. w * chunk <= NWindows * chunk /\ w * chunk \in Int /\ NWindows * chunk \in Int
    BY <1>1, <1>2, <2>1, Products
  <2>3. (w - 1) * chunk \in Nat /\ (w - 1 + 1) * chunk = (w - 1) * chunk + chunk
    BY <1>2, <2>1, Products
  <2>4. w - 1 + 1 = w /\ NWindows * chunk = chunk * NWindows
    BY <1>1, <1>2, <2>1
  <2> QED
    BY <1>2, <2>2, <2>3, <2>4
<1> HIDE DEF start
<1>4. end \in 0..n /\ start + 1 <= end
  BY <1>1, <1>2, <1>3
<1> HIDE DEF end
<1>5. slice \in Nat /\ slice <= end - start
  <2>1. end - start \in Nat
    BY <1>3, <1>4
  <2>2. (end - start) * TrainTenths <= (end - start) * 10
    BY <1>1, <2>1
  <2>3. (end - start) * TrainTenths \in Nat
    BY <1>1, <2>1
  <2> QED
    BY <2>1, <2>2, <2>3
<1> HIDE DEF slice
<1>6. Greater(start + slice, start + 1) \in 1..n
  BY <1>3, <1>4, <1>5 DEF Greater
<1>7. Windows(n)[w] = [start |-> start, end |-> end, split |-> Greater(start + slice, start + 1)]
  BY DEF Windows, chunk, start, end, slice
<1> QED
  BY <1>4, <1>6, <1>7

\* The back-tests of the first report.
LEMMA RealPlan ==
    ASSUME NEW n \in Nat
    PROVE  LET plan == RealJobs(n)
           IN  /\ IsSeq(plan) /\ plan # <<>> /\ Len(plan) >= 1
               /\ plan[1] = Job(Reported, Warmup, n)
               /\ \A k \in 1..Len(plan) : FitsIn(plan[k], n) /\ plan[k].strategy = Reported
               /\ Len(plan) > 1 =>
                    /\ n >= (Warmup + Duration + 1) * NWindows
                    /\ Len(plan) = NWindows + 1
                    /\ \A w \in 1..NWindows :
                          plan[w + 1] = Job(Reported, Greater(Warmup, Windows(n)[w].split),
                                            Windows(n)[w].end)
<1> DEFINE plan  == RealJobs(n)
           whole == Job(Reported, Warmup, n)
           one   == <<whole>>
           rest  == IF n >= (Warmup + Duration + 1) * NWindows THEN WindowJobs(n) ELSE <<>>
<1>1. NWindows \in Nat \ {0} /\ Warmup \in Nat /\ Duration \in Nat \ {0}
  BY BacktestAssumption
<1>2. plan = one \o rest
  BY DEF RealJobs
<1>3. /\ IsSeq(WindowJobs(n)) /\ Len(WindowJobs(n)) = NWindows
      /\ \A w \in 1..NWindows :
            WindowJobs(n)[w] = Job(Reported, Greater(Warmup, Windows(n)[w].split),
                                   Windows(n)[w].end)
  <2> DEFINE f == WindowJobs(n)
  <2>1. f = [w \in 1..NWindows |-> Job(Reported, Greater(Warmup, Windows(n)[w].split),
                                       Windows(n)[w].end)]
    BY DEF WindowJobs
  <2> HIDE DEF f
  <2>2. f = [w \in 1..NWindows |-> f[w]]
    BY <2>1
  <2>3. IsSeq(f) /\ Len(f) = NWindows
    BY <1>1, <2>2, ListIsSeq
  <2> QED
    BY <2>1, <2>3 DEF f
<1>4. IsSeq(rest) /\ Len(rest) \in Nat
  BY <1>1, <1>3, EmptyIsSeq
<1>5. IsSeq(one) /\ Len(one) = 1 /\ one[1] = whole
  BY DEF IsSeq, Elems
<1> HIDE DEF plan, one, rest, whole
<1>6. /\ IsSeq(plan) /\ Len(plan) = 1 + Len(rest) /\ plan[1] = whole
      /\ \A i \in 1..Len(rest) : plan[1 + i] = rest[i]
  <2>0. IsSeq(one) /\ IsSeq(rest)
    BY <1>4, <1>5
  <2>1. /\ IsSeq(one \o rest) /\ Len(one \o rest) = Len(one) + Len(rest)
        /\ \A i \in 1..Len(one) : (one \o rest)[i] = one[i]
        /\ \A i \in 1..Len(rest) : (one \o rest)[Len(one) + i] = rest[i]
    BY <2>0, Joined
  <2>2. 1 \in 1..Len(one)
    BY <1>5
  <2> QED
    BY <1>2, <1>5, <2>1, <2>2
<1>7. FitsIn(whole, n) /\ whole.strategy = Reported
  BY <1>1 DEF FitsIn, whole, Job, Greater
<1>8. ASSUME n >= (Warmup + Duration + 1) * NWindows, NEW w \in 1..NWindows
      PROVE  FitsIn(WindowJobs(n)[w], n) /\ WindowJobs(n)[w].strategy = Reported
  <2>1. Windows(n)[w].split \in 1..n /\ Windows(n)[w].end \in 0..n
    BY <1>8, WindowLies
  <2> DEFINE first == Greater(Warmup, Windows(n)[w].split)
  <2>2. first \in Nat /\ Warmup <= first /\ first <= Greater(n, Warmup)
    BY <1>1, <2>1 DEF Greater
  <2>3. WindowJobs(n)[w] = Job(Reported, first, Windows(n)[w].end)
    BY <1>3
  <2> HIDE DEF first
  <2> QED
    BY <2>1, <2>2, <2>3 DEF FitsIn, Job
<1>9. CASE n >= (Warmup + Duration + 1) * NWindows
  <2>1. rest = WindowJobs(n) /\ Len(rest) = NWindows
    BY <1>3, <1>9 DEF rest
  <2>2. \A k \in 1..Len(plan) : k = 1 \/ (k - 1 \in 1..NWindows /\ k = 1 + (k - 1))
    BY <1>1, <1>6, <2>1
  <2>3. \A k \in 1..Len(plan) : FitsIn(plan[k], n) /\ plan[k].strategy = Reported
    BY <1>6, <1>7, <1>8, <1>9, <2>1, <2>2
  <2>4. \A w \in 1..NWindows : w + 1 = 1 + w /\ plan[w + 1] = WindowJobs(n)[w]
    BY <1>6, <2>1
  <2>5. Len(plan) = NWindows + 1 /\ Len(plan) >= 1 /\ plan # <<>>
    BY <1>1, <1>6, <2>1, EmptyIsSeq
  <2> QED
    BY <1>3, <1>6, <1>9, <2>3, <2>4, <2>5 DEF plan, whole
<1>10. CASE ~(n >= (Warmup + Duration + 1) * NWindows)
  <2>1. rest = <<>> /\ Len(plan) = 1 /\ plan # <<>>
    BY <1>6, <1>10, EmptyIsSeq DEF rest
  <2>2. \A k \in 1..Len(plan) : FitsIn(plan[k], n) /\ plan[k].strategy = Reported
    BY <1>6, <1>7, <2>1
  <2> QED
    BY <1>6, <2>1, <2>2 DEF plan, whole
<1> QED
  BY <1>9, <1>10

\* The end of the training slice.
LEMMA TrainEndLies == ASSUME NEW n \in Nat PROVE TrainEnd(n) \in 0..n
<1>1. n * TrainTenths \in Nat /\ n * TrainTenths <= n * 10
  BY BacktestAssumption
<1> QED
  BY <1>1 DEF TrainEnd

\* The back-tests of the report on the model.
LEMMA ModelPlan ==
    ASSUME NEW n \in Nat
    PROVE  LET plan == ModelJobs(n)
           IN  /\ IsSeq(plan) /\ Len(plan) >= 1
               /\ plan[1].strategy = "model"
               /\ \A k \in 1..Len(plan) : /\ FitsIn(plan[k], n) /\ plan[k].end = n
                                          /\ plan[k].first = Greater(Warmup, TrainEnd(n))
<1> DEFINE plan  == ModelJobs(n)
           count == 1 + Len(Baselines)
<1>1. Warmup \in Nat /\ Len(Baselines) \in Nat
  BY BacktestAssumption
<1>2. plan = [k \in 1..count |->
                Job(IF k = 1 THEN "model" ELSE Baselines[k - 1],
                    Greater(Warmup, TrainEnd(n)), n)]
  BY DEF ModelJobs
<1>3. count \in Nat /\ count >= 1
  BY <1>1
<1> HIDE DEF plan, count
<1>4. plan = [k \in 1..count |-> plan[k]]
  BY <1>2
<1>5. IsSeq(plan) /\ Len(plan) = count
  BY <1>3, <1>4, ListIsSeq
<1> DEFINE first == Greater(Warmup, TrainEnd(n))
<1>6. first \in Nat /\ Warmup <= first /\ first <= Greater(n, Warmup)
  BY <1>1, TrainEndLies DEF Greater
<1> HIDE DEF first
<1>7. \A k \in 1..count : plan[k].first = first /\ plan[k].end = n
  BY <1>2 DEF Job, first
<1>8. 1 \in 1..count /\ plan[1].strategy = "model"
  BY <1>2, <1>3 DEF Job
<1>9. \A k \in 1..count : FitsIn(plan[k], n)
  BY <1>6, <1>7 DEF FitsIn
<1> QED
  BY <1>3, <1>5, <1>7, <1>8, <1>9 DEF plan, first

\* What a report loads.
LEMMA LoadedIsSeq ==
    ASSUME IsSeq(stored)
    PROVE  IsSeq(Loaded) /\ Len(Loaded) \in Nat
<1> DEFINE m == Greater(1, Len(stored) - MaxCandles + 1)
<1>1. Len(stored) \in Nat /\ MaxCandles \in Nat \ {0}
  BY SeqFacts, BacktestAssumption
<1>2. m \in 1..Len(stored) + 1
  BY <1>1 DEF Greater
<1> HIDE DEF m
<1>3. IsSeq(SubSeq(stored, m, Len(stored))) /\ Len(SubSeq(stored, m, Len(stored))) = Len(stored) - m + 1
  BY <1>2, Part
<1> QED
  BY <1>1, <1>2, <1>3 DEF Loaded, m

-----------------------------------------------------------------------------
(* The next state, part by part.                                           *)

\* Of the same candles and labels, what was counted stays so.
LEMMA FinishedNext ==
    ASSUME series' = series, labels' = labels, NEW rs, results' = rs,
           \A k \in DOMAIN rs : Counted(rs[k])
    PROVE  FinishedInv'
BY DEF FinishedInv, Counted, Fits, FitsIn, Stop, LastEntry, Walked, SaidAt, Fitted, Seen,
       Resolved, Candle, PassesGate, Greater

\* The same for the back-test under way.
LEMMA RunningNext ==
    ASSUME series' = series, labels' = labels,
           NEW js, jobs' = js, NEW n \in Nat, at' = n, NEW ts, trades' = ts,
           NEW m \in Nat, skipped' = m,
           js = <<>> => n = 0 /\ ts = <<>> /\ m = 0,
           js # <<>> => /\ n \in Head(js).first..Stop(Head(js))
                        /\ Len(ts) + m = n - Head(js).first
                        /\ Walked(Head(js), n, ts)
    PROVE  RunningInv'
BY DEF RunningInv, Current, Stop, LastEntry, Walked, SaidAt, Fitted, Seen,
       Resolved, Candle, PassesGate, Greater

\* The plan depends on nothing but the number of candles.
LEMMA PlansNext ==
    ASSUME NEW n, Len(series)' = n
    PROVE  RealJobs(Len(series))' = RealJobs(n) /\ ModelJobs(Len(series))' = ModelJobs(n)
BY DEF RealJobs, WindowJobs, Windows, ModelJobs, TrainEnd, Job, Greater

\* A back-test that is done moves from what is to come to what is finished.
LEMMA PlanMoves ==
    ASSUME NEW plan, PlanIs(plan), IsSeq(jobs), IsSeq(results), jobs # <<>>,
           NEW result, result.job = Head(jobs),
           results' = Append(results, result), jobs' = Tail(jobs)
    PROVE  PlanIs(plan)'
<1>1. /\ Len(jobs) \in Nat \ {0} /\ DOMAIN jobs = 1..Len(jobs) /\ Head(jobs) = jobs[1]
      /\ IsSeq(jobs') /\ Len(jobs') = Len(jobs) - 1
      /\ \A i \in 1..Len(jobs) - 1 : jobs'[i] = jobs[i + 1]
  BY Rest
<1>2. /\ Len(results) \in Nat /\ DOMAIN results = 1..Len(results)
      /\ IsSeq(results') /\ Len(results') = Len(results) + 1
      /\ \A i \in 1..Len(results) : results'[i] = results[i]
      /\ results'[Len(results) + 1] = result
  BY Appended, SeqFacts
<1>3. DOMAIN jobs' = 1..Len(jobs') /\ DOMAIN results' = 1..Len(results')
  BY <1>1, <1>2, SeqFacts
<1>4. Len(results)' + Len(jobs)' = Len(plan)
  BY <1>1, <1>2 DEF PlanIs
<1>5. ASSUME NEW k \in DOMAIN results' PROVE results'[k].job = plan[k]
  <2>1. CASE k \in 1..Len(results)
    BY <1>2, <2>1 DEF PlanIs
  <2>2. CASE k = Len(results) + 1
    <3>1. 1 \in DOMAIN jobs
      BY <1>1
    <3>2. jobs[1] = plan[Len(results) + 1]
      BY <3>1 DEF PlanIs
    <3> QED
      BY <1>1, <1>2, <2>2, <3>2
  <2> QED
    BY <1>2, <1>3, <2>1, <2>2
<1>6. ASSUME NEW k \in DOMAIN jobs' PROVE jobs'[k] = plan[Len(results') + k]
  <2>1. k \in 1..Len(jobs) - 1 /\ k + 1 \in DOMAIN jobs
    BY <1>1, <1>3
  <2>2. jobs'[k] = jobs[k + 1] /\ jobs[k + 1] = plan[Len(results) + (k + 1)]
    BY <1>1, <2>1 DEF PlanIs
  <2>3. Len(results) + (k + 1) = Len(results') + k
    BY <1>2, <2>1
  <2> QED
    BY <2>2, <2>3
<1> QED
  BY <1>4, <1>5, <1>6 DEF PlanIs

\* At the start of a report all is to come.
LEMMA PlanStarts ==
    ASSUME NEW plan, IsSeq(plan), results' = <<>>, jobs' = plan
    PROVE  PlanIs(plan)'
<1>1. Len(plan) \in Nat /\ DOMAIN plan = 1..Len(plan) /\ Len(<<>>) = 0
  BY SeqFacts, EmptyIsSeq
<1>2. \A k \in DOMAIN <<>> : FALSE
  BY EmptyIsSeq, SeqFacts
<1>3. Len(results') + Len(jobs') = Len(plan)
  BY <1>1
<1>4. \A k \in DOMAIN jobs' : jobs'[k] = plan[Len(results') + k]
  BY <1>1
<1>5. \A k \in DOMAIN results' : results'[k].job = plan[k]
  BY <1>2
<1> QED
  BY <1>3, <1>4, <1>5 DEF PlanIs

-----------------------------------------------------------------------------
(* Every step keeps the invariant.                                         *)

\* It holds when a back-test starts.
LEMMA StartBacktest == Init => BacktestInv
<1> SUFFICES ASSUME Init PROVE BacktestInv
  OBVIOUS
<1>1. IsSeq(<<>>) /\ Len(<<>>) = 0 /\ DOMAIN <<>> = 1..0
  BY EmptyIsSeq, SeqFacts
<1>2. \A k \in DOMAIN <<>> : FALSE
  BY <1>1
<1>3. RunningInv /\ FinishedInv /\ ModelInv
  BY <1>2 DEF Init, RunningInv, FinishedInv, ModelInv
<1>4. PlanInv
  BY DEF Init, PlanInv
<1> QED
  BY <1>1, <1>2, <1>3, <1>4 DEF Init, BacktestInv

\* A candle that is stored changes nothing a report has loaded.
LEMMA CandleKeeps ==
    ASSUME BacktestInv, NEW price, CandleStored(price) PROVE BacktestInv'
<1>1. IsSeq(stored') /\ UNCHANGED reports
  BY Appended DEF CandleStored, BacktestInv
<1>2. /\ phase' = phase /\ series' = series /\ jobs' = jobs /\ at' = at /\ trades' = trades
      /\ skipped' = skipped /\ results' = results /\ labels' = labels /\ approved' = approved
  BY <1>1 DEF reports
<1>3. RunningInv'
  BY <1>2, RunningNext DEF BacktestInv, RunningInv, Current
<1>4. FinishedInv'
  BY <1>2, FinishedNext DEF BacktestInv, FinishedInv
<1>5. PlanInv'
  BY <1>2, PlansNext DEF BacktestInv, PlanInv, PlanIs, LabelsOf, TrainEnd, Greater
<1>6. ModelInv' /\ \A k \in DOMAIN jobs' : Fits(jobs[k])'
  BY <1>2 DEF BacktestInv, ModelInv, TrainedOn, TrainEnd, LabelsOf, Greater, Fits, FitsIn
<1> QED
  BY <1>1, <1>2, <1>3, <1>4, <1>5, <1>6 DEF BacktestInv

\* A back-test that has not passed its last index has not come to its stop.
LEMMA NotYet ==
    ASSUME NEW job, FitsIn(job, Len(series)), NEW n \in Int, job.first <= n
    PROVE  /\ Stop(job) \in Int /\ job.first <= Stop(job) /\ LastEntry(job) \in Int
           /\ n <= LastEntry(job) => n + 1 <= Stop(job)
           /\ n > LastEntry(job) /\ n <= Stop(job) => n = Stop(job)
<1>1. job.first \in Nat /\ job.end \in Int /\ Duration \in Nat
  BY BacktestAssumption DEF FitsIn
<1> QED
  BY <1>1 DEF Stop, LastEntry, Greater

\* One index more is walked.
LEMMA WalkKeeps == ASSUME BacktestInv, Walk PROVE BacktestInv'
<1> DEFINE job == Head(jobs)
<1>1. /\ jobs # <<>> /\ at <= LastEntry(job) /\ at' = at + 1
      /\ series' = series /\ jobs' = jobs /\ results' = results /\ labels' = labels
      /\ phase' = phase /\ stored' = stored /\ approved' = approved
  BY DEF Walk, Current
<1>2. \/ /\ PassesGate(SaidAt(job, at)) /\ skipped' = skipped
         /\ trades' = Append(trades, Resolved(at, SaidAt(job, at).direction))
      \/ ~PassesGate(SaidAt(job, at)) /\ skipped' = skipped + 1 /\ trades' = trades
  BY DEF Walk, Current, SaidAt
<1>3. Fits(job) /\ 1 \in DOMAIN jobs
  <2>1. /\ job = jobs[1] /\ 1 \in DOMAIN jobs
    BY <1>1, Rest DEF BacktestInv
  <2> HIDE DEF job
  <2> QED
    BY <2>1 DEF BacktestInv
<1>4. /\ at \in job.first..Stop(job) /\ at \in Nat /\ skipped \in Nat
      /\ Len(trades) + skipped = at - job.first
      /\ Walked(job, at, trades)
  BY <1>1 DEF BacktestInv, RunningInv, Current
<1> HIDE DEF job
<1>5. job.first \in Nat /\ job.first <= at /\ at + 1 <= Stop(job) /\ Stop(job) \in Int
  <2>1. job.first \in Nat /\ FitsIn(job, Len(series)) /\ at \in Int
    BY <1>3, <1>4 DEF Fits, FitsIn
  <2>2. Stop(job) \in Int
    <3>1. job.end \in Int /\ Duration \in Nat
      BY <1>3, BacktestAssumption DEF Fits, FitsIn
    <3> QED
      BY <2>1, <3>1 DEF Stop, LastEntry, Greater
  <2>3. job.first <= at
    BY <1>4, <2>1, <2>2
  <2> QED
    BY <1>1, <2>1, <2>2, <2>3, NotYet
<1>6. Len(trades) \in Nat /\ IsSeq(trades)
  BY <1>4, SeqFacts DEF Walked
<1>7. /\ Walked(job, at + 1, trades') /\ skipped' \in Nat
      /\ Len(trades') + skipped' = at + 1 - job.first
  <2>1. at \in Nat /\ skipped \in Nat /\ Len(trades) + skipped = at - job.first
    BY <1>4
  <2> DEFINE OneMore(a, b, c, d) == a + b = c - d => /\ a + 1 + b = c + 1 - d
                                                    /\ a + (b + 1) = c + 1 - d
  <2>2. \A a, b, c, d \in Int : OneMore(a, b, c, d)
    OBVIOUS
  <2>3. /\ Len(trades) \in Int /\ skipped \in Int /\ skipped + 1 \in Nat
        /\ at \in Int /\ job.first \in Int
    BY <1>5, <1>6, <2>1
  <2>4. OneMore(Len(trades), skipped, at, job.first)
    BY <2>2, <2>3
  <2>5. Len(trades) + 1 + skipped = at + 1 - job.first
    BY <2>1, <2>4
  <2>6. Len(trades) + (skipped + 1) = at + 1 - job.first /\ skipped + 1 \in Nat
    BY <2>1, <2>3, <2>4
  <2> HIDE DEF OneMore
  <2>7. CASE PassesGate(SaidAt(job, at))
    <3>1. skipped' = skipped /\ trades' = Append(trades, Resolved(at, SaidAt(job, at).direction))
      BY <1>2, <2>7
    <3>2. Len(trades') = Len(trades) + 1
      BY <1>6, <3>1, Appended
    <3>3. Walked(job, at + 1, trades')
      BY <1>4, <1>5, <2>7, <3>1, WalkTrades
    <3>4. Len(trades') + skipped' = at + 1 - job.first
      BY <2>1, <2>5, <3>1, <3>2
    <3> QED
      BY <2>1, <3>1, <3>3, <3>4
  <2>8. CASE ~PassesGate(SaidAt(job, at))
    <3>1. skipped' = skipped + 1 /\ trades' = trades
      BY <1>2, <2>8
    <3>2. Walked(job, at + 1, trades')
      BY <1>4, <1>5, <2>8, <3>1, WalkSkips
    <3>3. skipped' \in Nat /\ Len(trades') + skipped' = at + 1 - job.first
      BY <2>1, <2>6, <3>1
    <3> QED
      BY <3>2, <3>3
  <2> QED
    BY <2>7, <2>8
<1>8. RunningInv'
  <2> DEFINE n == at + 1
             m == skipped'
             ts == trades'
             js == jobs
  <2>1. /\ n \in Nat /\ m \in Nat /\ js # <<>> /\ Head(js) = job
        /\ n \in job.first..Stop(job) /\ Len(ts) + m = n - job.first
        /\ Walked(job, n, ts)
    BY <1>1, <1>4, <1>5, <1>7 DEF job
  <2>2. jobs' = js /\ at' = n /\ trades' = ts /\ skipped' = m
    BY <1>1
  <2> HIDE DEF n, m, ts, js
  <2> QED
    BY <1>1, <2>1, <2>2, RunningNext
<1>9. FinishedInv'
  BY <1>1, FinishedNext DEF BacktestInv, FinishedInv
<1>10. PlanInv'
  BY <1>1, <1>3, PlansNext DEF BacktestInv, PlanInv, PlanIs, LabelsOf, TrainEnd, Greater
<1>11. ModelInv' /\ \A k \in DOMAIN jobs' : Fits(jobs[k])'
  BY <1>1 DEF BacktestInv, ModelInv, TrainedOn, TrainEnd, LabelsOf, Greater, Fits, FitsIn
<1> QED
  BY <1>1, <1>8, <1>9, <1>10, <1>11 DEF BacktestInv

\* A back-test is done, and the next begins.
LEMMA DoneKeeps == ASSUME BacktestInv, BacktestDone PROVE BacktestInv'
<1> DEFINE job    == Head(jobs)
           result == [job |-> job, trades |-> trades, skipped |-> skipped]
           next   == Tail(jobs)
           start  == IF next = <<>> THEN 0 ELSE Head(next).first
<1>1. /\ jobs # <<>> /\ at > LastEntry(job)
      /\ results' = Append(results, result)
      /\ jobs' = next /\ at' = start /\ trades' = <<>> /\ skipped' = 0
      /\ series' = series /\ labels' = labels
      /\ phase' = phase /\ stored' = stored /\ approved' = approved
  BY DEF BacktestDone, Current
<1>2. /\ Len(jobs) \in Nat \ {0} /\ DOMAIN jobs = 1..Len(jobs) /\ job = jobs[1]
      /\ IsSeq(next) /\ Len(next) = Len(jobs) - 1
      /\ \A i \in 1..Len(jobs) - 1 : next[i] = jobs[i + 1]
  BY <1>1, Rest DEF BacktestInv
<1>3. Fits(job) /\ TrainedOn(job)
  <2>1. job = jobs[1] /\ 1 \in DOMAIN jobs
    BY <1>2
  <2> HIDE DEF job
  <2> QED
    BY <2>1 DEF BacktestInv, ModelInv
<1>4. /\ at \in job.first..Stop(job) /\ at \in Nat /\ skipped \in Nat
      /\ Len(trades) + skipped = at - job.first
      /\ Walked(job, at, trades)
  BY <1>1 DEF BacktestInv, RunningInv, Current
<1>5. DOMAIN next = 1..Len(jobs) - 1
  BY <1>2, SeqFacts
<1>6. \A k \in DOMAIN next : Fits(next[k]) /\ TrainedOn(next[k])
  <2> TAKE k \in DOMAIN next
  <2>1. k \in 1..Len(jobs) - 1 /\ k + 1 \in DOMAIN jobs
    BY <1>2, <1>5
  <2>2. next[k] = jobs[k + 1]
    BY <1>2, <2>1
  <2> HIDE DEF next
  <2> QED
    BY <2>1, <2>2 DEF BacktestInv, ModelInv
<1> HIDE DEF job
<1>7. result.job = job /\ result.trades = trades /\ result.skipped = skipped
  OBVIOUS
<1> HIDE DEF result
<1>8. at = Stop(job)
  <2>1. job.first \in Nat /\ FitsIn(job, Len(series)) /\ at \in Int
    BY <1>3, <1>4 DEF Fits, FitsIn
  <2>2. Stop(job) \in Int /\ LastEntry(job) \in Int
    BY <2>1, NotYet
  <2>3. job.first <= at /\ at <= Stop(job)
    BY <1>4, <2>1, <2>2
  <2> QED
    BY <1>1, <2>1, <2>3, NotYet
<1>9. Counted(result)
  BY <1>3, <1>4, <1>7, <1>8 DEF Counted
<1>10. /\ IsSeq(results) /\ DOMAIN results = 1..Len(results) /\ Len(results) \in Nat
       /\ IsSeq(results') /\ DOMAIN results' = 1..Len(results) + 1
       /\ \A i \in 1..Len(results) : results'[i] = results[i]
       /\ results'[Len(results) + 1] = result
  <2>1. IsSeq(results)
    BY DEF BacktestInv
  <2>2. IsSeq(results') /\ Len(results') = Len(results) + 1
    BY <1>1, <2>1, Appended
  <2> QED
    BY <1>1, <2>1, <2>2, Appended, SeqFacts
<1>11. FinishedInv'
  <2> DEFINE rs == results'
  <2>1. ASSUME NEW k \in DOMAIN rs PROVE Counted(rs[k])
    <3>1. CASE k \in 1..Len(results)
      <4>1. k \in DOMAIN results /\ rs[k] = results[k]
        BY <1>10, <3>1
      <4> HIDE DEF rs
      <4> QED
        BY <4>1 DEF BacktestInv, FinishedInv
    <3>2. CASE k = Len(results) + 1
      <4>1. rs[k] = result
        BY <1>10, <3>2
      <4> HIDE DEF rs
      <4> QED
        BY <1>9, <4>1
    <3> QED
      BY <1>10, <3>1, <3>2
  <2>2. results' = rs
    OBVIOUS
  <2> HIDE DEF rs
  <2> QED
    BY <1>1, <2>1, <2>2, FinishedNext
<1>12. RunningInv'
  <2> DEFINE js == next
             n  == start
             m  == 0
             ts == <<>>
  <2>1. \A k \in DOMAIN js : Fits(js[k])
    BY <1>6
  <2>2. js # <<>> => n = Head(js).first /\ Head(js) = js[1] /\ 1 \in DOMAIN js
    BY <1>2, Rest
  <2>3. js = <<>> => n = 0
    OBVIOUS
  <2>4. jobs' = js /\ at' = n /\ trades' = ts /\ skipped' = m
    BY <1>1
  <2>5. m \in Nat /\ m = 0 /\ ts = <<>> /\ Len(ts) = 0
    BY EmptyIsSeq
  <2> HIDE DEF n, m, ts, js
  <2>6. CASE js = <<>>
    BY <1>1, <2>3, <2>4, <2>5, <2>6, RunningNext
  <2>7. CASE js # <<>>
    <3>1. Fits(Head(js)) /\ n = Head(js).first
      BY <2>1, <2>2, <2>7
    <3>2. n \in Nat /\ FitsIn(Head(js), Len(series))
      BY <3>1 DEF Fits, FitsIn
    <3>3. Stop(Head(js)) \in Int /\ Head(js).first <= Stop(Head(js))
      BY <3>1, <3>2, NotYet
    <3>4. Walked(Head(js), n, ts)
      BY <2>5, <3>1, <3>2, WalkBegins
    <3>5. n \in Head(js).first..Stop(Head(js)) /\ Len(ts) + m = n - Head(js).first
      BY <2>5, <3>1, <3>2, <3>3
    <3> QED
      BY <1>1, <2>4, <2>5, <2>7, <3>2, <3>4, <3>5, RunningNext
  <2> QED
    BY <2>6, <2>7
<1>13. PlanInv'
  <2>1. \A plan : PlanIs(plan) => PlanIs(plan)'
    BY <1>1, <1>7, PlanMoves DEF BacktestInv, job
  <2>2. Len(series)' = Len(series) /\ phase \notin {"idle", "between", "done", "raised"}
    BY <1>1 DEF BacktestInv, PlanInv
  <2>3. phase \in {"real", "model"}
    BY <2>2 DEF BacktestInv
  <2>4. \A plan : plan = RealJobs(Len(series)) => RealJobs(Len(series))' = plan
    BY <2>2, PlansNext
  <2>5. \A plan : plan = ModelJobs(Len(series)) => ModelJobs(Len(series))' = plan
    BY <2>2, PlansNext
  <2>6. labels' = <<>> \/ labels' = LabelsOf(series')
    BY <1>1 DEF BacktestInv, PlanInv, LabelsOf, TrainEnd, Greater
  <2>7. CASE phase = "real"
    <3>1. PlanIs(RealJobs(Len(series))) /\ labels = <<>>
      BY <2>7 DEF BacktestInv, PlanInv
    <3> DEFINE plan == RealJobs(Len(series))
    <3>2. PICK p : p = plan
      OBVIOUS
    <3>3. PlanIs(p)' /\ RealJobs(Len(series))' = p
      BY <2>1, <2>4, <3>1, <3>2
    <3>4. PlanIs(RealJobs(Len(series)))'
      BY <3>3 DEF PlanIs
    <3> QED
      BY <1>1, <2>6, <2>7, <3>1, <3>4 DEF PlanInv, LabelsOf, TrainEnd, Greater
  <2>8. CASE phase = "model"
    <3>1. PlanIs(ModelJobs(Len(series)))
      BY <2>8 DEF BacktestInv, PlanInv
    <3> DEFINE plan == ModelJobs(Len(series))
    <3>2. PICK p : p = plan
      OBVIOUS
    <3>3. PlanIs(p)' /\ ModelJobs(Len(series))' = p
      BY <2>1, <2>5, <3>1, <3>2
    <3>4. PlanIs(ModelJobs(Len(series)))'
      BY <3>3 DEF PlanIs
    <3> QED
      BY <1>1, <2>6, <2>8, <3>4 DEF PlanInv, LabelsOf, TrainEnd, Greater
  <2> QED
    BY <2>3, <2>7, <2>8
<1>14. ModelInv'
  <2>1. \A k \in DOMAIN results' : \E j : j = results'[k].job /\ TrainedOn(j)
    <3> TAKE k \in DOMAIN results'
    <3>1. CASE k \in 1..Len(results)
      <4>1. k \in DOMAIN results /\ results'[k] = results[k]
        BY <1>10, <3>1
      <4> QED
        BY <4>1 DEF BacktestInv, ModelInv
    <3>2. CASE k = Len(results) + 1
      BY <1>3, <1>7, <1>10, <3>2
    <3> QED
      BY <1>10, <3>1, <3>2
  <2>2. \A k \in DOMAIN jobs' : \E j : j = jobs'[k] /\ TrainedOn(j)
    BY <1>1, <1>6
  <2> QED
    BY <1>1, <2>1, <2>2 DEF ModelInv, TrainedOn, TrainEnd, LabelsOf, Greater
<1>15. \A k \in DOMAIN jobs' : Fits(jobs[k])'
  BY <1>1, <1>6 DEF Fits, FitsIn, Greater
<1>16. IsSeq(jobs') /\ IsSeq(results') /\ IsSeq(series') /\ IsSeq(stored')
  BY <1>1, <1>2, <1>10 DEF BacktestInv
<1> QED
  BY <1>1, <1>11, <1>12, <1>13, <1>14, <1>15, <1>16 DEF BacktestInv

\* A report begins with back-tests that fit the candles it has loaded.
LEMMA Beginning ==
    ASSUME NEW candles, IsSeq(candles), NEW todo, IsSeq(todo), Begins(candles, todo),
           BacktestInv, \A k \in DOMAIN todo : FitsIn(todo[k], Len(candles))
    PROVE  /\ RunningInv' /\ FinishedInv' /\ results' = <<>> /\ jobs' = todo
           /\ series' = candles /\ stored' = stored
           /\ IsSeq(stored') /\ IsSeq(series') /\ IsSeq(jobs') /\ IsSeq(results')
           /\ \A k \in DOMAIN jobs' : Fits(jobs[k])'
<1> DEFINE start == IF todo = <<>> THEN 0 ELSE Head(todo).first
<1>1. /\ series' = candles /\ jobs' = todo /\ at' = start /\ trades' = <<>> /\ skipped' = 0
      /\ results' = <<>> /\ stored' = stored
  BY DEF Begins
<1> HIDE DEF start
<1>2. IsSeq(<<>>) /\ Len(<<>>) = 0 /\ \A k \in DOMAIN <<>> : FALSE
  BY EmptyIsSeq, SeqFacts
<1>3. \A k \in DOMAIN jobs' : Fits(jobs[k])'
  BY <1>1 DEF Fits, FitsIn, Greater
<1>4. FinishedInv'
  BY <1>1, <1>2 DEF FinishedInv
<1>5. ASSUME todo = <<>> PROVE RunningInv'
  BY <1>1, <1>2, <1>5 DEF RunningInv, start
<1>6. ASSUME todo # <<>> PROVE RunningInv'
  <2> DEFINE job == Head(todo)
  <2>1. job = todo[1] /\ 1 \in DOMAIN todo
    BY <1>6, Rest
  <2>2. start = job.first
    BY <1>6 DEF start
  <2> HIDE DEF job
  <2>3. FitsIn(job, Len(candles))
    BY <2>1
  <2>4. job.first \in Nat /\ job.end \in Int /\ Duration \in Nat
    BY <2>3, BacktestAssumption DEF FitsIn
  <2>5. Current' = job /\ jobs' # <<>>
    BY <1>1, <1>6 DEF Current, job
  <2>6. at' \in Current'.first..Stop(Current)'
    BY <1>1, <2>2, <2>4, <2>5 DEF Stop, LastEntry, Greater
  <2>7. Len(trades') + skipped' = at' - Current'.first
    BY <1>1, <1>2, <2>2, <2>4, <2>5
  <2>8. Walked(Current, at, trades)'
    <3>1. job.first..(job.first - 1) = {}
      BY <2>4
    <3>2. \A e \in job.first..(job.first - 1) : FALSE
      BY <3>1
    <3>3. at' = job.first
      BY <1>1, <2>2
    <3> QED
      BY <1>1, <1>2, <2>5, <3>2, <3>3 DEF Walked
  <2> QED
    BY <1>1, <2>2, <2>4, <2>5, <2>6, <2>7, <2>8 DEF RunningInv
<1> QED
  BY <1>1, <1>2, <1>3, <1>4, <1>5, <1>6 DEF BacktestInv

\* The first report begins.
LEMMA LoadRealKeeps == ASSUME BacktestInv, LoadReal PROVE BacktestInv'
<1> DEFINE candles == Loaded
           todo    == RealJobs(Len(candles))
<1>1. /\ phase = "idle" /\ phase' = "real" /\ Begins(candles, todo)
      /\ labels' = labels /\ approved' = approved
  BY DEF LoadReal
<1>2. IsSeq(candles) /\ Len(candles) \in Nat
  BY LoadedIsSeq DEF BacktestInv
<1> HIDE DEF candles
<1>3. /\ IsSeq(todo) /\ DOMAIN todo = 1..Len(todo)
      /\ \A k \in 1..Len(todo) : FitsIn(todo[k], Len(candles)) /\ todo[k].strategy = Reported
  BY <1>2, RealPlan, SeqFacts
<1> HIDE DEF todo
<1>4. /\ RunningInv' /\ FinishedInv' /\ results' = <<>> /\ jobs' = todo
      /\ series' = candles
      /\ IsSeq(stored') /\ IsSeq(series') /\ IsSeq(jobs') /\ IsSeq(results')
      /\ \A k \in DOMAIN jobs' : Fits(jobs[k])'
  BY <1>1, <1>2, <1>3, Beginning
<1>5. labels' = <<>>
  BY <1>1 DEF BacktestInv, PlanInv
<1>6. PlanIs(RealJobs(Len(series)))'
  <2>1. PICK p : p = todo
    OBVIOUS
  <2>2. PlanIs(p)'
    BY <1>3, <1>4, <2>1, PlanStarts
  <2>3. RealJobs(Len(series))' = p
    BY <1>4, <2>1, PlansNext DEF todo
  <2> QED
    BY <2>2, <2>3 DEF PlanIs
<1>7. PlanInv'
  BY <1>1, <1>5, <1>6 DEF PlanInv
<1>8. ModelInv'
  <2>1. \A k \in DOMAIN <<>> : FALSE
    BY EmptyIsSeq, SeqFacts
  <2>2. \A k \in DOMAIN jobs' : jobs'[k].strategy # "model"
    BY <1>3, <1>4, BacktestAssumption
  <2> QED
    BY <1>4, <2>1, <2>2 DEF ModelInv, TrainedOn
<1> QED
  BY <1>1, <1>4, <1>7, <1>8 DEF BacktestInv

\* The report on the model begins, or is made without one, or fails.
LEMMA LoadModelKeeps == ASSUME BacktestInv, LoadModel PROVE BacktestInv'
<1> DEFINE candles == Loaded
           plan    == ModelJobs(Len(candles))
<1>1. /\ labels' = LabelsOf(candles) /\ approved' = approved
      /\ \/ (phase' = "done" \/ phase' = "raised") /\ Begins(candles, <<>>)
         \/ phase' = "model" /\ Len(labels') >= MinExamples /\ Begins(candles, plan)
  BY DEF LoadModel
<1>2. IsSeq(candles) /\ Len(candles) \in Nat
  BY LoadedIsSeq DEF BacktestInv
<1> HIDE DEF candles
<1>3. IsSeq(<<>>) /\ \A k \in DOMAIN <<>> : FALSE
  BY EmptyIsSeq, SeqFacts
<1>4. CASE (phase' = "done" \/ phase' = "raised") /\ Begins(candles, <<>>)
  <2>1. \A k \in DOMAIN <<>> : FitsIn(<<>>[k], Len(candles))
    BY <1>3
  <2>2. /\ RunningInv' /\ FinishedInv' /\ results' = <<>> /\ jobs' = <<>>
        /\ series' = candles
        /\ IsSeq(stored') /\ IsSeq(series') /\ IsSeq(jobs') /\ IsSeq(results')
        /\ \A k \in DOMAIN jobs' : Fits(jobs[k])'
    BY <1>2, <1>3, <1>4, <2>1, Beginning
  <2>3. labels' = LabelsOf(series)'
    BY <1>1, <2>2 DEF LabelsOf, TrainEnd, Greater
  <2>4. PlanInv'
    BY <1>4, <2>2, <2>3 DEF PlanInv
  <2>5. ModelInv'
    BY <1>3, <2>2 DEF ModelInv
  <2> QED
    BY <1>1, <1>4, <2>2, <2>4, <2>5 DEF BacktestInv
<1>5. CASE phase' = "model" /\ Len(labels') >= MinExamples /\ Begins(candles, plan)
  <2>1. /\ IsSeq(plan) /\ DOMAIN plan = 1..Len(plan)
        /\ \A k \in 1..Len(plan) : /\ FitsIn(plan[k], Len(candles))
                                   /\ plan[k].first = Greater(Warmup, TrainEnd(Len(candles)))
    BY <1>2, ModelPlan, SeqFacts
  <2> HIDE DEF plan
  <2>2. /\ RunningInv' /\ FinishedInv' /\ results' = <<>> /\ jobs' = plan
        /\ series' = candles
        /\ IsSeq(stored') /\ IsSeq(series') /\ IsSeq(jobs') /\ IsSeq(results')
        /\ \A k \in DOMAIN jobs' : Fits(jobs[k])'
    BY <1>2, <1>5, <2>1, Beginning
  <2>3. labels' = LabelsOf(series)'
    BY <1>1, <2>2 DEF LabelsOf, TrainEnd, Greater
  <2>4. PlanIs(ModelJobs(Len(series)))'
    <3>1. PICK p : p = plan
      OBVIOUS
    <3>2. PlanIs(p)'
      BY <2>1, <2>2, <3>1, PlanStarts
    <3>3. ModelJobs(Len(series))' = p
      BY <2>2, <3>1, PlansNext DEF plan
    <3> QED
      BY <3>2, <3>3 DEF PlanIs
  <2>5. PlanInv'
    BY <1>5, <2>3, <2>4 DEF PlanInv
  <2>6. ModelInv'
    <3>1. Greater(Warmup, TrainEnd(Len(series)))' = Greater(Warmup, TrainEnd(Len(candles)))
      BY <2>2 DEF Greater, TrainEnd
    <3>2. \A k \in DOMAIN jobs' : TrainedOn(jobs[k])'
      BY <1>5, <2>1, <2>2, <2>3, <3>1 DEF TrainedOn
    <3> QED
      BY <1>3, <2>2, <3>2 DEF ModelInv
  <2> QED
    BY <1>1, <1>5, <2>2, <2>5, <2>6 DEF BacktestInv
<1> QED
  BY <1>1, <1>4, <1>5

\* A report that is made keeps its back-tests.
LEMMA ReportKeeps == ASSUME BacktestInv, RealDone \/ ModelDone PROVE BacktestInv'
<1>1. /\ series' = series /\ jobs' = jobs /\ at' = at /\ trades' = trades
      /\ skipped' = skipped /\ results' = results /\ labels' = labels /\ stored' = stored
      /\ jobs = <<>>
      /\ \/ phase = "real" /\ phase' \in {"between", "done"} /\ approved' = approved
         \/ phase = "model" /\ phase' = "done" /\ approved' = Approves
  BY DEF RealDone, ModelDone
<1>2. approved' \in BOOLEAN
  BY <1>1 DEF BacktestInv, Approves
<1>3. RunningInv'
  BY <1>1, RunningNext DEF BacktestInv, RunningInv, Current
<1>4. FinishedInv'
  BY <1>1, FinishedNext DEF BacktestInv, FinishedInv
<1>5. PlanInv'
  BY <1>1, PlansNext DEF BacktestInv, PlanInv, PlanIs, LabelsOf, TrainEnd, Greater
<1>6. ModelInv' /\ \A k \in DOMAIN jobs' : Fits(jobs[k])'
  BY <1>1 DEF BacktestInv, ModelInv, TrainedOn, TrainEnd, LabelsOf, Greater, Fits, FitsIn
<1>7. phase' \in {"idle", "real", "between", "model", "done", "raised"}
  BY <1>1
<1> QED
  BY <1>1, <1>2, <1>3, <1>4, <1>5, <1>6, <1>7 DEF BacktestInv

\* BacktestInv is inductive.
LEMMA BacktestInvHolds == Spec => []BacktestInv
<1>1. Init => BacktestInv
  BY StartBacktest
<1>2. BacktestInv /\ [Next]_vars => BacktestInv'
  <2> SUFFICES ASSUME BacktestInv, [Next]_vars PROVE BacktestInv'
    OBVIOUS
  <2>1. CASE UNCHANGED vars
    <3>1. /\ phase' = phase /\ series' = series /\ jobs' = jobs /\ at' = at
          /\ trades' = trades /\ skipped' = skipped /\ results' = results
          /\ labels' = labels /\ approved' = approved /\ stored' = stored
      BY <2>1 DEF vars, reports
    <3>2. RunningInv'
      BY <3>1, RunningNext DEF BacktestInv, RunningInv, Current
    <3>3. FinishedInv'
      BY <3>1, FinishedNext DEF BacktestInv, FinishedInv
    <3>4. PlanInv'
      BY <3>1, PlansNext DEF BacktestInv, PlanInv, PlanIs, LabelsOf, TrainEnd, Greater
    <3>5. ModelInv' /\ \A k \in DOMAIN jobs' : Fits(jobs[k])'
      BY <3>1 DEF BacktestInv, ModelInv, TrainedOn, TrainEnd, LabelsOf, Greater, Fits, FitsIn
    <3> QED
      BY <3>1, <3>2, <3>3, <3>4, <3>5 DEF BacktestInv
  <2>2. CASE Next
    BY <2>2, CandleKeeps, LoadRealKeeps, LoadModelKeeps, WalkKeeps, DoneKeeps, ReportKeeps
       DEF Next
  <2> QED
    BY <2>1, <2>2
<1> QED
  BY <1>1, <1>2, PTL DEF Spec

-----------------------------------------------------------------------------
(* What the invariant says of the properties.                              *)

\* The checklist looks at the reports, and changes nothing in them.
LEMMA ChecklistRunsReports == ChecklistSpec => Spec
<1>1. ChecklistInit => Init
  BY DEF ChecklistInit
<1>2. [ChecklistNext]_<<vars, checklist>> => [Next]_vars
  BY DEF ChecklistNext, MakeChecklist
<1> QED
  BY <1>1, <1>2, PTL DEF ChecklistSpec, Spec

\* Where a back-test stops.
LEMMA StopIs ==
    ASSUME NEW job, FitsIn(job, Len(series)), Len(series) \in Nat
    PROVE  /\ job.first \in Nat /\ job.end \in 0..Len(series) /\ Stop(job) \in Nat
           /\ job.first <= Stop(job) /\ Stop(job) <= Greater(Len(series), Warmup)
           /\ Stop(job) - job.first \in 0..Len(series)
           /\ job.first < Stop(job) => Stop(job) = job.end - Duration
           /\ job.first = Stop(job) => job.end - Duration <= job.first
<1>1. Duration \in Nat \ {0} /\ Warmup \in Nat
  BY BacktestAssumption
<1> QED
  BY <1>1 DEF FitsIn, Stop, LastEntry, Greater

\* The variables of the back-test are of their types.
LEMMA BacktestTyped == BacktestInv => BacktestTypeOK
<1> SUFFICES ASSUME BacktestInv PROVE BacktestTypeOK
  OBVIOUS
<1>1. Len(series) \in Nat /\ Warmup \in Nat
  BY SeqFacts, BacktestAssumption DEF BacktestInv
<1>2. CASE jobs = <<>>
  <2>1. at = 0 /\ skipped = 0
    BY <1>2 DEF BacktestInv, RunningInv
  <2> QED
    BY <1>1, <1>2, <2>1 DEF BacktestInv, BacktestTypeOK, Greater
<1>3. CASE jobs # <<>>
  <2> DEFINE job == Head(jobs)
  <2>1. /\ at \in job.first..Stop(job) /\ at \in Nat /\ skipped \in Nat
        /\ Len(trades) + skipped = at - job.first
        /\ Walked(job, at, trades) /\ job = Current
    BY <1>3 DEF BacktestInv, RunningInv, Current
  <2>2. FitsIn(job, Len(series))
    <3>1. job = jobs[1] /\ 1 \in DOMAIN jobs
      BY <1>3, Rest DEF BacktestInv
    <3> HIDE DEF job
    <3> QED
      BY <3>1 DEF BacktestInv, Fits
  <2> HIDE DEF job
  <2>3. Len(trades) \in Nat
    BY <2>1, SeqFacts DEF Walked
  <2>4. /\ job.first \in Nat /\ Stop(job) \in Nat /\ Stop(job) <= Greater(Len(series), Warmup)
        /\ Stop(job) - job.first \in 0..Len(series)
    BY <1>1, <2>2, StopIs
  <2>5. at \in 0..Greater(Len(series), Warmup)
    BY <1>1, <2>1, <2>4 DEF Greater
  <2>6. skipped \in 0..Len(series)
    BY <1>1, <2>1, <2>3, <2>4
  <2> QED
    BY <2>1, <2>5, <2>6 DEF BacktestInv, BacktestTypeOK
<1> QED
  BY <1>2, <1>3

\* Every decision is one of the three.
LEMMA DecisionsTyped ==
    ASSUME NEW tradeLog, NEW errors, NEW survived, NEW calibrated
    PROVE  Decide(tradeLog, errors, survived, calibrated) \in [Items -> Statuses]
<1>1. \A holds : Passes(holds) \in Statuses
  BY DEF Passes, Statuses
<1>2. \A available, holds : Measured(available, holds) \in Statuses
  BY <1>1 DEF Measured, Statuses
<1>3. "PASS" \in Statuses
  BY DEF Statuses
<1> QED
  BY <1>1, <1>2, <1>3 DEF Decide, Items

-----------------------------------------------------------------------------
(* The theorems.                                                           *)

\* All variables of the back-test and of the checklist keep to their types,
\* and what a back-test has walked is what it has counted.
THEOREM ChecklistTypes == ChecklistSpec => []ChecklistTypeOK
<1> DEFINE Made == checklist = NotMade \/ checklist \in [Items -> Statuses]
<1>1. ChecklistInit => Made
  BY DEF ChecklistInit
<1>2. Made /\ [ChecklistNext]_<<vars, checklist>> => Made'
  <2> SUFFICES ASSUME Made, [ChecklistNext]_<<vars, checklist>> PROVE Made'
    OBVIOUS
  <2>1. CASE MakeChecklist
    BY <2>1, DecisionsTyped DEF MakeChecklist
  <2>2. CASE checklist' = checklist
    BY <2>2
  <2> QED
    BY <2>1, <2>2 DEF ChecklistNext
<1>3. BacktestInv /\ Made => ChecklistTypeOK
  BY BacktestTyped DEF ChecklistTypeOK
<1> HIDE DEF Made
<1> QED
  BY <1>1, <1>2, <1>3, ChecklistRunsReports, BacktestInvHolds, PTL DEF ChecklistSpec

\* Of the candles a back-test walks each becomes a trade or is counted, and it
\* walks exactly those whose contract begins after the warm-up and ends within
\* its candles.
THEOREM CandlesCounted == ChecklistSpec => []EveryCandleCounted
<1>1. BacktestInv => EveryCandleCounted
  <2> SUFFICES ASSUME BacktestInv, NEW k \in DOMAIN results
               PROVE  /\ Len(Finished(k)) + results[k].skipped
                           = Cardinality({i \in 0..Len(series) - 1 :
                                 /\ i >= results[k].job.first
                                 /\ i + Duration < results[k].job.end})
                      /\ \A t \in Range(Finished(k)) : t.exit < results[k].job.end
    BY DEF EveryCandleCounted
  <2> DEFINE job == results[k].job
             ts  == results[k].trades
             walked == {i \in 0..Len(series) - 1 : i >= job.first /\ i + Duration < job.end}
  <2>1. /\ FitsIn(job, Len(series)) /\ Walked(job, Stop(job), ts)
        /\ Len(ts) + results[k].skipped = Stop(job) - job.first
    BY DEF BacktestInv, FinishedInv, Counted, Fits
  <2>2. Len(series) \in Nat /\ Duration \in Nat \ {0}
    BY SeqFacts, BacktestAssumption DEF BacktestInv
  <2> HIDE DEF job, ts
  <2>3. /\ job.first \in Nat /\ job.end \in 0..Len(series) /\ Stop(job) \in Nat
        /\ job.first <= Stop(job)
        /\ job.first < Stop(job) => Stop(job) = job.end - Duration
        /\ job.first = Stop(job) => job.end - Duration <= job.first
    BY <2>1, <2>2, StopIs
  <2>4. walked = job.first..(Stop(job) - 1)
    BY <2>2, <2>3
  <2>5. Cardinality(walked) = Stop(job) - job.first
    <3> DEFINE first == job.first
               last  == Stop(job) - 1
    <3>1. /\ first \in Int /\ last \in Int /\ first <= last + 1
          /\ last - first + 1 = Stop(job) - job.first
      BY <2>3
    <3>2. walked = first..last
      BY <2>4
    <3> HIDE DEF first, last, walked
    <3>3. Cardinality(first..last) = last - first + 1
      BY <3>1, IntervalSize
    <3> QED
      BY <3>1, <3>2, <3>3
  <2>6. ASSUME NEW t \in Range(ts) PROVE t.exit < job.end
    <3>1. PICK i \in DOMAIN ts : t = ts[i]
      BY <2>6 DEF Range
    <3>2. t.entry \in job.first..(Stop(job) - 1) /\ t.exit = t.entry + Duration
      BY <2>1, <3>1 DEF Walked, Resolved
    <3> QED
      BY <2>2, <2>3, <3>2
  <2> QED
    BY <2>1, <2>5, <2>6 DEF Finished, job, ts
<1> QED
  BY <1>1, ChecklistRunsReports, BacktestInvHolds, PTL

\* What the reported strategy says at an index of some candles, and the trade
\* it makes there.
SaidOf(candles, i) == Signal(Reported, <<>>, SubSeq(candles, 1, i + 1))

TradeOf(candles, i) ==
    LET direction == SaidOf(candles, i).direction
        won == IF direction = "CALL" THEN candles[i + Duration + 1] > candles[i + 1]
               ELSE candles[i + Duration + 1] < candles[i + 1]
    IN  [entry |-> i, exit |-> i + Duration, direction |-> direction,
         regime |-> RegimeOf(SubSeq(candles, 1, i + 1)),
         profit |-> IF won THEN WinProfit ELSE -Stake]

\* The trades it makes of them from the index first, before the index end.
TradesOf(candles, first, end) ==
    {TradeOf(candles, i) :
        i \in {j \in first..end - 1 - Duration : PassesGate(SaidOf(candles, j))}}

\* Lists that begin alike, up to some length.
Alike(s, t, n) == n <= Len(s) /\ n <= Len(t) /\ \A i \in 1..n : s[i] = t[i]

\* Where candles are alike so are the trades made of them.
LEMMA SameCandlesSameTrades ==
    ASSUME NEW s, IsSeq(s), NEW t, IsSeq(t), NEW n \in Nat, Alike(s, t, n),
           NEW first \in Nat, NEW end \in 0..n
    PROVE  TradesOf(s, first, end) = TradesOf(t, first, end)
<1>1. Duration \in Nat \ {0} /\ Len(s) \in Nat /\ Len(t) \in Nat
  BY SeqFacts, BacktestAssumption
<1>2. ASSUME NEW i \in first..end - 1 - Duration
      PROVE  SaidOf(s, i) = SaidOf(t, i) /\ TradeOf(s, i) = TradeOf(t, i)
  <2>1. i + 1 \in 1..n /\ i + Duration + 1 \in 1..n /\ i + 1 \in Nat
    BY <1>1
  <2>2. SubSeq(s, 1, i + 1) = SubSeq(t, 1, i + 1)
    <3>1. s \in Seq(Elems(s)) /\ t \in Seq(Elems(t))
      BY DEF IsSeq
    <3>2. \A j \in 1..i + 1 : s[j] = t[j]
      BY <2>1 DEF Alike
    <3>3. /\ SubSeq(s, 1, i + 1) = [j \in 1..i + 1 |-> s[j]]
          /\ SubSeq(t, 1, i + 1) = [j \in 1..i + 1 |-> t[j]]
      BY <1>1, <2>1, <3>1 DEF Alike
    <3> QED
      BY <3>2, <3>3
  <2>3. s[i + 1] = t[i + 1] /\ s[i + Duration + 1] = t[i + Duration + 1]
    BY <2>1 DEF Alike
  <2> QED
    BY <2>2, <2>3 DEF SaidOf, TradeOf
<1> DEFINE E(c) == {j \in first..end - 1 - Duration : PassesGate(SaidOf(c, j))}
<1>3. E(s) = E(t)
  BY <1>2
<1>4. \A i \in E(s) : TradeOf(s, i) = TradeOf(t, i)
  BY <1>2
<1> QED
  BY <1>3, <1>4 DEF TradesOf

\* A back-test enters where a signal passes the gate, and nowhere else.
LEMMA WhereWalked ==
    ASSUME NEW job, FitsIn(job, Len(series)), Len(series) \in Nat, NEW ts,
           Walked(job, Stop(job), ts)
    PROVE  Range(ts) = {Resolved(i, SaidAt(job, i).direction) :
                           i \in {j \in job.first..job.end - 1 - Duration :
                                     PassesGate(SaidAt(job, j))}}
<1>1. job.first..job.end - 1 - Duration = job.first..Stop(job) - 1
  <2>1. /\ job.first \in Nat /\ job.end \in Nat /\ Stop(job) \in Nat /\ Duration \in Nat
        /\ job.first <= Stop(job)
        /\ job.first < Stop(job) => Stop(job) = job.end - Duration
        /\ job.first = Stop(job) => job.end - Duration <= job.first
    BY StopIs, BacktestAssumption
  <2> QED
    BY <2>1
<1>2. ASSUME NEW t \in Range(ts)
      PROVE  \E i \in job.first..Stop(job) - 1 :
                PassesGate(SaidAt(job, i)) /\ t = Resolved(i, SaidAt(job, i).direction)
  <2>1. PICK k \in DOMAIN ts : t = ts[k]
    BY DEF Range
  <2> QED
    BY <2>1 DEF Walked
<1>3. ASSUME NEW i \in job.first..Stop(job) - 1, PassesGate(SaidAt(job, i))
      PROVE  Resolved(i, SaidAt(job, i).direction) \in Range(ts)
  <2>1. PICK k \in DOMAIN ts : ts[k].entry = i
    BY <1>3 DEF Walked
  <2>2. ts[k] = Resolved(i, SaidAt(job, i).direction)
    BY <2>1 DEF Walked
  <2> QED
    BY <2>2 DEF Range
<1> DEFINE E == {j \in job.first..Stop(job) - 1 : PassesGate(SaidAt(job, j))}
<1>4. {j \in job.first..job.end - 1 - Duration : PassesGate(SaidAt(job, j))} = E
  BY <1>1
<1>5. Range(ts) \subseteq {Resolved(i, SaidAt(job, i).direction) : i \in E}
  BY <1>2
<1>6. {Resolved(i, SaidAt(job, i).direction) : i \in E} \subseteq Range(ts)
  BY <1>3
<1> HIDE DEF E
<1> QED
  BY <1>4, <1>5, <1>6

\* So the reported strategy makes the trades that its candles give.
LEMMA WalkedTrades ==
    ASSUME NEW job, FitsIn(job, Len(series)), Len(series) \in Nat, NEW ts,
           Walked(job, Stop(job), ts), job.strategy = Reported
    PROVE  Range(ts) = TradesOf(series, job.first, job.end)
<1>1. \A i : SaidAt(job, i) = SaidOf(series, i)
  BY BacktestAssumption DEF SaidAt, SaidOf, Fitted, Seen
<1>2. \A i : Resolved(i, SaidAt(job, i).direction) = TradeOf(series, i)
  BY <1>1 DEF Resolved, TradeOf, Candle, Seen
<1> QED
  BY <1>1, <1>2, WhereWalked DEF TradesOf

\* As long as no report loads less than all candles stored, those of a report
\* are the first of them, and the trades of the first report are those that
\* the reported strategy makes of them.
SharedInv ==
    Len(stored) <= MaxCandles =>
        /\ Alike(series, stored, Len(series))
        /\ real # <<>> =>
             /\ real[1].job.end \in 0..Len(stored)
             /\ Range(real[1].trades) = TradesOf(stored, Warmup, real[1].job.end)

\* What a report loads when it loads all.
LEMMA LoadedIsAll ==
    ASSUME IsSeq(stored), Len(stored) <= MaxCandles
    PROVE  Alike(Loaded, stored, Len(Loaded))
<1>1. stored \in Seq(Elems(stored)) /\ Len(stored) \in Nat /\ MaxCandles \in Nat
  BY BacktestAssumption DEF IsSeq
<1>2. Loaded = SubSeq(stored, 1, Len(stored))
  BY <1>1 DEF Loaded, Greater
<1> QED
  BY <1>1, <1>2 DEF Alike

\* Storing more candles, and making the reports, leaves this so.
LEMMA SharedInvHolds == Spec => []SharedInv
<1>1. Init => SharedInv
  BY EmptyIsSeq DEF Init, SharedInv, Alike
<1>2. BacktestInv /\ SharedInv /\ [Next]_vars => SharedInv'
  <2> SUFFICES ASSUME BacktestInv, SharedInv, [Next]_vars, Len(stored)' <= MaxCandles
               PROVE  /\ Alike(series, stored, Len(series))'
                      /\ (real # <<>>)' =>
                           /\ real'[1].job.end \in 0..Len(stored')
                           /\ Range(real'[1].trades) = TradesOf(stored', Warmup, real'[1].job.end)
    BY DEF SharedInv, TradesOf, TradeOf, SaidOf, PassesGate
  <2>0. /\ IsSeq(stored) /\ IsSeq(series) /\ IsSeq(results)
        /\ Len(stored) \in Nat /\ Len(series) \in Nat /\ Warmup \in Nat
        /\ MaxCandles \in Nat
    BY SeqFacts, BacktestAssumption DEF BacktestInv
  <2>1. ASSUME NEW price, CandleStored(price)
        PROVE  /\ Alike(series, stored, Len(series))'
               /\ (real # <<>>)' =>
                    /\ real'[1].job.end \in 0..Len(stored')
                    /\ Range(real'[1].trades) = TradesOf(stored', Warmup, real'[1].job.end)
    <3>1. /\ IsSeq(stored') /\ Len(stored') = Len(stored) + 1
          /\ \A i \in 1..Len(stored) : stored'[i] = stored[i]
          /\ series' = series /\ real' = real
      BY <2>0, <2>1, Appended DEF CandleStored, reports
    <3>2. Len(stored) <= MaxCandles /\ Alike(stored, stored', Len(stored))
      BY <2>0, <3>1 DEF Alike
    <3>3. Alike(series, stored, Len(series))'
      BY <2>0, <3>1, <3>2 DEF SharedInv, Alike
    <3>4. ASSUME real # <<>>
          PROVE  /\ real[1].job.end \in 0..Len(stored')
                 /\ Range(real[1].trades) = TradesOf(stored', Warmup, real[1].job.end)
      <4>1. /\ real[1].job.end \in 0..Len(stored)
            /\ Range(real[1].trades) = TradesOf(stored, Warmup, real[1].job.end)
        BY <3>2, <3>4 DEF SharedInv
      <4>2. TradesOf(stored, Warmup, real[1].job.end) = TradesOf(stored', Warmup, real[1].job.end)
        BY <2>0, <3>1, <3>2, <4>1, SameCandlesSameTrades
      <4> QED
        BY <2>0, <3>1, <4>1, <4>2
    <3> QED
      BY <3>1, <3>3, <3>4
  <2>2. ASSUME stored' = stored, real' = real, Alike(series', stored, Len(series'))
        PROVE  /\ Alike(series, stored, Len(series))'
               /\ (real # <<>>)' =>
                    /\ real'[1].job.end \in 0..Len(stored')
                    /\ Range(real'[1].trades) = TradesOf(stored', Warmup, real'[1].job.end)
    <3>1. Len(stored) <= MaxCandles
      BY <2>2
    <3>2. Alike(series, stored, Len(series))'
      BY <2>2 DEF Alike
    <3> QED
      BY <2>2, <3>1, <3>2 DEF SharedInv
  <2>3. ASSUME LoadReal \/ LoadModel
        PROVE  stored' = stored /\ real' = real /\ Alike(series', stored, Len(series'))
    <3>1. stored' = stored /\ real' = real /\ series' = Loaded
      BY <2>3 DEF LoadReal, LoadModel, Begins
    <3> QED
      BY <2>0, <3>1, LoadedIsAll
  <2>4. ASSUME UNCHANGED <<stored, series, real>>
        PROVE  Alike(series', stored, Len(series'))
    <3>1. Len(stored) <= MaxCandles /\ series' = series
      BY <2>4
    <3> QED
      BY <3>1 DEF SharedInv
  <2>5. ASSUME RealDone
        PROVE  /\ Alike(series, stored, Len(series))'
               /\ (real # <<>>)' =>
                    /\ real'[1].job.end \in 0..Len(stored')
                    /\ Range(real'[1].trades) = TradesOf(stored', Warmup, real'[1].job.end)
    <3>1. /\ phase = "real" /\ real' = results /\ stored' = stored /\ series' = series
      BY <2>5 DEF RealDone
    <3>2. Alike(series, stored, Len(series))
      BY <3>1 DEF SharedInv
    <3>3. Alike(series, stored, Len(series))'
      BY <3>1, <3>2 DEF Alike
    <3>4. ASSUME results # <<>>
          PROVE  /\ results[1].job.end \in 0..Len(stored)
                 /\ Range(results[1].trades) = TradesOf(stored, Warmup, results[1].job.end)
      <4> DEFINE job == results[1].job
                 ts  == results[1].trades
      <4>1. 1 \in DOMAIN results
        BY <2>0, <3>4, SeqFacts
      <4>2. job = Job(Reported, Warmup, Len(series))
        <5>1. PlanIs(RealJobs(Len(series)))
          BY <3>1 DEF BacktestInv, PlanInv
        <5>2. RealJobs(Len(series))[1] = Job(Reported, Warmup, Len(series))
          BY <2>0, RealPlan
        <5> QED
          BY <4>1, <5>1, <5>2 DEF PlanIs
      <4>3. FitsIn(job, Len(series)) /\ Walked(job, Stop(job), ts)
        BY <4>1 DEF BacktestInv, FinishedInv, Counted, Fits
      <4>4. job.strategy = Reported /\ job.first = Warmup /\ job.end = Len(series)
        BY <4>2 DEF Job
      <4> HIDE DEF job, ts
      <4>5. Range(ts) = TradesOf(series, Warmup, Len(series))
        BY <2>0, <4>3, <4>4, WalkedTrades
      <4>6. TradesOf(series, Warmup, Len(series)) = TradesOf(stored, Warmup, Len(series))
        BY <2>0, <3>2, SameCandlesSameTrades
      <4>7. Len(series) \in 0..Len(stored)
        BY <2>0, <3>2 DEF Alike
      <4> QED
        BY <4>4, <4>5, <4>6, <4>7 DEF job, ts
    <3> QED
      BY <3>1, <3>3, <3>4
  <2>6. \/ \E price \in Prices : CandleStored(price)
        \/ LoadReal \/ LoadModel \/ RealDone
        \/ UNCHANGED <<stored, series, real>>
    BY DEF Next, Walk, BacktestDone, ModelDone, vars, reports
  <2>7. CASE LoadReal \/ LoadModel
    BY <2>2, <2>3, <2>7
  <2>8. CASE UNCHANGED <<stored, series, real>>
    BY <2>2, <2>4, <2>8
  <2> QED
    BY <2>1, <2>5, <2>6, <2>7, <2>8
<1> QED
  BY <1>1, <1>2, BacktestInvHolds, PTL DEF Spec

\* An index walked by one back-test and left early enough for another is one
\* that the other walks.
LEMMA WalkedByBoth ==
    ASSUME NEW first \in Nat, NEW end \in Nat, NEW from \in Nat, NEW until \in Nat,
           from <= first, NEW duration \in Nat, NEW i \in Nat
    PROVE  /\ i \in first..end - 1 - duration /\ i + duration < until =>
                i \in from..until - 1 - duration /\ i >= first /\ i + duration < end
           /\ i \in from..until - 1 - duration /\ i >= first /\ i + duration < end =>
                i \in first..end - 1 - duration /\ i + duration < until
  OBVIOUS

\* Trades are entered where the candles up to their entry say so, and what the
\* first report traded the second trades again, whatever was stored between.
THEOREM TradesLookBack == ChecklistSpec => []NoLookAhead
<1> DEFINE Enters ==
             \A k \in DOMAIN results :
               LET job  == results[k].job
                   said == [i \in job.first..job.end - 1 - Duration |->
                              Signal(job.strategy, Fitted(job.strategy), SubSeq(series, 1, i + 1))]
               IN  {<<t.entry, t.direction>> : t \in Range(Finished(k))}
                     = {<<i, said[i].direction>> :
                          i \in {j \in DOMAIN said : PassesGate(said[j])}}
           Repeats ==
             real # <<>> /\ Len(stored) <= MaxCandles =>
               \A k \in DOMAIN results :
                 LET job == results[k].job
                 IN  job.strategy = Reported =>
                       {t \in Range(Finished(k)) : t.exit < real[1].job.end}
                         = {t \in Range(real[1].trades) : t.entry >= job.first /\ t.exit < job.end}
<1>1. BacktestInv => Enters
  <2> SUFFICES ASSUME BacktestInv, NEW k \in DOMAIN results
               PROVE  LET job  == results[k].job
                          said == [i \in job.first..job.end - 1 - Duration |->
                                     Signal(job.strategy, Fitted(job.strategy),
                                            SubSeq(series, 1, i + 1))]
                      IN  {<<t.entry, t.direction>> : t \in Range(Finished(k))}
                            = {<<i, said[i].direction>> :
                                 i \in {j \in DOMAIN said : PassesGate(said[j])}}
    OBVIOUS
  <2> DEFINE job  == results[k].job
             ts   == results[k].trades
             said == [i \in job.first..job.end - 1 - Duration |->
                        Signal(job.strategy, Fitted(job.strategy), SubSeq(series, 1, i + 1))]
             E    == {j \in job.first..job.end - 1 - Duration : PassesGate(SaidAt(job, j))}
  <2>1. FitsIn(job, Len(series)) /\ Walked(job, Stop(job), ts) /\ Len(series) \in Nat
    BY SeqFacts DEF BacktestInv, FinishedInv, Counted, Fits
  <2> HIDE DEF job, ts
  <2>2. Range(ts) = {Resolved(i, SaidAt(job, i).direction) : i \in E}
    BY <2>1, WhereWalked
  <2>3. \A i, d : Resolved(i, d).entry = i /\ Resolved(i, d).direction = d
    BY DEF Resolved
  <2> HIDE DEF E
  <2>4. {<<t.entry, t.direction>> : t \in Range(ts)} = {<<i, SaidAt(job, i).direction>> : i \in E}
    BY <2>2, <2>3
  <2>5. \A i \in DOMAIN said : said[i] = SaidAt(job, i)
    BY DEF SaidAt, Seen
  <2>6. DOMAIN said = job.first..job.end - 1 - Duration
    OBVIOUS
  <2> HIDE DEF said
  <2>7. {j \in DOMAIN said : PassesGate(said[j])} = E
    BY <2>5, <2>6 DEF E
  <2>8. E \subseteq DOMAIN said
    BY <2>7
  <2>9. {<<i, SaidAt(job, i).direction>> : i \in E} = {<<i, said[i].direction>> : i \in E}
    BY <2>5, <2>8
  <2> QED
    BY <2>4, <2>7, <2>9 DEF job, ts, said, Finished
<1>2. BacktestInv /\ SharedInv => Repeats
  <2> SUFFICES ASSUME BacktestInv, SharedInv, real # <<>>, Len(stored) <= MaxCandles,
                      NEW k \in DOMAIN results, results[k].job.strategy = Reported
               PROVE  {t \in Range(results[k].trades) : t.exit < real[1].job.end}
                        = {t \in Range(real[1].trades) : /\ t.entry >= results[k].job.first
                                                         /\ t.exit < results[k].job.end}
    BY DEF Finished
  <2> DEFINE job == results[k].job
             ts  == results[k].trades
             end == real[1].job.end
             us  == real[1].trades
  <2>1. /\ FitsIn(job, Len(series)) /\ Walked(job, Stop(job), ts) /\ Len(series) \in Nat
        /\ IsSeq(series) /\ IsSeq(stored) /\ Len(stored) \in Nat
    BY SeqFacts DEF BacktestInv, FinishedInv, Counted, Fits
  <2>2. /\ Alike(series, stored, Len(series)) /\ end \in 0..Len(stored)
        /\ Range(us) = TradesOf(stored, Warmup, end)
    BY DEF SharedInv
  <2>3. job.strategy = Reported
    OBVIOUS
  <2> HIDE DEF job, ts, end, us
  <2>4. /\ job.first \in Nat /\ job.end \in 0..Len(series) /\ Warmup <= job.first
        /\ Warmup \in Nat /\ Duration \in Nat
    BY <2>1, BacktestAssumption DEF FitsIn
  <2>5. Range(ts) = TradesOf(stored, job.first, job.end)
    <3>1. Range(ts) = TradesOf(series, job.first, job.end)
      BY <2>1, <2>3, WalkedTrades
    <3> QED
      BY <2>1, <2>2, <2>4, <3>1, SameCandlesSameTrades
  <2>6. \A i : TradeOf(stored, i).entry = i /\ TradeOf(stored, i).exit = i + Duration
    BY DEF TradeOf
  <2>7. /\ job.first \in Nat /\ job.end \in Nat /\ Warmup \in Nat /\ end \in Nat
        /\ Warmup <= job.first /\ Duration \in Nat
    BY <2>1, <2>2, <2>4
  <2>8. \A i \in Nat :
           /\ i \in job.first..job.end - 1 - Duration /\ i + Duration < end =>
                i \in Warmup..end - 1 - Duration /\ i >= job.first /\ i + Duration < job.end
           /\ i \in Warmup..end - 1 - Duration /\ i >= job.first /\ i + Duration < job.end =>
                i \in job.first..job.end - 1 - Duration /\ i + Duration < end
    BY <2>7, WalkedByBoth
  <2>9. ASSUME NEW t \in Range(ts), t.exit < end
        PROVE  t \in Range(us) /\ t.entry >= job.first /\ t.exit < job.end
    <3>1. PICK i \in job.first..job.end - 1 - Duration :
             PassesGate(SaidOf(stored, i)) /\ t = TradeOf(stored, i)
      BY <2>5 DEF TradesOf
    <3>2. t.entry = i /\ t.exit = i + Duration
      BY <2>6, <3>1
    <3>3. i \in Nat /\ i + Duration < end
      <4>1. i \in Nat
        BY <2>7
      <4> QED
        BY <2>9, <3>2, <4>1
    <3>4. i \in Warmup..end - 1 - Duration /\ i >= job.first /\ i + Duration < job.end
      BY <2>8, <3>3
    <3> QED
      BY <2>2, <3>1, <3>2, <3>4 DEF TradesOf
  <2>10. ASSUME NEW t \in Range(us), t.entry >= job.first, t.exit < job.end
         PROVE  t \in Range(ts) /\ t.exit < end
    <3>1. PICK i \in Warmup..end - 1 - Duration :
             PassesGate(SaidOf(stored, i)) /\ t = TradeOf(stored, i)
      BY <2>2 DEF TradesOf
    <3>2. t.entry = i /\ t.exit = i + Duration
      BY <2>6, <3>1
    <3>3. i \in job.first..job.end - 1 - Duration /\ i + Duration < end
      BY <2>7, <2>8, <2>10, <3>2
    <3> QED
      BY <2>5, <3>1, <3>2, <3>3 DEF TradesOf
  <2> QED
    BY <2>9, <2>10 DEF job, ts, end, us
<1>3. Enters /\ Repeats => NoLookAhead
  BY DEF NoLookAhead
<1> HIDE DEF Enters, Repeats
<1> QED
  BY <1>1, <1>2, <1>3, ChecklistRunsReports, BacktestInvHolds, SharedInvHolds, PTL

\* Two back-tests of one strategy make the same trade at an index both walk.
LEMMA SameTrades ==
    ASSUME NEW job, NEW upto, NEW ts, Walked(job, upto, ts),
           NEW other, NEW until, NEW us, Walked(other, until, us),
           job.strategy = other.strategy,
           NEW t \in Range(ts), t.entry \in other.first..(until - 1)
    PROVE  t \in Range(us)
<1>1. PICK i \in DOMAIN ts : t = ts[i]
  BY DEF Range
<1>2. /\ PassesGate(SaidAt(job, t.entry))
      /\ t = Resolved(t.entry, SaidAt(job, t.entry).direction)
  BY <1>1 DEF Walked
<1>3. SaidAt(job, t.entry) = SaidAt(other, t.entry)
  BY DEF SaidAt
<1>4. PICK j \in DOMAIN us : us[j].entry = t.entry
  BY <1>2, <1>3 DEF Walked
<1>5. us[j] = Resolved(us[j].entry, SaidAt(other, us[j].entry).direction)
  BY DEF Walked
<1>6. us[j] = t
  BY <1>2, <1>3, <1>4, <1>5
<1> QED
  BY <1>6 DEF Range

\* Where the entries and the exits of a back-test are.
LEMMA WhereTrades ==
    ASSUME NEW job, NEW upto, NEW ts, Walked(job, upto, ts), NEW t \in Range(ts)
    PROVE  t.entry \in job.first..(upto - 1) /\ t.exit = t.entry + Duration
<1>1. PICK i \in DOMAIN ts : t = ts[i]
  BY DEF Range
<1>2. /\ t.entry \in job.first..(upto - 1)
      /\ t = Resolved(t.entry, SaidAt(job, t.entry).direction)
  BY <1>1 DEF Walked
<1>3. \A e, x : Resolved(e, x).exit = e + Duration
  BY DEF Resolved
<1> QED
  BY <1>2, <1>3

\* The trades of a window are those of the whole back-test in its test slice,
\* in the order in which they were made.
THEOREM WindowsScoreTheWhole == ChecklistSpec => []WindowsAgree
<1>1. BacktestInv => WindowsAgree
  <2> SUFFICES ASSUME BacktestInv, phase \in {"real", "between"}, Len(results) > 1,
                      NEW w \in 1..Len(results) - 1
               PROVE  LET window == Windows(Len(series))[w]
                      IN  /\ Range(Finished(w + 1))
                               = {t \in Range(Finished(1)) : /\ t.entry >= window.split
                                                            /\ t.exit < window.end}
                          /\ \A k \in {1, w + 1} : \A i, j \in DOMAIN Finished(k) :
                                i < j => Finished(k)[i].entry < Finished(k)[j].entry
    BY DEF WindowsAgree
  <2> DEFINE n     == Len(series)
             plan  == RealJobs(n)
             split == Windows(n)[w].split
             end   == Windows(n)[w].end
             whole == results[1].job
             slice == results[w + 1].job
             ts    == results[1].trades
             us    == results[w + 1].trades
  <2>1. n \in Nat /\ Len(results) \in Nat /\ Len(jobs) \in Nat
        /\ DOMAIN results = 1..Len(results)
    BY SeqFacts DEF BacktestInv
  <2>2. w \in Int /\ 1 \in DOMAIN results /\ w + 1 \in DOMAIN results
    BY <2>1
  <2>3. PlanIs(plan)
    BY DEF BacktestInv, PlanInv
  <2>4. /\ Counted(results[1]) /\ Counted(results[w + 1])
        /\ results[1].job = plan[1] /\ results[w + 1].job = plan[w + 1]
        /\ Len(plan) = Len(results) + Len(jobs)
    BY <2>2, <2>3 DEF BacktestInv, FinishedInv, PlanIs
  <2>5. Len(plan) > 1 /\ Len(plan) \in Nat
    BY <2>1, <2>4
  <2>6. /\ n >= (Warmup + Duration + 1) * NWindows /\ Len(plan) = NWindows + 1
        /\ plan[1] = Job(Reported, Warmup, n)
        /\ \A v \in 1..NWindows :
              plan[v + 1] = Job(Reported, Greater(Warmup, Windows(n)[v].split),
                                Windows(n)[v].end)
    BY <2>1, <2>5, RealPlan
  <2>7. Duration \in Nat \ {0} /\ Warmup \in Nat /\ NWindows \in Nat \ {0}
    BY BacktestAssumption
  <2>8. w \in 1..NWindows
    BY <2>1, <2>4, <2>6, <2>7
  <2>9. /\ plan[w + 1] = Job(Reported, Greater(Warmup, split), end)
        /\ split \in 1..n /\ end \in 0..n
    BY <2>1, <2>6, <2>8, WindowLies
  <2> HIDE DEF n, plan, split, end
  <2>10. /\ whole.strategy = Reported /\ whole.first = Warmup /\ whole.end = n
         /\ slice.strategy = Reported /\ slice.first = Greater(Warmup, split)
         /\ slice.end = end
    BY <2>4, <2>6, <2>9 DEF Job
  <2>11. Walked(whole, Stop(whole), ts) /\ Walked(slice, Stop(slice), us)
    BY <2>4 DEF Counted
  <2> HIDE DEF whole, slice, ts, us
  <2>12. Stop(whole) = Greater(Warmup, n - Duration)
         /\ Stop(slice) = Greater(Greater(Warmup, split), end - Duration)
    <3>1. n - 1 - Duration + 1 = n - Duration /\ end - 1 - Duration + 1 = end - Duration
      BY <2>1, <2>7, <2>9
    <3> QED
      BY <2>10, <3>1 DEF Stop, LastEntry
  <2>13. ASSUME NEW t \in Range(us)
         PROVE  t \in Range(ts) /\ t.entry >= split /\ t.exit < end
    <3>1. t.entry \in Greater(Warmup, split)..(Stop(slice) - 1) /\ t.exit = t.entry + Duration
      BY <2>10, <2>11, WhereTrades
    <3>2. /\ t.entry \in Int /\ t.entry >= split /\ t.entry >= Warmup
          /\ t.entry < end - Duration
      BY <2>1, <2>7, <2>9, <2>12, <3>1 DEF Greater
    <3>3. t.entry \in Warmup..(Stop(whole) - 1)
      BY <2>1, <2>7, <2>9, <2>12, <3>2 DEF Greater
    <3>4. t \in Range(ts)
      BY <2>10, <2>11, <3>3, SameTrades
    <3> QED
      BY <2>7, <2>9, <3>1, <3>2, <3>4
  <2>14. ASSUME NEW t \in Range(ts), t.entry >= split, t.exit < end
         PROVE  t \in Range(us)
    <3>1. t.entry \in Warmup..(Stop(whole) - 1) /\ t.exit = t.entry + Duration
      BY <2>10, <2>11, WhereTrades
    <3>2. t.entry \in Greater(Warmup, split)..(Stop(slice) - 1)
      BY <2>1, <2>7, <2>9, <2>12, <2>14, <3>1 DEF Greater
    <3> QED
      BY <2>10, <2>11, <3>2, SameTrades
  <2>15. Range(us) = {t \in Range(ts) : t.entry >= split /\ t.exit < end}
    BY <2>13, <2>14
  <2>16. /\ \A i, j \in DOMAIN ts : i < j => ts[i].entry < ts[j].entry
         /\ \A i, j \in DOMAIN us : i < j => us[i].entry < us[j].entry
    BY <2>11 DEF Walked
  <2>17. Finished(1) = ts /\ Finished(w + 1) = us
    BY DEF Finished, ts, us
  <2>18. \A k \in {1, w + 1} : \A i, j \in DOMAIN Finished(k) :
            i < j => Finished(k)[i].entry < Finished(k)[j].entry
    BY <2>16, <2>17
  <2> QED
    BY <2>15, <2>17, <2>18 DEF n, split, end
<1> QED
  BY <1>1, ChecklistRunsReports, BacktestInvHolds, PTL

\* How many labels a training slice gives.
LEMMA LabelsAre ==
    ASSUME NEW candles, Len(candles) \in Nat
    PROVE  Len(LabelsOf(candles)) = Greater(0, TrainEnd(Len(candles)) - Duration - Warmup)
<1> DEFINE m == Greater(0, TrainEnd(Len(candles)) - Duration - Warmup)
           f == LabelsOf(candles)
<1>1. Duration \in Nat /\ Warmup \in Nat /\ TrainEnd(Len(candles)) \in Nat
  BY BacktestAssumption, TrainEndLies
<1>2. m \in Nat
  BY <1>1 DEF Greater
<1>3. f = [k \in 1..m |-> candles[Warmup + k + Duration] > candles[Warmup + k]]
  BY DEF LabelsOf
<1> HIDE DEF f, m
<1>4. f = [k \in 1..m |-> f[k]]
  BY <1>3
<1>5. Len(f) = m
  BY <1>2, <1>4, ListIsSeq
<1> QED
  BY <1>5 DEF f, m

\* No candle that a label of the model's training was settled on is among
\* those it trades on, and no label of the slice is missing.
THEOREM ModelHeldOut == ChecklistSpec => []HeldOut
<1>1. BacktestInv => HeldOut
  <2> SUFFICES ASSUME BacktestInv
               PROVE  /\ \A k \in DOMAIN results : results[k].job.strategy = "model" =>
                           \A t \in Range(Finished(k)) :
                              t.entry >= Warmup + Len(labels) + Duration
                      /\ Warmup + Len(labels) + Duration
                           <= Greater(TrainEnd(Len(series)), Warmup + Duration)
    BY DEF HeldOut
  <2> DEFINE slice == TrainEnd(Len(series))
  <2>1. /\ Len(series) \in Nat /\ Duration \in Nat \ {0} /\ Warmup \in Nat
        /\ MinExamples \in Nat \ {0} /\ slice \in Nat
    BY SeqFacts, BacktestAssumption, TrainEndLies DEF BacktestInv
  <2>2. Len(LabelsOf(series)) = Greater(0, slice - Duration - Warmup)
    BY <2>1, LabelsAre
  <2> HIDE DEF slice
  <2>3. Len(labels) = 0 \/ Len(labels) = Greater(0, slice - Duration - Warmup)
    BY <2>2, EmptyIsSeq DEF BacktestInv, PlanInv
  <2>4. Warmup + Len(labels) + Duration <= Greater(slice, Warmup + Duration)
    BY <2>1, <2>3 DEF Greater
  <2>5. ASSUME NEW k \in DOMAIN results, results[k].job.strategy = "model",
               NEW t \in Range(Finished(k))
        PROVE  t.entry >= Warmup + Len(labels) + Duration
    <3> DEFINE job == results[k].job
               ts  == results[k].trades
    <3>1. TrainedOn(job) /\ Walked(job, Stop(job), ts) /\ t \in Range(ts) /\ Fits(job)
      BY <2>5 DEF BacktestInv, ModelInv, FinishedInv, Counted, Finished
    <3>2. job.strategy = "model"
      BY <2>5
    <3> HIDE DEF job, ts
    <3>3. /\ labels = LabelsOf(series) /\ Len(labels) >= MinExamples
          /\ job.first = Greater(Warmup, slice)
      BY <3>1, <3>2 DEF TrainedOn, slice
    <3>4. Warmup + Len(labels) + Duration = slice /\ job.first = slice
      BY <2>1, <2>2, <3>3 DEF Greater
    <3>5. t.entry \in job.first..(Stop(job) - 1)
      BY <3>1, WhereTrades
    <3>6. Stop(job) \in Nat
      BY <2>1, <3>1, StopIs DEF Fits
    <3> QED
      BY <2>1, <3>4, <3>5, <3>6
  <2> QED
    BY <2>4, <2>5 DEF slice
<1> QED
  BY <1>1, ChecklistRunsReports, BacktestInvHolds, PTL

-----------------------------------------------------------------------------
(* The fall of the equity curve.                                           *)

Curve == [equity : Int, peak : Int, worst : Int]

Flat == [equity |-> 0, peak |-> 0, worst |-> 0]

\* One trade more.
Onward(s, profit) ==
    LET equity == s.equity + profit
        peak   == Greater(s.peak, equity)
    IN  [equity |-> equity, peak |-> peak, worst |-> Greater(s.worst, peak - equity)]

\* The figures remain integers.
LEMMA OnwardKeeps ==
    ASSUME NEW s \in Curve, NEW profit \in Int PROVE Onward(s, profit) \in Curve
BY DEF Onward, Curve, Greater

\* The one pass of max_drawdown, from trade to trade.
LEMMA DrawdownPass ==
    ASSUME NEW ts, IsSeq(ts), \A i \in DOMAIN ts : ts[i].profit \in Int
    PROVE  \E g \in [0..Len(ts) -> Curve] :
              /\ g[0] = Flat
              /\ \A i \in 1..Len(ts) : g[i] = Onward(g[i - 1], ts[i].profit)
              /\ MaxDrawdown(ts) = g[Len(ts)].worst
<1> DEFINE T == DOMAIN ts
           next(a, x) == Onward(a, ts[x].profit)
           step == [p \in Curve \X T |-> next(p[1], p[2])]
           E(h) == h = [s \in SUBSET T |->
                          IF s = {} THEN Flat ELSE next(h[s \ {Max(s)}], Max(s))]
           iter == CHOOSE h : E(h)
<1>1. Len(ts) \in Nat /\ T = 1..Len(ts) /\ IsFiniteSet(T) /\ T \subseteq Int
  <2>1. Len(ts) \in Nat /\ T = 1..Len(ts)
    BY SeqFacts
  <2>2. IsFiniteSet(1..Len(ts))
    BY <2>1, FS_Interval
  <2> QED
    BY <2>1, <2>2
<1>2. Flat \in Curve
  BY DEF Flat, Curve
<1>3. \A a \in Curve, i \in T : next(a, i) \in Curve /\ step[<<a, i>>] = next(a, i)
  BY OnwardKeeps
<1>4. MaxDrawdown(ts) = iter[T].worst
  BY Zenon DEF MaxDrawdown, FoldLeft, MapThenFoldSet, Onward, Flat
<1> HIDE DEF T, next, step
<1>5. E(iter)
  <2>1. PICK k : FoldTable(k, Flat, step, T)
    BY <1>1, FoldsExist
  <2>2. k \in [SUBSET T -> Curve]
    <3>1. step \in [Curve \X T -> Curve]
      BY <1>3 DEF step
    <3> QED
      BY <1>1, <1>2, <2>1, <3>1, FoldsKeep
  <2>3. \A s \in SUBSET T : s # {} => Max(s) \in T /\ k[s \ {Max(s)}] \in Curve
    <3> TAKE s \in SUBSET T
    <3> HAVE s # {}
    <3>1. Max(s) \in s
      BY <1>1, MaxIsElement
    <3> QED
      BY <2>2, <3>1
  <2>4. E(k)
    BY <1>3, <2>1, <2>3 DEF FoldTable
  <2> QED
    BY <2>4, Zenon
<1> HIDE DEF iter
<1> DEFINE g == [i \in 0..Len(ts) |-> iter[1..i]]
<1>6. g[0] = Flat
  <2>1. 1..0 = {} /\ {} \in SUBSET T /\ 0 \in 0..Len(ts)
    BY <1>1
  <2> QED
    BY <1>5, <2>1
<1>7. ASSUME NEW i \in 1..Len(ts) PROVE g[i] = Onward(g[i - 1], ts[i].profit)
  <2>1. /\ Max(1..i) = i /\ (1..i) \ {i} = 1..(i - 1) /\ 1..i # {}
        /\ 1..i \in SUBSET T /\ i \in 0..Len(ts) /\ i - 1 \in 0..Len(ts)
    BY <1>1, LastNumber
  <2>2. iter[1..i] = next(iter[1..(i - 1)], i)
    BY <1>5, <2>1
  <2> QED
    BY <2>1, <2>2 DEF next
<1>8. g[Len(ts)] = iter[T]
  BY <1>1
<1> HIDE DEF g
<1>9. \A i \in 0..Len(ts) : g[i] \in Curve
  <2> DEFINE B == {i \in 0..Len(ts) : g[i] \notin Curve}
  <2> SUFFICES ASSUME B # {} PROVE FALSE
    OBVIOUS
  <2>1. PICK m \in B : \A j \in B : m <= j
    <3>1. B \subseteq 0..Len(ts)
      OBVIOUS
    <3> HIDE DEF B
    <3> QED
      BY <1>1, <3>1, FirstNumber
  <2>2. m \in 1..Len(ts) /\ m - 1 \in 0..Len(ts) /\ m - 1 < m
    BY <1>1, <1>2, <1>6
  <2>3. g[m - 1] \in Curve
    BY <2>1, <2>2
  <2>4. g[m] \in Curve
    BY <1>1, <1>7, <2>2, <2>3, OnwardKeeps
  <2> QED
    BY <2>4
<1>10. g \in [0..Len(ts) -> Curve]
  <2>1. g = [i \in 0..Len(ts) |-> g[i]]
    BY DEF g
  <2> QED
    BY <1>9, <2>1
<1> QED
  BY <1>4, <1>6, <1>7, <1>8, <1>10

\* The total profit is a sum over the trades.
LEMMA ProfitIsSum ==
    ASSUME NEW ts, IsFiniteSet(DOMAIN ts)
    PROVE  TotalProfit(ts) = SumOf([i \in DOMAIN ts |-> ts[i].profit], DOMAIN ts)
<1> DEFINE T == DOMAIN ts
           v(i) == ts[i].profit
           f == [i \in T |-> v(i)]
           E(h) == h = [s \in SUBSET T |->
                          IF s = {} THEN 0 ELSE v(Some(s)) + h[s \ {Some(s)}]]
           iter == CHOOSE h : E(h)
<1>1. \A h : E(h) <=> Sums(h, f, T)
  <2>1. \A s \in SUBSET T : s # {} => f[Some(s)] = v(Some(s))
    BY SomeIsElement
  <2> HIDE DEF v
  <2> QED
    BY <2>1 DEF Sums
<1>2. E(iter)
  <2>1. \E h : E(h)
    BY <1>1, SumsExist
  <2> QED
    BY <2>1, Zenon
<1>3. TotalProfit(ts) = iter[T]
  BY Zenon DEF TotalProfit, MapThenSumSet, MapThenFoldSet, Some
<1>4. Sums(iter, f, T)
  BY <1>1, <1>2
<1> HIDE DEF iter, f
<1>5. SumOf(f, T) = iter[T]
  BY <1>4, TablesAgree
<1> QED
  BY <1>3, <1>5 DEF f

\* The equity after the first i trades.
Equity(ts, i) == TotalProfit(SubSeq(ts, 1, i))

\* It begins with nothing, and each trade adds its profit.
LEMMA EquitySteps ==
    ASSUME NEW ts, IsSeq(ts), \A i \in DOMAIN ts : ts[i].profit \in Int
    PROVE  /\ Equity(ts, 0) = 0 /\ Equity(ts, Len(ts)) = TotalProfit(ts)
           /\ \A i \in 0..Len(ts) : Equity(ts, i) \in Int
           /\ \A i \in 1..Len(ts) : Equity(ts, i) = Equity(ts, i - 1) + ts[i].profit
<1> DEFINE f == [j \in DOMAIN ts |-> ts[j].profit]
<1>1. Len(ts) \in Nat /\ DOMAIN ts = 1..Len(ts) /\ ts \in Seq(Elems(ts))
  BY SeqFacts DEF IsSeq
<1>2. ASSUME NEW i \in 0..Len(ts)
      PROVE  /\ Equity(ts, i) = SumOf(f, 1..i) /\ Equity(ts, i) \in Int
             /\ IsFiniteSet(1..i)
  <2> DEFINE us == SubSeq(ts, 1, i)
             e  == [j \in DOMAIN us |-> us[j].profit]
  <2>1. i \in Nat /\ i <= Len(ts) /\ 1..i \subseteq DOMAIN ts
    BY <1>1
  <2>2. DOMAIN us = 1..i /\ \A j \in 1..i : us[j] = ts[j]
    BY <1>1, <2>1
  <2>3. IsFiniteSet(1..i)
    BY <2>1, FS_Interval
  <2>4. \A j \in 1..i : e[j] = f[j] /\ e[j] \in Int
    BY <2>1, <2>2
  <2> HIDE DEF us
  <2>5. Equity(ts, i) = SumOf(e, 1..i)
    BY <2>2, <2>3, ProfitIsSum DEF Equity, us
  <2> HIDE DEF e, f
  <2>6. SumOf(e, 1..i) = SumOf(f, 1..i) /\ SumOf(e, 1..i) \in Int
    BY <2>3, <2>4, SumOfSame, SumOfIntegers
  <2> QED
    BY <2>3, <2>5, <2>6
<1>3. \A j \in DOMAIN ts : f[j] = ts[j].profit /\ f[j] \in Int
  OBVIOUS
<1> HIDE DEF f
<1>4. Equity(ts, 0) = 0
  <2>1. 1..0 = {} /\ 0 \in 0..Len(ts)
    BY <1>1
  <2> QED
    BY <1>2, <2>1, SumOfNothing
<1>5. Equity(ts, Len(ts)) = TotalProfit(ts)
  <2>1. SubSeq(ts, 1, Len(ts)) = ts
    BY <1>1
  <2> QED
    BY <2>1 DEF Equity
<1>6. ASSUME NEW i \in 1..Len(ts) PROVE Equity(ts, i) = Equity(ts, i - 1) + ts[i].profit
  <2> DEFINE T == 1..(i - 1)
  <2>1. /\ i \in 0..Len(ts) /\ i - 1 \in 0..Len(ts) /\ i \notin T /\ 1..i = T \cup {i}
        /\ T \cup {i} \subseteq DOMAIN ts /\ i \in DOMAIN ts
    BY <1>1
  <2>2. /\ Equity(ts, i) = SumOf(f, 1..i) /\ Equity(ts, i - 1) = SumOf(f, T)
        /\ IsFiniteSet(T) /\ SumOf(f, T) \in Int
    BY <1>2, <2>1
  <2> HIDE DEF T
  <2>3. \A x \in T \cup {i} : f[x] \in Int
    BY <1>3, <2>1
  <2>4. SumOf(f, T \cup {i}) = f[i] + SumOf(f, T)
    BY <2>1, <2>2, <2>3, SumOfOneMore
  <2>5. SumOf(f, 1..i) = SumOf(f, T \cup {i}) /\ f[i] = ts[i].profit /\ f[i] \in Int
    BY <1>3, <2>1
  <2> QED
    BY <2>2, <2>4, <2>5
<1> QED
  BY <1>2, <1>4, <1>5, <1>6

\* Up to the trade n the pass has found the equity, its highest point and its
\* deepest fall.
Found(ts, s, n) ==
    /\ s \in Curve /\ s.equity = Equity(ts, n)
    /\ \A i \in 0..n : s.peak >= Equity(ts, i)
    /\ \E i \in 0..n : s.peak = Equity(ts, i)
    /\ \A i, j \in 0..n : i <= j => s.worst >= Equity(ts, i) - Equity(ts, j)
    /\ \E i, j \in 0..n : i <= j /\ s.worst = Equity(ts, i) - Equity(ts, j)

\* One trade more, and the worst fall found is still the worst there is.
LEMMA FoundOnward ==
    ASSUME NEW ts, IsSeq(ts), \A i \in DOMAIN ts : ts[i].profit \in Int,
           NEW n \in 1..Len(ts), NEW s, Found(ts, s, n - 1)
    PROVE  Found(ts, Onward(s, ts[n].profit), n)
<1> DEFINE u == Onward(s, ts[n].profit)
           eq == Equity(ts, n)
<1>1. Len(ts) \in Nat /\ DOMAIN ts = 1..Len(ts)
  BY SeqFacts
<1>2. \A i \in 0..n : Equity(ts, i) \in Int
  BY <1>1, EquitySteps
<1>3. eq = Equity(ts, n - 1) + ts[n].profit /\ ts[n].profit \in Int /\ eq \in Int
  BY <1>1, <1>2, EquitySteps
<1>4. s \in Curve /\ s.equity = Equity(ts, n - 1)
  BY DEF Found
<1>5. s.peak \in Int /\ s.worst \in Int /\ s.equity \in Int
  BY <1>4 DEF Curve
<1>6. /\ u.equity = eq /\ u.peak = Greater(s.peak, eq)
      /\ u.worst = Greater(s.worst, u.peak - eq) /\ u \in Curve
  BY <1>3, <1>4, OnwardKeeps DEF Onward
<1> HIDE DEF u
<1>7. \A i \in 0..n : i \in 0..(n - 1) \/ i = n
  OBVIOUS
<1>8. n \in 0..n /\ 0..(n - 1) \subseteq 0..n
  OBVIOUS
<1>9. /\ u.peak \in Int /\ u.peak >= s.peak /\ u.peak >= eq
      /\ u.peak = s.peak \/ u.peak = eq
      /\ u.worst >= s.worst /\ u.worst >= u.peak - eq
      /\ u.worst = s.worst \/ u.worst = u.peak - eq
      /\ u.worst \in Int
  BY <1>3, <1>5, <1>6 DEF Greater
<1>10. \A i \in 0..(n - 1) : s.peak >= Equity(ts, i) /\ Equity(ts, i) \in Int
  BY <1>2, <1>8 DEF Found
<1>11. \A i \in 0..n : u.peak >= Equity(ts, i)
  BY <1>5, <1>7, <1>9, <1>10
<1>12. \E i \in 0..n : u.peak = Equity(ts, i)
  BY <1>8, <1>9 DEF Found
<1>13. ASSUME NEW i \in 0..n, NEW j \in 0..n, i <= j
       PROVE  u.worst >= Equity(ts, i) - Equity(ts, j)
  <2>1. CASE j = n
    <3>1. u.peak >= Equity(ts, i) /\ Equity(ts, i) \in Int
      BY <1>2, <1>11
    <3> QED
      BY <1>3, <1>9, <2>1, <3>1
  <2>2. CASE j # n
    <3>1. i \in 0..(n - 1) /\ j \in 0..(n - 1)
      BY <1>13, <2>2
    <3>2. s.worst >= Equity(ts, i) - Equity(ts, j)
      BY <1>13, <3>1 DEF Found
    <3> QED
      BY <1>2, <1>5, <1>9, <3>2
  <2> QED
    BY <2>1, <2>2
<1>14. \E i, j \in 0..n : i <= j /\ u.worst = Equity(ts, i) - Equity(ts, j)
  <2>1. CASE u.worst = s.worst
    <3>1. PICK i \in 0..(n - 1), j \in 0..(n - 1) :
             i <= j /\ s.worst = Equity(ts, i) - Equity(ts, j)
      BY DEF Found
    <3> QED
      BY <1>8, <2>1, <3>1
  <2>2. CASE u.worst = u.peak - eq
    <3>1. PICK i \in 0..n : u.peak = Equity(ts, i)
      BY <1>12
    <3>2. i <= n /\ n \in 0..n
      OBVIOUS
    <3> QED
      BY <2>2, <3>1, <3>2
  <2> QED
    BY <1>9, <2>1, <2>2
<1> QED
  BY <1>6, <1>11, <1>12, <1>13, <1>14 DEF Found, u

\* What the pass of max_drawdown comes to.
LEMMA DrawdownFound ==
    ASSUME NEW ts, IsSeq(ts), \A i \in DOMAIN ts : ts[i].profit \in Int
    PROVE  \E s : MaxDrawdown(ts) = s.worst /\ Found(ts, s, Len(ts))
<1>1. Len(ts) \in Nat
  BY SeqFacts
<1>2. PICK g \in [0..Len(ts) -> Curve] :
         /\ g[0] = Flat
         /\ \A i \in 1..Len(ts) : g[i] = Onward(g[i - 1], ts[i].profit)
         /\ MaxDrawdown(ts) = g[Len(ts)].worst
  BY DrawdownPass
<1>3. \A i \in 0..Len(ts) : Found(ts, g[i], i)
  <2> DEFINE B == {i \in 0..Len(ts) : ~Found(ts, g[i], i)}
  <2> SUFFICES ASSUME B # {} PROVE FALSE
    OBVIOUS
  <2>1. PICK m \in B : \A j \in B : m <= j
    <3>1. B \subseteq 0..Len(ts)
      OBVIOUS
    <3> HIDE DEF B
    <3> QED
      BY <1>1, <3>1, FirstNumber
  <2>2. CASE m = 0
    <3>1. Equity(ts, 0) = 0
      BY EquitySteps
    <3>2. \A i \in 0..0 : i = 0
      OBVIOUS
    <3>3. 0 \in 0..0
      OBVIOUS
    <3>4. Found(ts, Flat, 0)
      BY <3>1, <3>2, <3>3 DEF Found, Flat, Curve
    <3> QED
      BY <1>2, <2>2, <3>4
  <2>3. CASE m # 0
    <3>1. m \in 1..Len(ts) /\ m - 1 \in 0..Len(ts) /\ m - 1 < m
      BY <1>1, <2>3
    <3>2. Found(ts, g[m - 1], m - 1)
      BY <2>1, <3>1
    <3>3. g[m] = Onward(g[m - 1], ts[m].profit)
      BY <1>2, <3>1
    <3>4. Found(ts, g[m], m)
      BY <3>1, <3>2, <3>3, FoundOnward
    <3> QED
      BY <3>4
  <2> QED
    BY <2>2, <2>3
<1> QED
  BY <1>1, <1>2, <1>3

\* The trades of a finished back-test are a list, and their profits numbers.
LEMMA TradesAreNumbers ==
    ASSUME BacktestInv, NEW k \in DOMAIN results
    PROVE  /\ IsSeq(Finished(k))
           /\ \A i \in DOMAIN Finished(k) : Finished(k)[i].profit \in {WinProfit, -Stake}
<1>1. Walked(results[k].job, Stop(results[k].job), Finished(k))
  BY DEF BacktestInv, FinishedInv, Counted, Finished
<1>2. \A e, x : Resolved(e, x).profit \in {WinProfit, -Stake}
  BY DEF Resolved
<1> QED
  BY <1>1, <1>2 DEF Walked

\* max_drawdown of a back-test is the deepest fall between any two points of
\* its equity curve.
THEOREM DrawdownIsFall == ChecklistSpec => []DrawdownIsWorstFall
<1>1. BacktestInv => DrawdownIsWorstFall
  <2> SUFFICES ASSUME BacktestInv, NEW k \in DOMAIN results
               PROVE  LET ts == Finished(k)
                          fall(i, j) == TotalProfit(SubSeq(ts, 1, i)) - TotalProfit(SubSeq(ts, 1, j))
                          pairs == {p \in (0..Len(ts)) \X (0..Len(ts)) : p[1] <= p[2]}
                      IN  MaxDrawdown(ts) = Max({fall(p[1], p[2]) : p \in pairs})
    BY DEF DrawdownIsWorstFall
  <2> DEFINE ts == Finished(k)
             n  == Len(ts)
             pairs == {p \in (0..n) \X (0..n) : p[1] <= p[2]}
             falls == {Equity(ts, p[1]) - Equity(ts, p[2]) : p \in pairs}
  <2>1. IsSeq(ts) /\ \A i \in DOMAIN ts : ts[i].profit \in Int
    BY TradesAreNumbers, BacktestAssumption
  <2> HIDE DEF ts
  <2>2. PICK s : MaxDrawdown(ts) = s.worst /\ Found(ts, s, n)
    BY <2>1, DrawdownFound
  <2>3. \A i \in 0..n : Equity(ts, i) \in Int
    BY <2>1, EquitySteps
  <2> HIDE DEF n
  <2>4. falls \subseteq Int
    BY <2>3
  <2>5. s.worst \in falls
    <3>1. PICK i \in 0..n, j \in 0..n : i <= j /\ s.worst = Equity(ts, i) - Equity(ts, j)
      BY <2>2 DEF Found
    <3>2. <<i, j>> \in pairs
      BY <3>1
    <3> QED
      BY <3>1, <3>2
  <2>6. \A y \in falls : s.worst >= y
    BY <2>2 DEF Found
  <2> HIDE DEF falls
  <2>7. Max(falls) = s.worst
    BY <2>4, <2>5, <2>6, MaxIs
  <2> QED
    BY <2>2, <2>7 DEF falls, n, ts, Equity
<1> QED
  BY <1>1, ChecklistRunsReports, BacktestInvHolds, PTL

-----------------------------------------------------------------------------
(* The ruin of a Monte Carlo path.                                         *)

Account == [bankroll : Int, ruined : BOOLEAN]

Opening == [bankroll |-> 20 * Bankroll, ruined |-> FALSE]

\* One trade more.
Spend(s, profit) ==
    LET left == s.bankroll + profit
    IN  [bankroll |-> left, ruined |-> s.ruined \/ left <= 0]

\* What it leaves.
LEMMA Spent ==
    ASSUME NEW s, NEW profit
    PROVE  /\ Spend(s, profit).bankroll = s.bankroll + profit
           /\ Spend(s, profit).ruined <=> s.ruined \/ s.bankroll + profit <= 0
<1> DEFINE left == s.bankroll + profit
           over == s.ruined \/ left <= 0
<1>1. Spend(s, profit) = [bankroll |-> left, ruined |-> over]
  BY DEF Spend
<1> HIDE DEF left, over
<1>2. Spend(s, profit).bankroll = left
  BY <1>1
<1>3. Spend(s, profit).ruined = over
  <2>1. \A x, y : [bankroll |-> x, ruined |-> y].ruined = y
    OBVIOUS
  <2> QED
    BY <1>1, <2>1, Zenon
<1> QED
  BY <1>2, <1>3, Zenon DEF left, over

\* It leaves an account.
LEMMA SpendKeeps ==
    ASSUME NEW s \in Account, NEW profit \in Int PROVE Spend(s, profit) \in Account
<1>1. s.bankroll + profit \in Int
  BY DEF Account
<1>2. (s.ruined \/ s.bankroll + profit <= 0) \in BOOLEAN
  OBVIOUS
<1> QED
  BY <1>1, <1>2, Zenon DEF Spend, Account

\* The pass of a Monte Carlo path, from trade to trade.
LEMMA RuinPass ==
    ASSUME NEW path, IsSeq(path), \A i \in DOMAIN path : path[i] \in Int
    PROVE  \E g \in [0..Len(path) -> Account] :
              /\ g[0] = Opening
              /\ \A i \in 1..Len(path) : g[i] = Spend(g[i - 1], path[i])
              /\ Ruined(path) = g[Len(path)].ruined
<1> DEFINE T == DOMAIN path
           next(a, x) == Spend(a, path[x])
           step == [p \in Account \X T |-> next(p[1], p[2])]
           E(h) == h = [s \in SUBSET T |->
                          IF s = {} THEN Opening ELSE next(h[s \ {Max(s)}], Max(s))]
           iter == CHOOSE h : E(h)
<1>1. Len(path) \in Nat /\ T = 1..Len(path) /\ IsFiniteSet(T) /\ T \subseteq Int
  <2>1. Len(path) \in Nat /\ T = 1..Len(path)
    BY SeqFacts
  <2>2. IsFiniteSet(1..Len(path))
    BY <2>1, FS_Interval
  <2> QED
    BY <2>1, <2>2
<1>2. Opening \in Account
  BY ChecklistAssumption DEF Opening, Account
<1>3. \A a \in Account, i \in T : next(a, i) \in Account /\ step[<<a, i>>] = next(a, i)
  BY SpendKeeps
<1>4. Ruined(path) = iter[T].ruined
  BY Zenon DEF Ruined, FoldLeft, MapThenFoldSet, Spend, Opening
<1> HIDE DEF T, next, step
<1>5. E(iter)
  <2>1. PICK k : FoldTable(k, Opening, step, T)
    BY <1>1, FoldsExist
  <2>2. k \in [SUBSET T -> Account]
    <3>1. step \in [Account \X T -> Account]
      BY <1>3 DEF step
    <3> QED
      BY <1>1, <1>2, <2>1, <3>1, FoldsKeep
  <2>3. \A s \in SUBSET T : s # {} => Max(s) \in T /\ k[s \ {Max(s)}] \in Account
    <3> TAKE s \in SUBSET T
    <3> HAVE s # {}
    <3>1. Max(s) \in s
      BY <1>1, MaxIsElement
    <3> QED
      BY <2>2, <3>1
  <2>4. E(k)
    BY <1>3, <2>1, <2>3 DEF FoldTable
  <2> QED
    BY <2>4, Zenon
<1> HIDE DEF iter
<1> DEFINE g == [i \in 0..Len(path) |-> iter[1..i]]
<1>6. g[0] = Opening
  <2>1. 1..0 = {} /\ {} \in SUBSET T /\ 0 \in 0..Len(path)
    BY <1>1
  <2> QED
    BY <1>5, <2>1
<1>7. ASSUME NEW i \in 1..Len(path) PROVE g[i] = Spend(g[i - 1], path[i])
  <2>1. /\ Max(1..i) = i /\ (1..i) \ {i} = 1..(i - 1) /\ 1..i # {}
        /\ 1..i \in SUBSET T /\ i \in 0..Len(path) /\ i - 1 \in 0..Len(path)
    BY <1>1, LastNumber
  <2>2. iter[1..i] = next(iter[1..(i - 1)], i)
    BY <1>5, <2>1
  <2> QED
    BY <2>1, <2>2 DEF next
<1>8. g[Len(path)] = iter[T]
  BY <1>1
<1> HIDE DEF g
<1>9. \A i \in 0..Len(path) : g[i] \in Account
  <2> DEFINE B == {i \in 0..Len(path) : g[i] \notin Account}
  <2> SUFFICES ASSUME B # {} PROVE FALSE
    OBVIOUS
  <2>1. PICK m \in B : \A j \in B : m <= j
    <3>1. B \subseteq 0..Len(path)
      OBVIOUS
    <3> HIDE DEF B
    <3> QED
      BY <1>1, <3>1, FirstNumber
  <2>2. m \in 1..Len(path) /\ m - 1 \in 0..Len(path) /\ m - 1 < m
    BY <1>1, <1>2, <1>6
  <2>3. g[m - 1] \in Account
    BY <2>1, <2>2
  <2>4. g[m] \in Account
    BY <1>1, <1>7, <2>2, <2>3, SpendKeeps
  <2> QED
    BY <2>4
<1>10. g \in [0..Len(path) -> Account]
  <2>1. g = [i \in 0..Len(path) |-> g[i]]
    BY DEF g
  <2> QED
    BY <1>9, <2>1
<1> QED
  BY <1>4, <1>6, <1>7, <1>8, <1>10

\* A path is ruined if the bankroll is used up at some point of it.
LEMMA RuinIs ==
    ASSUME NEW path, IsSeq(path), \A i \in DOMAIN path : path[i] \in Int,
           NEW left \in [0..Len(path) -> Int], left[0] = 20 * Bankroll,
           \A i \in 1..Len(path) : left[i] = left[i - 1] + path[i]
    PROVE  Ruined(path) <=> \E i \in 1..Len(path) : left[i] <= 0
<1>1. Len(path) \in Nat /\ DOMAIN path = 1..Len(path)
  BY SeqFacts
<1>2. PICK g \in [0..Len(path) -> Account] :
         /\ g[0] = Opening
         /\ \A i \in 1..Len(path) : g[i] = Spend(g[i - 1], path[i])
         /\ Ruined(path) = g[Len(path)].ruined
  BY RuinPass
<1> DEFINE Used(i) == \E j \in 1..i : left[j] <= 0
           Agrees(i) == g[i].bankroll = left[i] /\ (g[i].ruined <=> Used(i))
<1>3. Agrees(0)
  <2>1. g[0].bankroll = left[0] /\ g[0].ruined = FALSE
    BY <1>2 DEF Opening
  <2>2. ~Used(0)
    OBVIOUS
  <2> QED
    BY <2>1, <2>2
<1>4. ASSUME NEW i \in 1..Len(path), Agrees(i - 1) PROVE Agrees(i)
  <2>1. /\ g[i].bankroll = g[i - 1].bankroll + path[i]
        /\ g[i].ruined <=> g[i - 1].ruined \/ g[i - 1].bankroll + path[i] <= 0
    <3>1. g[i] = Spend(g[i - 1], path[i])
      BY <1>2
    <3> QED
      BY <3>1, Spent
  <2>2. left[i] = left[i - 1] + path[i]
    OBVIOUS
  <2>3. Used(i) <=> Used(i - 1) \/ left[i] <= 0
    <3>1. \A j : j \in 1..i <=> j \in 1..(i - 1) \/ j = i
      BY <1>1
    <3> QED
      BY <3>1, Zenon
  <2> HIDE DEF Used
  <2> QED
    BY <1>4, <2>1, <2>2, <2>3
<1> HIDE DEF Agrees
<1>5. \A i \in 0..Len(path) : Agrees(i)
  <2> DEFINE B == {i \in 0..Len(path) : ~Agrees(i)}
  <2> SUFFICES ASSUME B # {} PROVE FALSE
    OBVIOUS
  <2>1. PICK m \in B : \A j \in B : m <= j
    <3>1. B \subseteq 0..Len(path)
      OBVIOUS
    <3> HIDE DEF B
    <3> QED
      BY <1>1, <3>1, FirstNumber
  <2>2. m \in 1..Len(path) /\ m - 1 \in 0..Len(path) /\ m - 1 < m
    BY <1>1, <1>3, <2>1
  <2>3. Agrees(m - 1)
    BY <2>1, <2>2
  <2> QED
    BY <1>4, <2>2, <2>3
<1>6. Agrees(Len(path))
  BY <1>1, <1>5
<1> QED
  BY <1>2, <1>6, Zenon DEF Agrees

\* A path that repeats one trade is ruined if it is when the trade has been
\* taken often enough.
LEMMA RepeatedRuin ==
    ASSUME NEW pnl, IsSeq(pnl), NEW profit \in Int
    PROVE  Ruined(Repeating(profit, pnl))
             <=> \E i \in 1..Len(pnl) : 20 * Bankroll + i * profit <= 0
<1> DEFINE path == Repeating(profit, pnl)
           n    == Len(pnl)
           left == [i \in 0..n |-> 20 * Bankroll + i * profit]
<1>1. n \in Nat /\ DOMAIN pnl = 1..n
  BY SeqFacts
<1>2. path = [i \in 1..n |-> path[i]] /\ \A i \in 1..n : path[i] = profit
  BY <1>1 DEF Repeating
<1> HIDE DEF path, n
<1>3. IsSeq(path) /\ Len(path) = n /\ DOMAIN path = 1..n
  BY <1>1, <1>2, ListIsSeq
<1>4. left \in [0..n -> Int] /\ left[0] = 20 * Bankroll
  <2>1. 20 * Bankroll \in Int /\ 0 \in 0..n
    BY <1>1, ChecklistAssumption
  <2> QED
    BY <1>1, <2>1
<1>5. \A i \in 1..n : left[i] = left[i - 1] + path[i]
  <2> TAKE i \in 1..n
  <2>1. i \in 0..n /\ i - 1 \in 0..n /\ i \in Int
    BY <1>1
  <2>2. i * profit = (i - 1) * profit + profit
    BY <2>1
  <2>3. i * profit \in Int /\ (i - 1) * profit \in Int /\ 20 * Bankroll \in Int
    BY <2>1, ChecklistAssumption
  <2> QED
    BY <1>2, <2>1, <2>2, <2>3
<1>6. \A i \in 1..n : left[i] = 20 * Bankroll + i * profit
  BY <1>1
<1> HIDE DEF left
<1>7. Ruined(path) <=> \E i \in 1..Len(path) : left[i] <= 0
  BY <1>2, <1>3, <1>4, <1>5, RuinIs
<1> QED
  BY <1>3, <1>6, <1>7 DEF path, n

\* A list of profits that is as long and holds one that is as bad can ruin the
\* account if the other can.
LEMMA WorseRuins ==
    ASSUME NEW a, IsSeq(a), \A i \in DOMAIN a : a[i] \in Int, CanBeRuined(a),
           NEW b, IsSeq(b), \A i \in DOMAIN b : b[i] \in Int, Len(a) <= Len(b),
           NEW j \in DOMAIN b, b[j] <= Min(Range(a))
    PROVE  CanBeRuined(b)
<1> DEFINE u == Min(Range(a))
           v == Min(Range(b))
<1>1. /\ Len(a) \in Nat /\ DOMAIN a = 1..Len(a) /\ Len(b) \in Nat /\ DOMAIN b = 1..Len(b)
      /\ b # <<>> /\ a # <<>>
  BY SeqFacts, EmptyIsSeq DEF CanBeRuined
<1>2. Range(a) = Elems(a) /\ Range(b) = Elems(b)
  BY DEF Range, Elems
<1>3. /\ Elems(a) \subseteq Int /\ Elems(a) # {} /\ IsFiniteSet(Elems(a))
      /\ Elems(b) \subseteq Int /\ Elems(b) # {} /\ IsFiniteSet(Elems(b))
  <2>1. 1 \in DOMAIN a
    BY <1>1, SeqFacts
  <2> QED
    BY <2>1, ElemsFinite DEF Elems
<1>4. u \in Int /\ v \in Int /\ v <= u
  <2>1. Min(Elems(a)) \in Elems(a)
    BY <1>3, Least
  <2>2. Min(Elems(b)) \in Elems(b) /\ Min(Elems(b)) <= b[j]
    <3>1. b[j] \in Elems(b)
      BY DEF Elems
    <3> QED
      BY <1>3, <3>1, Least
  <2>3. u \in Int /\ v \in Int /\ v <= b[j]
    BY <1>2, <1>3, <2>1, <2>2
  <2> HIDE DEF v
  <2> QED
    BY <2>3
<1> HIDE DEF u, v
<1>5. PICK i \in 1..Len(a) : 20 * Bankroll + i * u <= 0
  BY <1>4, RepeatedRuin DEF CanBeRuined, u
<1>6. i \in 1..Len(b) /\ i \in Nat
  BY <1>1
<1>7. i * v <= i * u /\ i * v \in Int /\ i * u \in Int /\ 20 * Bankroll \in Int
  BY <1>4, <1>6, ChecklistAssumption
<1>8. 20 * Bankroll + i * v <= 0
  BY <1>5, <1>7
<1>9. Ruined(Repeating(v, b))
  BY <1>4, <1>6, <1>8, RepeatedRuin
<1> QED
  BY <1>1, <1>9 DEF CanBeRuined, v

\* A list of trades as a back-test makes them.
AreTrades(ts) == IsSeq(ts) /\ \A i \in DOMAIN ts : ts[i].profit \in {WinProfit, -Stake}

\* The wins of a list, which are fewer than its trades when one is a loss.
LEMMA WinsAreFewer ==
    ASSUME NEW ts, AreTrades(ts)
    PROVE  /\ WinCount(ts) \in Nat /\ WinCount(ts) <= Len(ts)
           /\ \A i \in DOMAIN ts : ~Won(ts[i]) => WinCount(ts) < Len(ts)
<1> DEFINE wins == {i \in DOMAIN ts : Won(ts[i])}
<1>1. Len(ts) \in Nat /\ DOMAIN ts = 1..Len(ts)
  BY SeqFacts DEF AreTrades
<1>2. IsFiniteSet(1..Len(ts)) /\ Cardinality(1..Len(ts)) = Len(ts)
  BY <1>1, IntervalSize
<1>3. wins \subseteq 1..Len(ts)
  BY <1>1
<1>4. IsFiniteSet(wins) /\ Cardinality(wins) \in Nat /\ Cardinality(wins) <= Len(ts)
  BY <1>2, <1>3, FS_Subset, FS_CardinalityType
<1>5. Cardinality(wins) = Len(ts) => wins = 1..Len(ts)
  BY <1>2, <1>3, FS_Subset
<1>6. ASSUME NEW i \in DOMAIN ts, ~Won(ts[i]) PROVE Cardinality(wins) # Len(ts)
  BY <1>1, <1>5, <1>6
<1> HIDE DEF wins
<1>7. \A i \in DOMAIN ts : ~Won(ts[i]) => Cardinality(wins) < Len(ts)
  BY <1>1, <1>4, <1>6
<1> QED
  BY <1>4, <1>7 DEF WinCount, wins

\* Rounding is to within a half.
LEMMA RoundedIs ==
    ASSUME NEW tenths \in Nat
    PROVE  Rounded(tenths) \in Nat /\ 10 * Rounded(tenths) - tenths \in -5..5
<1> DEFINE whole == tenths \div 10
           rest  == tenths % 10
           odd   == whole % 2 = 1
<1>1. whole \in Nat /\ rest \in 0..9 /\ tenths = 10 * whole + rest
  OBVIOUS
<1>2. Rounded(tenths) = IF rest > 5 \/ (rest = 5 /\ odd) THEN whole + 1 ELSE whole
  BY DEF Rounded
<1> HIDE DEF whole, rest, odd
<1> QED
  BY <1>1, <1>2

\* Fewer wins are a list in which some of the wins stay and all else is a loss;
\* those that do not stay are so many tenths of the trades, or all there are.
LEMMA FewerWinsStay ==
    ASSUME NEW ts, AreTrades(ts), NEW tenths \in Nat
    PROVE  \E stay \in 0..WinCount(ts) :
              /\ FewerWins(ts, tenths)
                   = [i \in 1..Len(ts) |-> IF i <= stay THEN 20 * WinProfit ELSE -20 * Stake]
              /\ stay = 0 \/ 10 * (WinCount(ts) - stay) - tenths * Len(ts) \in -5..5
<1> DEFINE wins  == WinCount(ts)
           m     == tenths * Len(ts)
           less  == Rounded(m)
           flips == Min({wins, less})
<1>1. Len(ts) \in Nat /\ DOMAIN ts = 1..Len(ts) /\ wins \in Nat /\ m \in Nat
  BY SeqFacts, WinsAreFewer DEF AreTrades
<1>2. FewerWins(ts, tenths)
        = [i \in 1..Len(ts) |-> IF i <= wins - flips THEN 20 * WinProfit ELSE -20 * Stake]
  BY <1>1 DEF FewerWins
<1> HIDE DEF m
<1>3. less \in Nat /\ 10 * less - m \in -5..5
  BY <1>1, RoundedIs
<1> HIDE DEF wins, less
<1>4. flips \in 0..wins /\ (flips = wins \/ flips = less)
  <2>1. CASE wins <= less
    <3>1. {wins, less} \subseteq Int /\ \A y \in {wins, less} : wins <= y
      BY <1>1, <1>3, <2>1
    <3>2. flips = wins
      BY <3>1, MinIs
    <3> QED
      BY <1>1, <3>2
  <2>2. CASE less <= wins
    <3>1. {wins, less} \subseteq Int /\ \A y \in {wins, less} : less <= y
      BY <1>1, <1>3, <2>2
    <3>2. flips = less
      BY <3>1, MinIs
    <3> QED
      BY <1>1, <1>3, <2>2, <3>2
  <2> QED
    BY <1>1, <1>3, <2>1, <2>2
<1> HIDE DEF flips
<1>5. wins - flips \in 0..wins /\ wins - (wins - flips) = flips
  BY <1>1, <1>4
<1>6. wins - flips = 0 \/ 10 * (wins - (wins - flips)) - m \in -5..5
  BY <1>1, <1>3, <1>4, <1>5
<1> QED
  BY <1>2, <1>5, <1>6 DEF wins, m

\* Fewer wins are a list as long, in which there is a loss if there was one.
LEMMA FewerWinsAre ==
    ASSUME NEW ts, AreTrades(ts), NEW tenths \in Nat
    PROVE  /\ IsSeq(FewerWins(ts, tenths)) /\ Len(FewerWins(ts, tenths)) = Len(ts)
           /\ \A i \in DOMAIN ts : FewerWins(ts, tenths)[i] \in {20 * WinProfit, -20 * Stake}
           /\ \A i \in DOMAIN ts : ~Won(ts[i]) => FewerWins(ts, tenths)[Len(ts)] = -20 * Stake
<1> DEFINE list == FewerWins(ts, tenths)
           value(stay, i) == IF i <= stay THEN 20 * WinProfit ELSE -20 * Stake
<1>1. Len(ts) \in Nat /\ DOMAIN ts = 1..Len(ts)
  BY SeqFacts DEF AreTrades
<1>2. WinCount(ts) \in Nat /\ \A i \in DOMAIN ts : ~Won(ts[i]) => WinCount(ts) < Len(ts)
  BY WinsAreFewer
<1>3. PICK stay \in 0..WinCount(ts) : list = [i \in 1..Len(ts) |-> value(stay, i)]
  BY FewerWinsStay
<1> HIDE DEF list
<1>4. /\ list = [i \in 1..Len(ts) |-> list[i]]
      /\ \A i \in 1..Len(ts) : list[i] = value(stay, i)
  BY <1>3
<1>5. IsSeq(list) /\ Len(list) = Len(ts)
  BY <1>1, <1>4, ListIsSeq
<1>6. ASSUME NEW i \in DOMAIN ts, ~Won(ts[i]) PROVE list[Len(ts)] = -20 * Stake
  <2>1. Len(ts) \in 1..Len(ts) /\ WinCount(ts) < Len(ts)
    BY <1>1, <1>2, <1>6
  <2> QED
    BY <1>1, <1>2, <1>4, <2>1
<1> QED
  BY <1>1, <1>4, <1>5, <1>6 DEF list

\* The trades of the first report are trades as a back-test makes them, and
\* there are none of it until it is made.
RealInv ==
    /\ phase \in {"idle", "real"} => real = <<>>
    /\ phase \in {"between", "model", "done", "raised"} => real # <<>>
    /\ IsSeq(real) /\ \A k \in DOMAIN real : AreTrades(real[k].trades)

\* The lists of trades made on real prices are lists of trades throughout.
LEMMA RealInvHolds == Spec => []RealInv
<1>1. Init => RealInv
  <2>1. DOMAIN <<>> = {}
    OBVIOUS
  <2> QED
    BY <2>1, EmptyIsSeq DEF Init, RealInv
<1>2. BacktestInv /\ RealInv /\ [Next]_vars => RealInv'
  <2> SUFFICES ASSUME BacktestInv, RealInv, [Next]_vars PROVE RealInv'
    OBVIOUS
  <2>1. CASE RealDone
    <3>1. phase = "real" /\ real' = results /\ phase' \in {"between", "done"} /\ jobs = <<>>
      BY <2>1 DEF RealDone
    <3>2. IsSeq(results) /\ \A k \in DOMAIN results : AreTrades(results[k].trades)
      BY TradesAreNumbers DEF BacktestInv, AreTrades, Finished
    <3>3. results # <<>>
      <4>1. PlanIs(RealJobs(Len(series)))
        BY <3>1 DEF BacktestInv, PlanInv
      <4>2. Len(series) \in Nat
        BY SeqFacts DEF BacktestInv
      <4>3. Len(RealJobs(Len(series))) >= 1
        BY <4>2, RealPlan
      <4> QED
        BY <3>1, <3>2, <4>1, <4>3, EmptyIsSeq, SeqFacts DEF PlanIs
    <3> QED
      BY <3>1, <3>2, <3>3 DEF RealInv
  <2>2. CASE LoadReal \/ LoadModel \/ ModelDone
    BY <2>2 DEF LoadReal, LoadModel, ModelDone, RealInv
  <2>3. CASE UNCHANGED <<phase, real>>
    BY <2>3 DEF RealInv
  <2>4. \/ RealDone \/ LoadReal \/ LoadModel \/ ModelDone
        \/ UNCHANGED <<phase, real>>
    BY DEF Next, CandleStored, reports, Walk, BacktestDone, vars
  <2> QED
    BY <2>1, <2>2, <2>3, <2>4
<1> QED
  BY <1>1, <1>2, BacktestInvHolds, PTL DEF Spec

\* The profits of a list of trades, and the worst of them.
LEMMA ProfitsAre ==
    ASSUME NEW ts, AreTrades(ts), ts # <<>>
    PROVE  /\ IsSeq(Profits(ts)) /\ Len(Profits(ts)) = Len(ts)
           /\ \A i \in DOMAIN ts : Profits(ts)[i] = 20 * ts[i].profit
           /\ \E m \in DOMAIN ts : Min(Range(Profits(ts))) = 20 * ts[m].profit
<1> DEFINE a == Profits(ts)
<1>1. Len(ts) \in Nat \ {0} /\ DOMAIN ts = 1..Len(ts)
  BY SeqFacts DEF AreTrades
<1>2. a = [i \in 1..Len(ts) |-> a[i]] /\ \A i \in 1..Len(ts) : a[i] = 20 * ts[i].profit
  BY <1>1 DEF Profits
<1> HIDE DEF a
<1>3. IsSeq(a) /\ Len(a) = Len(ts) /\ DOMAIN a = DOMAIN ts
  BY <1>1, <1>2, ListIsSeq
<1>4. Range(a) = Elems(a)
  BY DEF Range, Elems
<1>5. Elems(a) \subseteq Int /\ Elems(a) # {} /\ IsFiniteSet(Elems(a))
  <2>1. 1 \in DOMAIN a
    BY <1>1, <1>3
  <2>2. \A i \in 1..Len(ts) : ts[i].profit \in Int
    BY <1>1, BacktestAssumption DEF AreTrades
  <2>3. \A i \in 1..Len(ts) : a[i] \in Int
    <3> TAKE i \in 1..Len(ts)
    <3>1. a[i] = 20 * ts[i].profit /\ ts[i].profit \in Int
      BY <1>2, <2>2
    <3> QED
      BY <3>1
  <2> QED
    BY <1>1, <1>3, <2>1, <2>3, ElemsFinite DEF Elems
<1>6. PICK m \in DOMAIN a : Min(Elems(a)) = a[m]
  <2>1. Min(Elems(a)) \in Elems(a)
    BY <1>5, Least
  <2> QED
    BY <2>1 DEF Elems
<1> QED
  BY <1>1, <1>2, <1>3, <1>4, <1>6 DEF a

\* Profits that are as many, each of which is at most that of its trade, or at
\* least one of which is a loss if a trade was, can ruin the account if the
\* trades can.
LEMMA StressRuins ==
    ASSUME NEW ts, AreTrades(ts), CanBeRuined(Profits(ts)),
           NEW b, IsSeq(b), \A i \in DOMAIN b : b[i] \in Int, Len(ts) <= Len(b),
           \A i \in DOMAIN ts : \E j \in DOMAIN b : b[j] <= 20 * ts[i].profit
    PROVE  CanBeRuined(b)
<1>1. ts # <<>>
  <2> SUFFICES ASSUME ts = <<>> PROVE FALSE
    OBVIOUS
  <2>1. Profits(ts) = <<>>
    BY DEF Profits
  <2> QED
    BY <2>1 DEF CanBeRuined
<1>2. /\ IsSeq(Profits(ts)) /\ Len(Profits(ts)) = Len(ts)
      /\ \A i \in DOMAIN ts : Profits(ts)[i] = 20 * ts[i].profit
  BY <1>1, ProfitsAre
<1>3. PICK m \in DOMAIN ts : Min(Range(Profits(ts))) = 20 * ts[m].profit
  BY <1>1, ProfitsAre
<1>4. PICK j \in DOMAIN b : b[j] <= Min(Range(Profits(ts)))
  BY <1>3
<1>5. \A i \in DOMAIN Profits(ts) : Profits(ts)[i] \in Int
  <2>1. DOMAIN Profits(ts) = DOMAIN ts
    BY DEF Profits
  <2>2. \A i \in DOMAIN ts : ts[i].profit \in Int
    BY BacktestAssumption DEF AreTrades
  <2> TAKE i \in DOMAIN Profits(ts)
  <2>3. Profits(ts)[i] = 20 * ts[i].profit /\ ts[i].profit \in Int
    BY <1>2, <2>1, <2>2
  <2>4. \A x \in Int : 20 * x \in Int
    OBVIOUS
  <2> QED
    BY <2>3, <2>4, Zenon
<1> QED
  BY <1>2, <1>4, <1>5, WorseRuins

\* The profits of a list of trades are integers.
LEMMA ProfitsOf ==
    ASSUME NEW ts, AreTrades(ts)
    PROVE  /\ IsSeq(Profits(ts)) /\ Len(Profits(ts)) = Len(ts)
           /\ \A i \in DOMAIN ts : Profits(ts)[i] = 20 * ts[i].profit /\ Profits(ts)[i] \in Int
<1> DEFINE a == Profits(ts)
<1>1. Len(ts) \in Nat /\ DOMAIN ts = 1..Len(ts)
  BY SeqFacts DEF AreTrades
<1>2. a = [i \in 1..Len(ts) |-> a[i]] /\ \A i \in 1..Len(ts) : a[i] = 20 * ts[i].profit
  BY <1>1 DEF Profits
<1> HIDE DEF a
<1>3. \A i \in 1..Len(ts) : a[i] \in Int
  <2> TAKE i \in 1..Len(ts)
  <2>1. ts[i].profit \in Int /\ a[i] = 20 * ts[i].profit
    BY <1>1, <1>2, BacktestAssumption DEF AreTrades
  <2> QED
    BY <2>1
<1> QED
  BY <1>1, <1>2, <1>3, ListIsSeq DEF a

\* With a lower payout no trade earns more.
LEMMA LowerPayoutIs ==
    ASSUME NEW ts, AreTrades(ts)
    PROVE  /\ IsSeq(LowerPayout(ts)) /\ Len(LowerPayout(ts)) = Len(ts)
           /\ \A i \in DOMAIN ts : /\ LowerPayout(ts)[i] \in Int
                                   /\ LowerPayout(ts)[i] <= 20 * ts[i].profit
<1> DEFINE b == LowerPayout(ts)
<1>1. Len(ts) \in Nat /\ DOMAIN ts = 1..Len(ts) /\ Stake \in Nat \ {0} /\ WinProfit \in Nat \ {0}
  BY SeqFacts, BacktestAssumption DEF AreTrades
<1>2. \A i \in DOMAIN ts : ts[i].profit \in Int /\ (Won(ts[i]) => ts[i].profit = WinProfit)
  BY <1>1 DEF AreTrades, Won
<1>3. /\ b = [i \in 1..Len(ts) |-> b[i]]
      /\ \A i \in 1..Len(ts) :
            b[i] = IF Won(ts[i]) THEN 16 * ts[i].profit ELSE 20 * ts[i].profit
  BY <1>1 DEF LowerPayout
<1> HIDE DEF b
<1>4. ASSUME NEW i \in DOMAIN ts PROVE b[i] \in Int /\ b[i] <= 20 * ts[i].profit
  <2>1. CASE Won(ts[i])
    <3>1. b[i] = 16 * WinProfit /\ ts[i].profit = WinProfit
      BY <1>1, <1>2, <1>3, <2>1
    <3> QED
      BY <1>1, <3>1
  <2>2. CASE ~Won(ts[i])
    <3>1. b[i] = 20 * ts[i].profit /\ ts[i].profit \in Int
      BY <1>1, <1>2, <1>3, <2>2
    <3> QED
      BY <3>1
  <2> QED
    BY <2>1, <2>2
<1> QED
  BY <1>1, <1>3, <1>4, ListIsSeq DEF b

\* With slippage no trade earns more.
LEMMA SlippageIs ==
    ASSUME NEW ts, AreTrades(ts)
    PROVE  /\ IsSeq(Slippage(ts)) /\ Len(Slippage(ts)) = Len(ts)
           /\ \A i \in DOMAIN ts : /\ Slippage(ts)[i] \in Int
                                   /\ Slippage(ts)[i] <= 20 * ts[i].profit
<1> DEFINE b == Slippage(ts)
<1>1. Len(ts) \in Nat /\ DOMAIN ts = 1..Len(ts) /\ Stake \in Nat \ {0}
  BY SeqFacts, BacktestAssumption DEF AreTrades
<1>2. \A i \in DOMAIN ts : ts[i].profit \in Int
  BY BacktestAssumption DEF AreTrades
<1>3. /\ b = [i \in 1..Len(ts) |-> b[i]]
      /\ \A i \in 1..Len(ts) : b[i] = 20 * ts[i].profit - Stake
  BY <1>1 DEF Slippage
<1> HIDE DEF b
<1>4. \A i \in DOMAIN ts : b[i] \in Int /\ b[i] <= 20 * ts[i].profit
  BY <1>1, <1>2, <1>3
<1> QED
  BY <1>1, <1>3, <1>4, ListIsSeq DEF b

\* A losing streak leaves the trades as they are and appends losses.
LEMMA LosingStreakIs ==
    ASSUME NEW ts, AreTrades(ts)
    PROVE  /\ IsSeq(LosingStreak(ts)) /\ Len(LosingStreak(ts)) = Len(ts) + StreakLength
           /\ \A i \in DOMAIN ts : LosingStreak(ts)[i] = Profits(ts)[i]
           /\ \A i \in DOMAIN LosingStreak(ts) :
                 /\ LosingStreak(ts)[i] \in Int
                 /\ i \notin DOMAIN ts => LosingStreak(ts)[i] = -20 * Stake
<1> DEFINE a == Profits(ts)
           b == LosingStreak(ts)
           streak == [i \in 1..StreakLength |-> -20 * Stake]
<1>1. /\ Len(ts) \in Nat /\ DOMAIN ts = 1..Len(ts) /\ Stake \in Nat \ {0}
      /\ StreakLength \in Nat
  BY SeqFacts, BacktestAssumption, ChecklistAssumption DEF AreTrades
<1>2. IsSeq(a) /\ Len(a) = Len(ts) /\ \A i \in DOMAIN ts : a[i] \in Int
  BY ProfitsOf
<1>3. /\ streak = [i \in 1..StreakLength |-> streak[i]]
      /\ \A i \in 1..StreakLength : streak[i] = -20 * Stake
  OBVIOUS
<1>4. b = a \o streak
  BY DEF LosingStreak
<1> HIDE DEF streak, a, b
<1>5. IsSeq(streak) /\ Len(streak) = StreakLength
  BY <1>1, <1>3, ListIsSeq
<1>6. /\ IsSeq(b) /\ Len(b) = Len(ts) + StreakLength
      /\ \A i \in 1..Len(ts) : b[i] = a[i]
      /\ \A i \in 1..StreakLength : b[Len(ts) + i] = streak[i]
  <2>1. IsSeq(a) /\ IsSeq(streak)
    BY <1>2, <1>5
  <2>2. /\ IsSeq(a \o streak) /\ Len(a \o streak) = Len(a) + Len(streak)
        /\ \A i \in 1..Len(a) : (a \o streak)[i] = a[i]
        /\ \A i \in 1..Len(streak) : (a \o streak)[Len(a) + i] = streak[i]
    BY <2>1, Joined
  <2> QED
    BY <1>2, <1>4, <1>5, <2>2
<1>7. DOMAIN b = 1..(Len(ts) + StreakLength)
  BY <1>6, SeqFacts
<1>8. ASSUME NEW i \in DOMAIN b, i \notin DOMAIN ts PROVE b[i] = -20 * Stake
  <2>1. i - Len(ts) \in 1..StreakLength /\ Len(ts) + (i - Len(ts)) = i
    BY <1>1, <1>7, <1>8
  <2>2. b[Len(ts) + (i - Len(ts))] = streak[i - Len(ts)]
    BY <1>6, <2>1
  <2> QED
    BY <1>3, <2>1, <2>2
<1>9. \A i \in DOMAIN b : b[i] \in Int
  <2> TAKE i \in DOMAIN b
  <2>1. CASE i \in DOMAIN ts
    BY <1>1, <1>2, <1>6, <2>1
  <2>2. CASE i \notin DOMAIN ts
    BY <1>1, <1>8, <2>2
  <2> QED
    BY <2>1, <2>2
<1> QED
  BY <1>1, <1>6, <1>8, <1>9 DEF a, b

\* Every scenario that leaves no trade out can ruin the account if the trades
\* can.
LEMMA ScenariosRuin ==
    ASSUME NEW ts, AreTrades(ts), CanBeRuined(Profits(ts))
    PROVE  /\ \A tenths \in Nat : CanBeRuined(FewerWins(ts, tenths))
           /\ CanBeRuined(LowerPayout(ts)) /\ CanBeRuined(Slippage(ts))
           /\ CanBeRuined(LosingStreak(ts))
<1>1. Len(ts) \in Nat /\ DOMAIN ts = 1..Len(ts) /\ Stake \in Nat \ {0} /\ WinProfit \in Nat \ {0}
  BY SeqFacts, BacktestAssumption DEF AreTrades
<1>2. ASSUME NEW i \in DOMAIN ts
      PROVE  /\ ts[i].profit \in Int
             /\ Won(ts[i]) <=> ts[i].profit = WinProfit
             /\ ~Won(ts[i]) <=> ts[i].profit = -Stake
  BY <1>1 DEF AreTrades, Won
<1>3. ASSUME NEW tenths \in Nat PROVE CanBeRuined(FewerWins(ts, tenths))
  <2> DEFINE b == FewerWins(ts, tenths)
  <2>1. /\ IsSeq(b) /\ Len(b) = Len(ts)
        /\ \A i \in DOMAIN ts : b[i] \in {20 * WinProfit, -20 * Stake}
        /\ \A i \in DOMAIN ts : ~Won(ts[i]) => b[Len(ts)] = -20 * Stake
    BY FewerWinsAre
  <2> HIDE DEF b
  <2>2. DOMAIN b = DOMAIN ts
    BY <1>1, <2>1, SeqFacts
  <2>3. \A i \in DOMAIN b : b[i] \in Int
    BY <1>1, <2>1, <2>2
  <2>4. ASSUME NEW i \in DOMAIN ts PROVE \E j \in DOMAIN b : b[j] <= 20 * ts[i].profit
    <3>1. CASE Won(ts[i])
      BY <1>1, <1>2, <2>1, <2>2, <3>1
    <3>2. CASE ~Won(ts[i])
      <4>1. b[Len(ts)] = -20 * Stake /\ Len(ts) \in DOMAIN b
        BY <1>1, <2>1, <2>2, <3>2
      <4> QED
        BY <1>1, <1>2, <3>2, <4>1
    <3> QED
      BY <3>1, <3>2
  <2>5. Len(ts) <= Len(b)
    BY <1>1, <2>1
  <2> QED
    BY <2>1, <2>3, <2>4, <2>5, StressRuins DEF b
<1>4. ASSUME NEW b \in {LowerPayout(ts), Slippage(ts)} PROVE CanBeRuined(b)
  <2>1. /\ IsSeq(b) /\ Len(b) = Len(ts)
        /\ \A i \in DOMAIN ts : b[i] \in Int /\ b[i] <= 20 * ts[i].profit
    BY LowerPayoutIs, SlippageIs
  <2>2. DOMAIN b = DOMAIN ts
    BY <1>1, <2>1, SeqFacts
  <2>3. Len(ts) <= Len(b)
    BY <1>1, <2>1
  <2> QED
    BY <2>1, <2>2, <2>3, StressRuins
<1>5. CanBeRuined(LosingStreak(ts))
  <2> DEFINE b == LosingStreak(ts)
  <2>1. /\ IsSeq(b) /\ Len(b) = Len(ts) + StreakLength /\ StreakLength \in Nat
        /\ \A i \in DOMAIN ts : b[i] = 20 * ts[i].profit
        /\ \A i \in DOMAIN b : b[i] \in Int
    BY LosingStreakIs, ProfitsOf, ChecklistAssumption
  <2> HIDE DEF b
  <2>2. DOMAIN ts \subseteq DOMAIN b /\ Len(ts) <= Len(b)
    <3>1. DOMAIN b = 1..Len(ts) + StreakLength
      BY <2>1, SeqFacts
    <3> QED
      BY <1>1, <2>1, <3>1
  <2>3. \A i \in DOMAIN ts : b[i] <= 20 * ts[i].profit
    BY <1>2, <2>1
  <2> QED
    BY <2>1, <2>2, <2>3, StressRuins DEF b
<1> QED
  BY <1>3, <1>4, <1>5

\* How many of a list's profits reach an amount; and where those of one list
\* that do are among those of another, they are no more.
LEMMA ReachCounts ==
    ASSUME NEW s, IsSeq(s), NEW amount
    PROVE  /\ Reach(s, amount) \subseteq 1..Len(s) /\ IsFiniteSet(Reach(s, amount))
           /\ Cardinality(Reach(s, amount)) \in Nat
           /\ Cardinality(Reach(s, amount)) <= Len(s) /\ Len(s) \in Nat
<1>1. Len(s) \in Nat /\ DOMAIN s = 1..Len(s)
  BY SeqFacts
<1>2. IsFiniteSet(1..Len(s)) /\ Cardinality(1..Len(s)) = Len(s)
  BY <1>1, IntervalSize
<1>3. Reach(s, amount) \subseteq 1..Len(s)
  BY <1>1 DEF Reach
<1> QED
  BY <1>1, <1>2, <1>3, FS_Subset, FS_CardinalityType

\* If no profit of a list is above that of another at its place, its profits
\* are nowhere above those of the other.
LEMMA BelowNeverAbove ==
    ASSUME NEW a, IsSeq(a), NEW b, IsSeq(b), Len(b) = Len(a),
           \A i \in DOMAIN b : a[i] \in Int /\ b[i] \in Int /\ b[i] <= a[i]
    PROVE  NeverAbove(b, a)
<1> SUFFICES ASSUME NEW x \in Range(b)
             PROVE  Cardinality(Reach(b, x)) * Len(a) <= Cardinality(Reach(a, x)) * Len(b)
  BY DEF NeverAbove
<1>1. DOMAIN a = DOMAIN b
  BY SeqFacts
<1>2. x \in Int
  BY DEF Range
<1>3. Reach(b, x) \subseteq Reach(a, x)
  BY <1>1, <1>2 DEF Reach
<1>4. Cardinality(Reach(b, x)) <= Cardinality(Reach(a, x))
  BY <1>3, ReachCounts, FS_Subset
<1>5. Cardinality(Reach(b, x)) \in Nat /\ Cardinality(Reach(a, x)) \in Nat /\ Len(a) \in Nat
  BY ReachCounts
<1> QED
  BY <1>4, <1>5, Products

\* With fewer wins the profits are nowhere above those of the trades.
LEMMA FewerNeverAbove ==
    ASSUME NEW ts, AreTrades(ts), NEW tenths \in Nat
    PROVE  NeverAbove(FewerWins(ts, tenths), Profits(ts))
<1> DEFINE a == Profits(ts)
           b == FewerWins(ts, tenths)
           n == Len(ts)
           wins == WinCount(ts)
<1>1. n \in Nat /\ DOMAIN ts = 1..n /\ Stake \in Nat \ {0} /\ WinProfit \in Nat \ {0}
  BY SeqFacts, BacktestAssumption DEF AreTrades
<1>2. /\ IsSeq(a) /\ Len(a) = n /\ DOMAIN a = 1..n
      /\ \A i \in 1..n : a[i] = 20 * ts[i].profit
  BY <1>1, ProfitsOf, SeqFacts
<1>3. /\ IsSeq(b) /\ Len(b) = n /\ DOMAIN b = 1..n
      /\ \A i \in 1..n : b[i] \in {20 * WinProfit, -20 * Stake}
  BY <1>1, FewerWinsAre, SeqFacts
<1>4. PICK stay \in 0..wins :
         b = [i \in 1..n |-> IF i <= stay THEN 20 * WinProfit ELSE -20 * Stake]
  BY FewerWinsStay
<1>5. wins \in Nat /\ wins = Cardinality({i \in 1..n : Won(ts[i])})
  BY <1>1, WinsAreFewer DEF WinCount
<1>6. \A i \in 1..n : ts[i].profit \in {WinProfit, -Stake}
  BY <1>1 DEF AreTrades
<1> SUFFICES ASSUME NEW x \in Range(b)
             PROVE  Cardinality(Reach(b, x)) * Len(a) <= Cardinality(Reach(a, x)) * Len(b)
  BY DEF NeverAbove
<1> HIDE DEF a, b, wins
<1>7. x \in {20 * WinProfit, -20 * Stake}
  BY <1>3 DEF Range
<1>8. /\ Cardinality(Reach(b, x)) \in Nat /\ Cardinality(Reach(b, x)) <= n
      /\ Cardinality(Reach(a, x)) \in Nat
  BY <1>2, <1>3, ReachCounts
<1>9. Cardinality(Reach(b, x)) <= Cardinality(Reach(a, x))
  <2>1. CASE x = 20 * WinProfit
    <3>1. Reach(b, x) \subseteq 1..stay
      BY <1>1, <1>3, <1>4, <1>5, <2>1 DEF Reach
    <3>2. IsFiniteSet(1..stay) /\ Cardinality(1..stay) = stay
      BY <1>5, IntervalSize
    <3>3. Cardinality(Reach(b, x)) <= stay
      BY <3>1, <3>2, FS_Subset
    <3>4. {i \in 1..n : Won(ts[i])} \subseteq Reach(a, x)
      BY <1>1, <1>2, <1>6, <2>1 DEF Reach, Won
    <3>5. wins <= Cardinality(Reach(a, x))
      BY <1>2, <1>5, <3>4, ReachCounts, FS_Subset
    <3> QED
      BY <1>5, <1>8, <3>3, <3>5
  <2>2. CASE x = -20 * Stake
    <3>1. 1..n \subseteq Reach(a, x)
      BY <1>1, <1>2, <1>6, <2>2 DEF Reach
    <3>2. Reach(a, x) = 1..n
      BY <1>2, <3>1, ReachCounts
    <3>3. Cardinality(1..n) = n
      <4>1. n \in Int /\ 1 \in Int /\ 1 <= n + 1 /\ n - 1 + 1 = n
        BY <1>1
      <4> HIDE DEF n
      <4>2. Cardinality(1..n) = n - 1 + 1
        BY <4>1, IntervalSize
      <4> QED
        BY <4>1, <4>2
    <3>4. Cardinality(Reach(a, x)) = n
      BY <3>2, <3>3
    <3> QED
      BY <1>8, <3>4
  <2> QED
    BY <1>7, <2>1, <2>2
<1>10. Cardinality(Reach(b, x)) * n <= Cardinality(Reach(a, x)) * n
  BY <1>1, <1>8, <1>9, Products
<1> QED
  BY <1>2, <1>3, <1>10

\* With a losing streak they are not either, in proportion.
LEMMA StreakNeverAbove ==
    ASSUME NEW ts, AreTrades(ts) PROVE NeverAbove(LosingStreak(ts), Profits(ts))
<1> DEFINE a == Profits(ts)
           b == LosingStreak(ts)
           n == Len(ts)
<1>1. /\ n \in Nat /\ DOMAIN ts = 1..n /\ StreakLength \in Nat
      /\ Stake \in Nat \ {0} /\ WinProfit \in Nat \ {0}
  BY SeqFacts, BacktestAssumption, ChecklistAssumption DEF AreTrades
<1>2. /\ IsSeq(a) /\ Len(a) = n /\ DOMAIN a = 1..n
      /\ \A i \in 1..n : a[i] = 20 * ts[i].profit /\ a[i] \in Int
  BY <1>1, ProfitsOf, SeqFacts
<1>3. /\ IsSeq(b) /\ Len(b) = n + StreakLength
      /\ \A i \in 1..n : b[i] = a[i]
      /\ \A i \in DOMAIN b : b[i] \in Int /\ (i \notin 1..n => b[i] = -20 * Stake)
  BY <1>1, LosingStreakIs
<1>4. DOMAIN b = 1..n + StreakLength
  BY <1>3, SeqFacts
<1>5. \A i \in 1..n : ts[i].profit \in {WinProfit, -Stake}
  BY <1>1 DEF AreTrades
<1> SUFFICES ASSUME NEW x \in Range(b)
             PROVE  Cardinality(Reach(b, x)) * Len(a) <= Cardinality(Reach(a, x)) * Len(b)
  BY DEF NeverAbove
<1> HIDE DEF a, b
<1>6. x \in Int
  BY <1>3 DEF Range
<1> DEFINE cb == Cardinality(Reach(b, x))
           ca == Cardinality(Reach(a, x))
<1>7. /\ cb \in Nat /\ cb <= n + StreakLength /\ IsFiniteSet(Reach(b, x))
      /\ ca \in Nat /\ IsFiniteSet(Reach(a, x)) /\ Reach(a, x) \subseteq 1..n
  BY <1>2, <1>3, ReachCounts
<1>8. CASE x > -20 * Stake
  <2>1. Reach(b, x) \subseteq Reach(a, x)
    <3> SUFFICES ASSUME NEW i \in Reach(b, x) PROVE i \in Reach(a, x)
      OBVIOUS
    <3>1. i \in DOMAIN b /\ b[i] >= x
      BY DEF Reach
    <3>2. i \in 1..n
      BY <1>1, <1>3, <1>6, <1>8, <3>1
    <3> QED
      BY <1>2, <1>3, <3>1, <3>2 DEF Reach
  <2>2. cb <= ca
    BY <1>7, <2>1, FS_Subset
  <2>3. cb * n <= ca * n /\ ca * n <= ca * (n + StreakLength)
    <3> HIDE DEF cb, ca
    <3>1. \A c, m, k \in Nat : c * m <= c * (m + k)
      OBVIOUS
    <3> QED
      BY <1>1, <1>7, <2>2, <3>1, Products
  <2>4. cb * n \in Int /\ ca * n \in Int /\ ca * (n + StreakLength) \in Int
    BY <1>1, <1>7
  <2> HIDE DEF cb, ca
  <2>5. cb * n <= ca * (n + StreakLength)
    BY <2>3, <2>4
  <2> QED
    BY <1>2, <1>3, <2>5 DEF cb, ca
<1>9. CASE x <= -20 * Stake
  <2>1. 1..n \subseteq Reach(a, x)
    <3> SUFFICES ASSUME NEW i \in 1..n PROVE i \in Reach(a, x)
      OBVIOUS
    <3>1. a[i] >= -20 * Stake
      BY <1>1, <1>2, <1>5
    <3> QED
      BY <1>1, <1>2, <1>6, <1>9, <3>1 DEF Reach
  <2>2. ca = n
    <3>1. Reach(a, x) = 1..n
      BY <1>7, <2>1
    <3> QED
      BY <1>1, <3>1, IntervalSize
  <2> HIDE DEF cb, ca
  <2>3. cb * n <= (n + StreakLength) * n
    BY <1>1, <1>7, Products
  <2>4. (n + StreakLength) * n = ca * (n + StreakLength)
    <3>1. \A k, m \in Int : k * m = m * k
      OBVIOUS
    <3> QED
      BY <1>1, <2>2, <3>1
  <2> QED
    BY <1>2, <1>3, <2>3, <2>4 DEF cb, ca
<1> QED
  BY <1>1, <1>6, <1>8, <1>9

\* The wins that are lost to a lower win rate.
LEMMA WinsLost ==
    ASSUME NEW ts, AreTrades(ts), NEW tenths \in Nat
    PROVE  LET left == Cardinality(Reach(FewerWins(ts, tenths), 1))
           IN  left = 0 \/ 10 * (WinCount(ts) - left) - tenths * Len(ts) \in -5..5
<1> DEFINE b == FewerWins(ts, tenths)
           n == Len(ts)
<1>1. n \in Nat /\ Stake \in Nat \ {0} /\ WinProfit \in Nat \ {0}
  BY SeqFacts, BacktestAssumption DEF AreTrades
<1>2. WinCount(ts) \in Nat /\ WinCount(ts) <= n
  BY WinsAreFewer
<1>3. PICK stay \in 0..WinCount(ts) :
         /\ b = [i \in 1..n |-> IF i <= stay THEN 20 * WinProfit ELSE -20 * Stake]
         /\ stay = 0 \/ 10 * (WinCount(ts) - stay) - tenths * n \in -5..5
  BY FewerWinsStay
<1>4. DOMAIN b = 1..n /\ \A i \in 1..n : b[i] >= 1 <=> i <= stay
  <2>1. DOMAIN b = 1..n
    BY <1>3
  <2>2. ASSUME NEW i \in 1..n PROVE b[i] >= 1 <=> i <= stay
    <3>1. b[i] = IF i <= stay THEN 20 * WinProfit ELSE -20 * Stake
      BY <1>3
    <3> HIDE DEF b
    <3> QED
      BY <1>1, <3>1
  <2> QED
    BY <2>1, <2>2
<1> HIDE DEF b
<1>5. Reach(b, 1) = 1..stay
  BY <1>1, <1>2, <1>4 DEF Reach
<1>6. Cardinality(Reach(b, 1)) = stay
  BY <1>2, <1>5, IntervalSize
<1> QED
  BY <1>3, <1>6 DEF b

\* What a stress that leaves no trade out turns the trades into is nowhere above
\* them and can ruin the account if they can, and a lower win rate loses the
\* wins it says.
THEOREM StressIsWorse == ChecklistSpec => []StressNeverEasier
<1>1. RealInv => StressNeverEasier
  <2> SUFFICES ASSUME RealInv, phase = "done"
               PROVE  /\ \A pnl \in {FewerWins(Traded, 1), FewerWins(Traded, 2),
                                     LowerPayout(Traded), Slippage(Traded),
                                     LosingStreak(Traded)} :
                           /\ NeverAbove(pnl, Profits(Traded))
                           /\ CanBeRuined(Profits(Traded)) => CanBeRuined(pnl)
                      /\ \A tenths \in {1, 2} :
                           LET left == Cardinality(Reach(FewerWins(Traded, tenths), 1))
                           IN  left = 0 \/ 10 * (WinCount(Traded) - left)
                                             - tenths * Len(Traded) \in -5..5
    BY DEF StressNeverEasier
  <2>1. AreTrades(Traded)
    <3>1. 1 \in DOMAIN real
      BY SeqFacts DEF RealInv
    <3> QED
      BY <3>1 DEF RealInv, Traded
  <2> DEFINE ts == Traded
  <2> HIDE DEF ts
  <2>2. AreTrades(ts) /\ 1 \in Nat /\ 2 \in Nat
    BY <2>1 DEF ts
  <2>3. NeverAbove(FewerWins(ts, 1), Profits(ts)) /\ NeverAbove(FewerWins(ts, 2), Profits(ts))
    BY <2>2, FewerNeverAbove
  <2>4. ASSUME NEW b \in {LowerPayout(ts), Slippage(ts)} PROVE NeverAbove(b, Profits(ts))
    <3>1. /\ IsSeq(b) /\ Len(b) = Len(ts) /\ DOMAIN ts = 1..Len(ts)
          /\ \A i \in DOMAIN ts : b[i] \in Int /\ b[i] <= 20 * ts[i].profit
      BY <2>2, LowerPayoutIs, SlippageIs, SeqFacts DEF AreTrades
    <3>2. DOMAIN b = DOMAIN ts
      BY <3>1, SeqFacts
    <3>3. /\ IsSeq(Profits(ts)) /\ Len(Profits(ts)) = Len(ts)
          /\ \A i \in DOMAIN ts : Profits(ts)[i] = 20 * ts[i].profit /\ Profits(ts)[i] \in Int
      BY <2>2, ProfitsOf
    <3>4. \A i \in DOMAIN b : /\ Profits(ts)[i] \in Int /\ b[i] \in Int
                              /\ b[i] <= Profits(ts)[i]
      BY <3>1, <3>2, <3>3
    <3> QED
      BY <3>1, <3>3, <3>4, BelowNeverAbove
  <2>5. NeverAbove(LosingStreak(ts), Profits(ts))
    BY <2>2, StreakNeverAbove
  <2>6. \A tenths \in {1, 2} :
           LET left == Cardinality(Reach(FewerWins(ts, tenths), 1))
           IN  left = 0 \/ 10 * (WinCount(ts) - left) - tenths * Len(ts) \in -5..5
    BY <2>2, WinsLost
  <2>7. CanBeRuined(Profits(ts)) =>
           /\ CanBeRuined(FewerWins(ts, 1)) /\ CanBeRuined(FewerWins(ts, 2))
           /\ CanBeRuined(LowerPayout(ts)) /\ CanBeRuined(Slippage(ts))
           /\ CanBeRuined(LosingStreak(ts))
    BY <2>2, ScenariosRuin
  <2> QED
    BY <2>3, <2>4, <2>5, <2>6, <2>7 DEF ts
<1> QED
  BY <1>1, ChecklistRunsReports, RealInvHolds, PTL

-----------------------------------------------------------------------------
(* The verdicts.                                                           *)

\* What is decided stays decided, about the reports it was decided on.
ApprovedInv ==
    approved => phase = "done" /\ Approves /\ PlanIs(ModelJobs(Len(series)))

\* Once both reports are made, only candles are stored.
LEMMA DoneStays ==
    ASSUME BacktestInv, phase = "done", [Next]_vars
    PROVE  UNCHANGED reports
<1>1. jobs = <<>>
  BY DEF BacktestInv, PlanInv
<1>2. ~LoadReal /\ ~LoadModel /\ ~Walk /\ ~BacktestDone /\ ~RealDone /\ ~ModelDone
  BY <1>1 DEF LoadReal, LoadModel, Walk, BacktestDone, RealDone, ModelDone
<1> QED
  BY <1>2 DEF Next, CandleStored, vars

\* A model is approved by what the reports say.
LEMMA ApprovedInvHolds == Spec => []ApprovedInv
<1>1. Init => ApprovedInv
  BY Zenon DEF Init, ApprovedInv
<1>2. BacktestInv /\ ApprovedInv /\ [Next]_vars => ApprovedInv'
  <2> SUFFICES ASSUME BacktestInv, ApprovedInv, [Next]_vars, approved' PROVE ApprovedInv'
    BY DEF ApprovedInv
  <2>1. CASE approved
    <3>1. phase = "done" /\ Approves /\ PlanIs(ModelJobs(Len(series)))
      BY <2>1 DEF ApprovedInv
    <3>2. UNCHANGED <<phase, results, jobs, series>>
      BY <3>1, DoneStays DEF reports
    <3>3. (Approves)' /\ PlanIs(ModelJobs(Len(series)))'
      BY <3>1, <3>2 DEF Approves, PlanIs
    <3> QED
      BY <3>1, <3>2, <3>3 DEF ApprovedInv
  <2>2. CASE ~approved
    <3>1. ModelDone
      <4>1. ModelDone \/ approved' = approved
        BY DEF Next, CandleStored, LoadReal, LoadModel, Walk, BacktestDone, RealDone,
               reports, vars
      <4> QED
        BY <2>2, <4>1, Zenon
    <3>2. /\ phase = "model" /\ phase' = "done"
          /\ UNCHANGED <<results, jobs, series>>
      BY <3>1 DEF ModelDone
    <3>3. Approves
      <4>1. approved' = Approves
        BY <3>1 DEF ModelDone
      <4> QED
        BY <4>1, Zenon
    <3>4. PlanIs(ModelJobs(Len(series)))
      BY <3>2 DEF BacktestInv, PlanInv
    <3>5. (Approves)' /\ PlanIs(ModelJobs(Len(series)))'
      BY <3>2, <3>3, <3>4 DEF Approves, PlanIs
    <3> QED
      BY <3>2, <3>5 DEF ApprovedInv
  <2> QED
    BY <2>1, <2>2
<1> QED
  BY <1>1, <1>2, BacktestInvHolds, PTL DEF Spec

\* The items were decided on the reports as they stand.
DecidedInv ==
    checklist # NotMade =>
        /\ phase = "done"
        /\ \E tradeLog \in TradeLogs, errors \in ErrorCounts, survived, calibrated \in BOOLEAN :
              checklist = Decide(tradeLog, errors, survived, calibrated)

\* So it is throughout.
LEMMA DecidedInvHolds == ChecklistSpec => []DecidedInv
<1>1. ChecklistInit => DecidedInv
  BY DEF ChecklistInit, DecidedInv
<1>2. BacktestInv /\ DecidedInv /\ [ChecklistNext]_<<vars, checklist>> => DecidedInv'
  <2> SUFFICES ASSUME BacktestInv, DecidedInv, [ChecklistNext]_<<vars, checklist>>,
                      checklist' # NotMade
               PROVE  DecidedInv'
    BY DEF DecidedInv
  <2>1. /\ UNCHANGED reports /\ phase = "done"
        /\ \E tradeLog \in TradeLogs, errors \in ErrorCounts, survived, calibrated \in BOOLEAN :
              checklist' = Decide(tradeLog, errors, survived, calibrated)
    <3>1. CASE MakeChecklist
      BY <3>1 DEF MakeChecklist, vars
    <3>2. CASE ~MakeChecklist
      <4>1. checklist' = checklist /\ [Next]_vars
        BY <3>2 DEF ChecklistNext
      <4>2. /\ phase = "done"
            /\ \E tradeLog \in TradeLogs, errors \in ErrorCounts, survived, calibrated \in BOOLEAN :
                  checklist = Decide(tradeLog, errors, survived, calibrated)
        BY <4>1 DEF DecidedInv
      <4>3. UNCHANGED reports
        BY <4>1, <4>2, DoneStays
      <4> QED
        BY <4>1, <4>2, <4>3
    <3> QED
      BY <3>1, <3>2
  <2>2. PICK tradeLog \in TradeLogs, errors \in ErrorCounts,
             survived \in BOOLEAN, calibrated \in BOOLEAN :
               checklist' = Decide(tradeLog, errors, survived, calibrated)
    BY <2>1
  <2>3. UNCHANGED <<phase, real, results, series>>
    BY <2>1 DEF reports
  <2>4. Decide(tradeLog, errors, survived, calibrated)'
          = Decide(tradeLog, errors, survived, calibrated)
    BY <2>3 DEF Decide, Traded, WalkedOn, HasCandidate, HasCalibration
  <2>5. phase' = "done" /\ checklist' = Decide(tradeLog, errors, survived, calibrated)'
    BY <2>1, <2>2, <2>3, <2>4
  <2> QED
    BY <2>5 DEF DecidedInv
<1> QED
  BY <1>1, <1>2, ChecklistRunsReports, BacktestInvHolds, PTL DEF ChecklistSpec

\* Each win earns the same, and each loss costs the stake.
LEMMA ProfitOfWins ==
    ASSUME NEW ts, AreTrades(ts)
    PROVE  TotalProfit(ts) = WinProfit * WinCount(ts) - Stake * (Len(ts) - WinCount(ts))
<1> DEFINE n == Len(ts)
           Wins(i) == {j \in 1..i : Won(ts[j])}
           W(i) == Cardinality(Wins(i))
           Agrees(i) == Equity(ts, i) = WinProfit * W(i) - Stake * (i - W(i))
<1>1. n \in Nat /\ DOMAIN ts = 1..n /\ Stake \in Nat \ {0} /\ WinProfit \in Nat \ {0}
  BY SeqFacts, BacktestAssumption DEF AreTrades
<1>2. \A i \in DOMAIN ts : ts[i].profit \in Int
  BY <1>1 DEF AreTrades
<1>3. /\ Equity(ts, 0) = 0 /\ Equity(ts, n) = TotalProfit(ts)
      /\ \A i \in 0..n : Equity(ts, i) \in Int
      /\ \A i \in 1..n : Equity(ts, i) = Equity(ts, i - 1) + ts[i].profit
  BY <1>2, EquitySteps DEF AreTrades
<1>4. \A i \in 0..n : IsFiniteSet(Wins(i)) /\ W(i) \in Nat
  <2> TAKE i \in 0..n
  <2>1. i \in Nat /\ Wins(i) \subseteq 1..i
    BY <1>1
  <2>2. IsFiniteSet(1..i)
    BY <2>1, FS_Interval
  <2> QED
    BY <2>1, <2>2, FS_Subset, FS_CardinalityType
<1>5. ASSUME NEW i \in 1..n
      PROVE  W(i) = W(i - 1) + (IF Won(ts[i]) THEN 1 ELSE 0)
  <2>1. i - 1 \in 0..n /\ i \notin Wins(i - 1)
    BY <1>1
  <2>2. CASE Won(ts[i])
    <3>1. Wins(i) = Wins(i - 1) \cup {i}
      BY <1>1, <2>2
    <3>2. IsFiniteSet(Wins(i - 1)) /\ W(i - 1) \in Nat
      BY <1>4, <2>1
    <3> HIDE DEF Wins
    <3>3. Cardinality(Wins(i - 1) \cup {i}) = Cardinality(Wins(i - 1)) + 1
      BY <2>1, <3>2, FS_AddElement
    <3> QED
      BY <2>2, <3>1, <3>3
  <2>3. CASE ~Won(ts[i])
    <3>1. Wins(i) = Wins(i - 1)
      BY <1>1, <2>3
    <3>2. W(i - 1) \in Nat
      BY <1>4, <2>1
    <3> HIDE DEF Wins
    <3> QED
      BY <2>3, <3>1, <3>2
  <2> QED
    BY <2>2, <2>3
<1>6. Agrees(0)
  <2>1. Wins(0) = {}
    OBVIOUS
  <2>2. W(0) = 0
    BY <2>1, FS_EmptySet
  <2> HIDE DEF W
  <2>3. WinProfit * 0 = 0 /\ Stake * (0 - 0) = 0
    BY <1>1
  <2> QED
    BY <1>3, <2>2, <2>3
<1> HIDE DEF W
<1>7. ASSUME NEW i \in 1..n, Agrees(i - 1) PROVE Agrees(i)
  <2>1. /\ i \in Int /\ W(i - 1) \in Int /\ Equity(ts, i) = Equity(ts, i - 1) + ts[i].profit
        /\ Equity(ts, i - 1) = WinProfit * W(i - 1) - Stake * (i - 1 - W(i - 1))
        /\ WinProfit \in Int /\ Stake \in Int
    <3>1. i \in Int /\ i - 1 \in 0..n /\ WinProfit \in Int /\ Stake \in Int
      BY <1>1
    <3>2. W(i - 1) \in Nat
      BY <1>4, <3>1
    <3>3. Equity(ts, i) = Equity(ts, i - 1) + ts[i].profit
      BY <1>3
    <3>4. Equity(ts, i - 1) = WinProfit * W(i - 1) - Stake * (i - 1 - W(i - 1))
      BY <1>7
    <3> QED
      BY <3>1, <3>2, <3>3, <3>4
  <2>2. CASE Won(ts[i])
    <3>1. ts[i].profit = WinProfit /\ W(i) = W(i - 1) + 1
      BY <1>1, <1>5, <2>2 DEF AreTrades, Won
    <3>2. \A p, s, k, w, e \in Int :
             e = p * w - s * (k - 1 - w) => e + p = p * (w + 1) - s * (k - (w + 1))
      OBVIOUS
    <3>3. Equity(ts, i - 1) \in Int
      BY <1>1, <1>3
    <3> QED
      BY <2>1, <3>1, <3>2, <3>3
  <2>3. CASE ~Won(ts[i])
    <3>1. ts[i].profit = -Stake /\ W(i) = W(i - 1)
      <4>1. W(i) = W(i - 1) + 0
        BY <1>5, <2>3
      <4>2. ts[i].profit = -Stake
        BY <1>1, <2>3 DEF AreTrades, Won
      <4> QED
        BY <2>1, <4>1, <4>2
    <3>2. \A p, s, k, w, e \in Int :
             e = p * w - s * (k - 1 - w) => e + (-s) = p * w - s * (k - w)
      OBVIOUS
    <3>3. Equity(ts, i - 1) \in Int
      BY <1>1, <1>3
    <3> QED
      BY <2>1, <3>1, <3>2, <3>3
  <2> QED
    BY <2>2, <2>3
<1> HIDE DEF Agrees
<1>8. \A i \in 0..n : Agrees(i)
  <2> DEFINE B == {i \in 0..n : ~Agrees(i)}
  <2> SUFFICES ASSUME B # {} PROVE FALSE
    OBVIOUS
  <2>1. PICK m \in B : \A j \in B : m <= j
    <3>1. B \subseteq 0..n
      OBVIOUS
    <3> HIDE DEF B
    <3> QED
      BY <1>1, <3>1, FirstNumber
  <2>2. m \in 1..n /\ m - 1 \in 0..n /\ m - 1 < m
    BY <1>1, <1>6, <2>1
  <2>3. Agrees(m - 1)
    BY <2>1, <2>2
  <2> QED
    BY <1>7, <2>2, <2>3
<1>9. Agrees(n) /\ W(n) = WinCount(ts)
  BY <1>1, <1>8 DEF W, WinCount
<1> QED
  BY <1>3, <1>9 DEF Agrees

\* A reliable record of wins has earned money.
LEMMA ReliableEarns ==
    ASSUME NEW ts, AreTrades(ts),
           Reliable(WinCount(ts), Len(ts), Stake, Stake + WinProfit, MinSample)
    PROVE  TotalProfit(ts) > 0
<1>1. WinCount(ts) * (Stake + WinProfit) - Len(ts) * Stake > 0
  BY DEF Reliable, Significant
<1>2. WinCount(ts) \in Int /\ Len(ts) \in Int /\ Stake \in Int /\ WinProfit \in Int
  BY WinsAreFewer, SeqFacts, BacktestAssumption DEF AreTrades
<1>3. TotalProfit(ts) = WinProfit * WinCount(ts) - Stake * (Len(ts) - WinCount(ts))
  BY ProfitOfWins
<1>4. \A p, s, n, w \in Int : w * (s + p) - n * s = p * w - s * (n - w)
  OBVIOUS
<1>5. TotalProfit(ts) = WinCount(ts) * (Stake + WinProfit) - Len(ts) * Stake
  BY <1>2, <1>3, <1>4
<1> QED
  BY <1>1, <1>5

\* An approved model earned on the held-out candles, more than any baseline.
LEMMA ApprovedEarns == BacktestInv /\ ApprovedInv => (approved => ApprovedModelEarns)
<1> SUFFICES ASSUME BacktestInv, ApprovedInv, approved PROVE ApprovedModelEarns
  OBVIOUS
<1>1. phase = "done" /\ Approves /\ PlanIs(ModelJobs(Len(series)))
  BY DEF ApprovedInv
<1>2. Len(series) \in Nat /\ IsSeq(results) /\ jobs = <<>>
  BY <1>1, SeqFacts DEF BacktestInv, PlanInv
<1> DEFINE n     == Len(series)
           plan  == ModelJobs(n)
           first == Greater(Warmup, TrainEnd(n))
<1>3. /\ IsSeq(plan) /\ Len(plan) \in Nat /\ Len(plan) >= 1
      /\ \A k \in 1..Len(plan) : plan[k].first = first /\ plan[k].end = n
  <2>1. /\ IsSeq(plan) /\ Len(plan) >= 1
        /\ \A k \in 1..Len(plan) : plan[k].first = first /\ plan[k].end = n
    BY <1>2, ModelPlan
  <2> QED
    BY <2>1, SeqFacts
<1> HIDE DEF n, plan, first
<1>4. /\ Len(results) = Len(plan) /\ DOMAIN results = 1..Len(results)
      /\ \A k \in DOMAIN results : results[k].job = plan[k]
  <2>1. Len(jobs) = 0
    BY <1>2, EmptyIsSeq
  <2> QED
    BY <1>1, <1>2, <1>3, <2>1, SeqFacts DEF PlanIs, plan, n
<1>5. 1 \in DOMAIN results
  BY <1>3, <1>4
<1>6. TotalProfit(Finished(1)) > 0
  <2>1. AreTrades(Finished(1))
    BY <1>5, TradesAreNumbers DEF AreTrades
  <2>2. Reliable(WinCount(Finished(1)), Len(Finished(1)), Stake, Stake + WinProfit, MinSample)
    BY <1>1 DEF Approves, Finished
  <2> QED
    BY <2>1, <2>2, ReliableEarns
<1>7. ASSUME NEW k \in 2..Len(results)
      PROVE  /\ results[k].job.first = results[1].job.first
             /\ results[k].job.end = results[1].job.end
             /\ Beats(Finished(1), Finished(k))
  <2>1. k \in DOMAIN results /\ k \in 1..Len(plan) /\ 1 \in 1..Len(plan)
    BY <1>3, <1>4
  <2>2. Beats(Finished(1), Finished(k))
    BY <1>1 DEF Approves, Finished
  <2> QED
    BY <1>3, <1>4, <1>5, <2>1, <2>2
<1> QED
  BY <1>6, <1>7 DEF ApprovedModelEarns

\* With every item passed, what the items stand for holds.
LEMMA PassedIsEarned ==
    ASSUME BacktestInv, RealInv, DecidedInv, AllPassed(checklist), DrawdownPct < 100
    PROVE  /\ results # <<>> /\ TotalProfit(results[1].trades) > 0
           /\ Cardinality({w \in DOMAIN WalkedOn : WalkedOn[w] # <<>>}) > 1
           /\ ~Ruined(Profits(Traded))
<1>1. PICK tradeLog \in TradeLogs, errors \in ErrorCounts,
           survived \in BOOLEAN, calibrated \in BOOLEAN :
             checklist = Decide(tradeLog, errors, survived, calibrated)
  BY DEF AllPassed, DecidedInv
<1>2. phase = "done"
  BY DEF AllPassed, DecidedInv
<1>3. \A holds : Passes(holds) = "PASS" => holds
  BY Zenon DEF Passes
<1>5. HasCandidate /\ Earns(results[1].trades)
  <2>1. checklist["profitable_out_of_sample"] = "PASS"
    BY DEF AllPassed, Items
  <2>2. checklist.profitable_out_of_sample
          = Measured(HasCandidate, HasCandidate /\ Earns(results[1].trades))
    BY <1>1 DEF Decide
  <2>3. Measured(HasCandidate, HasCandidate /\ Earns(results[1].trades)) = "PASS"
    BY <2>1, <2>2
  <2> QED
    BY <2>3 DEF Measured, Passes
<1>6. Stable(WalkedOn)
  <2>1. checklist["walk_forward_validation_passed"] = "PASS"
    BY DEF AllPassed, Items
  <2>2. checklist.walk_forward_validation_passed = Passes(Stable(WalkedOn))
    BY <1>1 DEF Decide
  <2> QED
    BY <1>3, <2>1, <2>2
<1>7. 100 * MaxDrawdown(Traded) <= DrawdownPct * Bankroll
  <2>1. checklist["acceptable_drawdown"] = "PASS"
    BY DEF AllPassed, Items
  <2>2. checklist.acceptable_drawdown
          = Passes(100 * MaxDrawdown(Traded) <= DrawdownPct * Bankroll)
    BY <1>1 DEF Decide
  <2>3. Passes(100 * MaxDrawdown(Traded) <= DrawdownPct * Bankroll) = "PASS"
    BY <2>1, <2>2
  <2> QED
    BY <2>3 DEF Passes
<1>8. results # <<>> /\ TotalProfit(results[1].trades) > 0 /\ Traded # <<>>
  BY <1>5 DEF HasCandidate, Earns
<1>9. Cardinality({w \in DOMAIN WalkedOn : WalkedOn[w] # <<>>}) > 1
  <2> DEFINE traded == {w \in DOMAIN WalkedOn : WalkedOn[w] # <<>>}
  <2>1. Cardinality(traded) >= 2
    BY <1>6 DEF Stable
  <2>2. IsFiniteSet(traded)
    <3>1. Len(real) - 1 \in Int
      BY SeqFacts DEF RealInv
    <3>2. IsFiniteSet(1..(Len(real) - 1))
      BY <3>1, FS_Interval
    <3>3. traded \subseteq 1..(Len(real) - 1)
      BY DEF WalkedOn
    <3> QED
      BY <3>2, <3>3, FS_Subset
  <2>3. Cardinality(traded) \in Nat
    BY <2>2, FS_CardinalityType
  <2> QED
    BY <2>1, <2>3
<1>10. ~Ruined(Profits(Traded))
  <2> DEFINE ts == Traded
             left == [i \in 0..Len(ts) |-> 20 * Bankroll + 20 * Equity(ts, i)]
  <2>1. AreTrades(ts)
    <3>1. 1 \in DOMAIN real
      BY <1>2, SeqFacts DEF RealInv
    <3> QED
      BY <3>1 DEF RealInv, Traded
  <2>2. Bankroll \in Nat \ {0} /\ DrawdownPct \in 1..99
    BY ChecklistAssumption
  <2>3. 100 * MaxDrawdown(ts) <= DrawdownPct * Bankroll /\ ts # <<>>
    BY <1>7, <1>8
  <2> HIDE DEF ts
  <2>4. Len(ts) \in Nat /\ DOMAIN ts = 1..Len(ts) /\ IsSeq(ts)
    BY <2>1, SeqFacts DEF AreTrades
  <2>5. \A i \in DOMAIN ts : ts[i].profit \in Int
    BY <2>1, BacktestAssumption DEF AreTrades
  <2>6. /\ Equity(ts, 0) = 0
        /\ \A i \in 0..Len(ts) : Equity(ts, i) \in Int
        /\ \A i \in 1..Len(ts) : Equity(ts, i) = Equity(ts, i - 1) + ts[i].profit
    BY <2>4, <2>5, EquitySteps
  <2>7. PICK s : MaxDrawdown(ts) = s.worst /\ Found(ts, s, Len(ts))
    BY <2>4, <2>5, DrawdownFound
  <2>8. ASSUME NEW i \in 0..Len(ts) PROVE Bankroll + Equity(ts, i) > 0
    <3>1. s.worst >= Equity(ts, 0) - Equity(ts, i) /\ s.worst \in Int
      BY <2>4, <2>7 DEF Found, Curve
    <3>2. Equity(ts, i) \in Int
      BY <2>6
    <3>3. \A x, w \in Int, p \in 1..99, b \in Nat \ {0} :
             w >= 0 - x /\ 100 * w <= p * b => b + x > 0
      <4> TAKE x \in Int, w \in Int, p \in 1..99, b \in Nat \ {0}
      <4> HAVE w >= 0 - x /\ 100 * w <= p * b
      <4>1. p * b <= 99 * b
        OBVIOUS
      <4> QED
        BY <4>1
    <3> QED
      BY <2>2, <2>3, <2>6, <2>7, <3>1, <3>2, <3>3
  <2>9. left \in [0..Len(ts) -> Int] /\ left[0] = 20 * Bankroll
    BY <2>2, <2>4, <2>6
  <2>10. \A i \in 0..Len(ts) : left[i] = 20 * Bankroll + 20 * Equity(ts, i)
    OBVIOUS
  <2> HIDE DEF left
  <2>11. /\ IsSeq(Profits(ts)) /\ Len(Profits(ts)) = Len(ts)
         /\ \A i \in DOMAIN ts : Profits(ts)[i] = 20 * ts[i].profit
    BY <2>1, <2>3, ProfitsAre
  <2>12. ASSUME NEW i \in 1..Len(ts)
         PROVE  /\ Profits(ts)[i] \in Int
                /\ left[i] = left[i - 1] + Profits(ts)[i]
                /\ ~(left[i] <= 0)
    <3>1. i \in 0..Len(ts) /\ i - 1 \in 0..Len(ts) /\ i \in DOMAIN ts
      BY <2>4
    <3>2. /\ ts[i].profit \in Int /\ Profits(ts)[i] = 20 * ts[i].profit
          /\ Equity(ts, i) = Equity(ts, i - 1) + ts[i].profit
          /\ Equity(ts, i) \in Int /\ Equity(ts, i - 1) \in Int /\ Bankroll \in Int
      BY <2>2, <2>5, <2>6, <2>11, <3>1
    <3>3. /\ left[i] = 20 * Bankroll + 20 * Equity(ts, i)
          /\ left[i - 1] = 20 * Bankroll + 20 * Equity(ts, i - 1)
          /\ Bankroll + Equity(ts, i) > 0
      BY <2>8, <2>10, <3>1
    <3>4. \A b, e, f, p \in Int :
             /\ 20 * p \in Int
             /\ e = f + p => 20 * b + 20 * e = (20 * b + 20 * f) + 20 * p
             /\ b + e > 0 => ~(20 * b + 20 * e <= 0)
      OBVIOUS
    <3>5. left[i] = left[i - 1] + 20 * ts[i].profit
      <4>1. 20 * Bankroll + 20 * Equity(ts, i)
              = (20 * Bankroll + 20 * Equity(ts, i - 1)) + 20 * ts[i].profit
        <5>1. PICK b, e, f, p \in Int : /\ b = Bankroll /\ p = ts[i].profit
                                       /\ e = Equity(ts, i) /\ f = Equity(ts, i - 1)
          BY <3>2
        <5>2. e = f + p
          BY <3>2, <5>1
        <5>3. 20 * b + 20 * e = (20 * b + 20 * f) + 20 * p
          BY <5>2
        <5> QED
          BY <5>1, <5>3
      <4> QED
        BY <3>3, <4>1
    <3>6. ~(left[i] <= 0)
      BY <3>2, <3>3, <3>4
    <3> QED
      BY <3>2, <3>4, <3>5, <3>6
  <2>13. DOMAIN Profits(ts) = 1..Len(ts)
    BY <2>11, SeqFacts
  <2>14. Ruined(Profits(ts)) <=> \E i \in 1..Len(Profits(ts)) : left[i] <= 0
    BY <2>9, <2>11, <2>12, <2>13, RuinIs
  <2> QED
    BY <2>11, <2>12, <2>14 DEF ts
<1> QED
  BY <1>8, <1>9, <1>10

\* The verdicts on the model and on live trading are earned, as long as the
\* drawdown that is accepted leaves something of the starting bankroll.
THEOREM VerdictsEarned == ASSUME DrawdownPct < 100 PROVE ChecklistSpec => []VerdictsAreEarned
<1>1. BacktestInv /\ RealInv /\ ApprovedInv /\ DecidedInv => VerdictsAreEarned
  BY ApprovedEarns, PassedIsEarned DEF VerdictsAreEarned
<1> QED
  BY <1>1, ChecklistRunsReports, BacktestInvHolds, RealInvHolds, ApprovedInvHolds,
     DecidedInvHolds, PTL
=============================================================================
