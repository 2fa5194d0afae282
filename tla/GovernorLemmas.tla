-------------------------- MODULE GovernorLemmas ---------------------------
(***************************************************************************)
(* What the operators of GovernorOps return, preserve and bound: lemmas    *)
(* for the proofs about every module in which a governor is shared.        *)
(***************************************************************************)
EXTENDS GovernorOps, TLAPS

\* The governor record_trade_result leaves is a governor, with its fields as
\* the code computes them.
LEMMA AfterResultFields ==
    ASSUME NEW g \in Governors, NEW pl \in Int
    PROVE  /\ AfterResult(g, pl) \in Governors
           /\ AfterResult(g, pl).starting = g.starting
           /\ AfterResult(g, pl).current = g.current + pl
           /\ AfterResult(g, pl).peak = Larger(g.peak, g.current + pl)
           /\ AfterResult(g, pl).losses = IF pl < 0 THEN g.losses + 1 ELSE 0
           /\ AfterResult(g, pl).stopped
                = (g.stopped \/ DrawdownAtLimit(AfterResult(g, pl)))
<1> DEFINE h == Booked(g, pl)
<1>1. h = [starting |-> g.starting, peak |-> Larger(g.peak, g.current + pl),
           current |-> g.current + pl,
           losses |-> IF pl < 0 THEN g.losses + 1 ELSE 0,
           stopped |-> g.stopped]
  BY DEF Booked, Governors
<1>2. DrawdownAtLimit(h) \in BOOLEAN
  BY DEF DrawdownAtLimit, DrawdownReaches
<1>3. AfterResult(g, pl) =
        [starting |-> g.starting, peak |-> Larger(g.peak, g.current + pl),
         current |-> g.current + pl,
         losses |-> IF pl < 0 THEN g.losses + 1 ELSE 0,
         stopped |-> g.stopped \/ DrawdownAtLimit(h)]
  BY <1>1 DEF AfterResult
<1>4. DrawdownAtLimit(AfterResult(g, pl)) = DrawdownAtLimit(h)
  BY <1>1, <1>3 DEF DrawdownAtLimit, DrawdownReaches
<1>5. AfterResult(g, pl) \in Governors
  BY <1>2, <1>3 DEF Governors, Larger
<1> QED
  BY <1>3, <1>4, <1>5

\* A drawdown that reached a fraction of the peak still does when the balance
\* is lower and the peak the same.
LEMMA DrawdownMonotone ==
    ASSUME NEW g \in Governors, NEW h \in Governors,
           h.peak = g.peak, h.current <= g.current,
           NEW num \in Nat, NEW den \in Nat,
           DrawdownReaches(g, num, den)
    PROVE  DrawdownReaches(h, num, den)
<1> DEFINE drop(x) == IF x.peak <= 0 THEN 0 ELSE Larger(0, x.peak - x.current)
           bar == num * Larger(1, g.peak)
<1>1. /\ drop(g) \in Nat /\ drop(h) \in Nat /\ drop(g) <= drop(h)
      /\ bar \in Int
  BY DEF Governors, Larger
<1>2. bar = num * Larger(1, h.peak)
  OBVIOUS
<1>3. drop(g) * den >= bar
  BY DEF DrawdownReaches
<1>4. \A a, b, d \in Nat : a <= b => a * d <= b * d
  OBVIOUS
<1>5. drop(g) * den <= drop(h) * den
  BY <1>1, <1>4
<1>6. drop(g) * den \in Int /\ drop(h) * den \in Int
  BY <1>1
<1> HIDE DEF bar
<1>7. drop(h) * den >= bar
  BY <1>1, <1>3, <1>5, <1>6
<1> QED
  BY <1>2, <1>7 DEF DrawdownReaches

\* The multiplier never grows when the balance falls below an unchanged peak
\* and day, the streak lengthens and a stop stays.
LEMMA MultiplierMonotone ==
    ASSUME NEW g \in Governors, NEW h \in Governors,
           h.starting = g.starting, h.peak = g.peak,
           h.current <= g.current, h.losses >= g.losses,
           g.stopped => h.stopped
    PROVE  RiskMultiplier(h) <= RiskMultiplier(g)
<1>1. DailyLoss(h) >= DailyLoss(g) /\ DailyLoss(h) \in Nat /\ DailyLoss(g) \in Nat
  BY DEF DailyLoss, Larger, Governors
<1>2. MaxDrawdownPct * WarningPct \in Nat
  BY GovernorAssumption
<1>3. DrawdownAtWarning(g) => DrawdownAtWarning(h)
  BY <1>2, DrawdownMonotone DEF DrawdownAtWarning
<1>4. MaxDailyLoss \in Nat /\ MaxConsecutiveLosses \in Nat
  BY GovernorAssumption
<1> DEFINE half == Larger(1, MaxConsecutiveLosses \div 2)
<1>5. half \in Int
  BY <1>4 DEF Larger
<1>6. /\ DailyLoss(g) >= MaxDailyLoss => DailyLoss(h) >= MaxDailyLoss
      /\ g.losses >= MaxConsecutiveLosses => h.losses >= MaxConsecutiveLosses
  BY <1>1, <1>4 DEF Governors
<1> HIDE DEF half
<1>7. g.losses >= half => h.losses >= half
  BY <1>5 DEF Governors
<1> QED
  BY <1>3, <1>6, <1>7 DEF RiskMultiplier, RiskState, Quarters, half

\* A new governor is a governor.
LEMMA NewGovernorType == NewGovernor \in Governors
BY GovernorAssumption DEF NewGovernor, Governors

\* A new day keeps everything but the balance the day is measured from.
LEMMA NextDayFields ==
    ASSUME NEW g \in Governors
    PROVE  /\ NextDay(g) \in Governors
           /\ NextDay(g).current = g.current /\ NextDay(g).peak = g.peak
           /\ NextDay(g).losses = g.losses
BY DEF NextDay, Governors

\* The multiplier is a number of quarters, none above one.
LEMMA MultiplierRange ==
    ASSUME NEW g \in Governors
    PROVE  RiskMultiplier(g) \in 0..4
BY DEF RiskMultiplier, RiskState, Quarters
=============================================================================
