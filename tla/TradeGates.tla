---------------------------- MODULE TradeGates -----------------------------
(***************************************************************************)
(* The gates a trade candidate passes on its way to an order: cooldown,    *)
(* rate limit, duplicate guard (risk/overtrading.py), correlated exposure  *)
(* (risk/exposure.py), stake sizing (risk/stake_sizing.py) and the verdict *)
(* on the price that was quoted.                                           *)
(*                                                                         *)
(* Times are points of time.monotonic() in some unit.                      *)
(***************************************************************************)
EXTENDS GovernorOps, Economics, FiniteSets, FiniteSetsExt

CONSTANTS Symbols, Currencies,
          Pair,             \* the <<base, quote>> of a symbol, or NoPair
          MaxExposure,      \* max_exposure_per_currency
          Cooldown, HourSpan, DaySpan,   \* 60 s, 3600 s and 86400 s
          MaxPerHour, MaxPerDay,
          RiskPermille,     \* risk_per_trade, in thousandths
          MaxStake, MaxLatency

NoPair == <<>>

ASSUME GatesAssumption ==
    /\ Pair \in [Symbols -> (Currencies \X Currencies) \cup {NoPair}]
    /\ MaxExposure \in Nat
    /\ Cooldown \in Nat /\ HourSpan \in Nat /\ DaySpan \in Nat
    /\ HourSpan <= DaySpan
    /\ MaxPerHour \in Nat /\ MaxPerDay \in Nat
    /\ RiskPermille \in 1..1000 /\ MaxStake \in Nat
    /\ MaxLatency \in Nat

-----------------------------------------------------------------------------
\* CooldownTracker: the time of a symbol's last trade, or Never.
Never == -1

\* Mutant: the cooldown ends one unit early.
CooldownEndsEarly(last, t) == last = Never \/ t - last >= Cooldown - 1

CooldownSatisfied(last, t) == last = Never \/ t - last >= Cooldown

-----------------------------------------------------------------------------
\* RateLimiter: the times of the trades, oldest first.  What is older than a
\* day is dropped from the front, up to the first time that is not.
Pruned(times, t) ==
    LET stale == {i \in DOMAIN times : \A j \in 1..i : times[j] < t - DaySpan}
    IN  SubSeq(times, Cardinality(stale) + 1, Len(times))

Within(times, t, span) == {i \in DOMAIN times : t - times[i] < span}

\* Mutant: a limit of n lets the trade number n + 1 through.
LimitsOffByOne(times, t) ==
    /\ Cardinality(Within(times, t, HourSpan)) <= MaxPerHour
    /\ Len(Pruned(times, t)) < MaxPerDay

WithinLimits(times, t) ==
    /\ Cardinality(Within(times, t, HourSpan)) < MaxPerHour
    /\ Len(Pruned(times, t)) < MaxPerDay

-----------------------------------------------------------------------------
\* ExposureManager: a position is long its base and short its quote currency
\* when it is a CALL, the reverse when it is a PUT.
Exposes(symbol, direction, c) ==
    LET sign == IF direction = "CALL" THEN 1 ELSE -1
    IN  IF Pair[symbol] = NoPair THEN 0
        ELSE IF c = Pair[symbol][2] THEN -sign
        ELSE IF c = Pair[symbol][1] THEN sign
        ELSE 0

CurrentExposure(held, c) ==
    MapThenSumSet(LAMBDA p : Exposes(p.symbol, p.direction, c), held)

\* Mutant: only the base currency is looked at.
WouldExceedBaseOnly(held, symbol, direction) ==
    /\ Pair[symbol] # NoPair
    /\ LET c == Pair[symbol][1]
           projected == CurrentExposure(held, c) + Exposes(symbol, direction, c)
       IN  projected > MaxExposure \/ -projected > MaxExposure

WouldExceedLimit(held, symbol, direction) ==
    /\ Pair[symbol] # NoPair
    /\ \E c \in {Pair[symbol][1], Pair[symbol][2]} :
        LET projected == CurrentExposure(held, c) + Exposes(symbol, direction, c)
        IN  projected > MaxExposure \/ -projected > MaxExposure

-----------------------------------------------------------------------------
\* Mutant: the stake follows the balance with no ceiling.
UncappedStake(g) ==
    IF g.current <= 0 THEN 0
    ELSE (g.current * RiskPermille * RiskMultiplier(g) + 3999) \div 4000

\* Mutant: lost money is chased with a larger stake.
MartingaleStake(g) ==
    IF g.current <= 0 THEN 0
    ELSE Smaller(MaxStake, (g.current * RiskPermille * RiskMultiplier(g) + 3999)
                           \div 4000 + g.losses)

\* calculate_stake on the governor's balance, with risk_per_trade scaled by
\* the governor's multiplier.  Rounded up to the unit of money, so that a
\* stake is zero exactly when the code's is.
Stake(g) ==
    IF g.current <= 0 THEN 0
    ELSE Smaller(MaxStake,
                 (g.current * RiskPermille * RiskMultiplier(g) + 3999) \div 4000)

\* evaluate_economics and the checks on its result, in their order.  A payout
\* that does not exceed the price makes break_even_probability raise.
Verdict(prob, ask, payout, latency) ==
    IF ~HasBreakEven(ask, payout) THEN "ValueError"
    ELSE IF ~ClearsEdge(prob, ask, payout) THEN "LOW_EDGE"
    ELSE IF ~ClearsValue(prob, ask, payout) THEN "NEGATIVE_EV"
    ELSE IF latency > MaxLatency THEN "HIGH_LATENCY"
    ELSE "PASS"
=============================================================================
