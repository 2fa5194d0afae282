--------------------------- MODULE OrderManager ----------------------------
(***************************************************************************)
(* The order manager (execution/order_manager.py): attempt_trade takes a   *)
(* trade candidate through the gates of TradeGates, asks the broker for a  *)
(* proposal, judges it, and buys.  An attempt is suspended twice, for the  *)
(* answer to the proposal and for the answer to the buy; each suspension   *)
(* is a stage, and the code between two of them is one action.             *)
(*                                                                         *)
(* The broker is outside the repository.  What is assumed of it: it prices *)
(* a proposal of a stake at that stake, may leave out the prices or the id *)
(* of a proposal, may refuse or leave any request unanswered, may execute  *)
(* a buy whose sender has given up on it, and executes one buy request at  *)
(* most once.  The code asks for a price by stake and buys at the price    *)
(* it is given without comparing the two.                                  *)
(*                                                                         *)
(* The trading loop makes one attempt at a time, and so does this module.  *)
(***************************************************************************)
EXTENDS TradeGates

CONSTANTS Signals,          \* signal ids
          Probabilities,    \* model probabilities of candidates, in percent
          Candidates,       \* the directions strategies propose
          ClosesPositions,  \* whether settled positions are closed
          Gains,            \* what a proposal may pay beyond its price
          Delays,           \* how long an answer may take
          MaxTime,          \* bound: the last time the model looks at
          MaxOrders,        \* bound: how many buy requests are sent
          NoAttempt         \* the attempt when there is none

ASSUME OrderAssumption ==
    /\ Probabilities \subseteq 0..100
    /\ Candidates \subseteq {"CALL", "PUT", "NO_TRADE"}
    /\ ClosesPositions \in BOOLEAN
    /\ Gains \subseteq Int
    /\ Delays \subseteq Nat
    /\ MaxTime \in Nat /\ MaxOrders \in Nat

Directions == {"CALL", "PUT", "NO_TRADE"}

Orders == [id : 0..MaxOrders, signal : Signals]

Attempts == [signal : Signals, symbol : Symbols, direction : Directions,
             prob : Probabilities, start : Nat, stake : Int, gain : Int,
             order : Nat]

Statuses == {"NONE", "PENDING", "TRADE", "NO_TRADE", "ALREADY_HANDLED", "RAISED"}

\* The reason of a rejection, or what raised.
Reasons == {"", "SIGNAL_INVALID", "RISK_LIMIT", "COOLDOWN", "RATE_LIMIT_EXCEEDED",
            "CORRELATED_EXPOSURE", "LOW_EDGE", "NEGATIVE_EV", "HIGH_LATENCY",
            "ValueError", "KeyError", "proposal", "buy"}

VARIABLES now,          \* time.monotonic()
          gov,          \* the risk governor, shared with the runner
          traded,       \* DuplicateSignalGuard: the signals marked
          lastTrade,    \* CooldownTracker: last trade of each symbol
          tradeTimes,   \* RateLimiter: the times not yet pruned
          held,         \* ExposureManager: the positions opened
          stage,        \* where the attempt is suspended
          att,          \* the locals of the attempt
          outcome,      \* what the last attempt returned, or raised
          wire,         \* the broker: buy requests not yet decided
          filled,       \* the broker: buy requests executed
          nextOrder,    \* the next request number
          trades        \* history: symbol and time of every recorded trade

guards  == <<traded, lastTrade, tradeTimes, held>>
broker  == <<wire, filled, nextOrder>>
omVars  == <<now, gov, traded, lastTrade, tradeTimes, held, stage, att,
             outcome, wire, filled, nextOrder, trades>>

TypeOK ==
    /\ now \in Nat
    /\ gov \in Governors
    /\ traded \subseteq Signals
    /\ lastTrade \in [Symbols -> Nat \cup {Never}]
    /\ tradeTimes \in Seq(Nat)
    /\ held \subseteq [order : Nat, symbol : Symbols, direction : Directions]
    /\ stage \in {"idle", "proposal", "buy"}
    /\ att \in Attempts \cup {NoAttempt}
    /\ stage # "idle" => att \in Attempts
    /\ outcome \in [status : Statuses, reason : Reasons]
    /\ wire \subseteq Orders /\ filled \subseteq Orders
    /\ nextOrder \in Nat
    /\ trades \in Seq([symbol : Symbols, at : Nat])

Init ==
    /\ now = 0
    /\ gov = NewGovernor
    /\ traded = {} /\ lastTrade = [s \in Symbols |-> Never]
    /\ tradeTimes = <<>> /\ held = {}
    /\ stage = "idle" /\ att = NoAttempt
    /\ outcome = [status |-> "NONE", reason |-> ""]
    /\ wire = {} /\ filled = {} /\ nextOrder = 0
    /\ trades = <<>>

Outcome(status, reason) == outcome' = [status |-> status, reason |-> reason]

-----------------------------------------------------------------------------
(* The gates, up to the first await.                                       *)

\* Mutant: the duplicate guard is not consulted.
GateWithoutGuard(signal, symbol, direction) ==
    IF direction = "NO_TRADE" THEN "SIGNAL_INVALID"
    ELSE IF ~CanTrade(gov) THEN "RISK_LIMIT"
    ELSE IF ~CooldownSatisfied(lastTrade[symbol], now) THEN "COOLDOWN"
    ELSE IF ~WithinLimits(tradeTimes, now) THEN "RATE_LIMIT_EXCEEDED"
    ELSE IF WouldExceedLimit(held, symbol, direction) THEN "CORRELATED_EXPOSURE"
    ELSE IF Stake(gov) <= 0 THEN "RISK_LIMIT"
    ELSE "PASS"

\* The first gate that fails names the reason.
Gate(signal, symbol, direction) ==
    IF direction = "NO_TRADE" THEN "SIGNAL_INVALID"
    ELSE IF signal \in traded THEN "ALREADY_HANDLED"
    ELSE IF ~CanTrade(gov) THEN "RISK_LIMIT"
    ELSE IF ~CooldownSatisfied(lastTrade[symbol], now) THEN "COOLDOWN"
    ELSE IF ~WithinLimits(tradeTimes, now) THEN "RATE_LIMIT_EXCEEDED"
    ELSE IF WouldExceedLimit(held, symbol, direction) THEN "CORRELATED_EXPOSURE"
    ELSE IF Stake(gov) <= 0 THEN "RISK_LIMIT"
    ELSE "PASS"

\* The candidates that get as far as the rate limiter, which forgets what is
\* older than a day whenever it is asked.
AsksRateLimiter(signal, symbol, direction) ==
    /\ direction # "NO_TRADE" /\ signal \notin traded /\ CanTrade(gov)
    /\ CooldownSatisfied(lastTrade[symbol], now)

AttemptTrade(signal, symbol, direction, prob) ==
    /\ stage = "idle"
    /\ tradeTimes' = IF AsksRateLimiter(signal, symbol, direction)
                     THEN Pruned(tradeTimes, now) ELSE tradeTimes
    /\ LET gate == Gate(signal, symbol, direction)
       IN  \/ /\ gate = "PASS"
              /\ stage' = "proposal"
              /\ att' = [signal |-> signal, symbol |-> symbol,
                         direction |-> direction, prob |-> prob,
                         start |-> now, stake |-> Stake(gov), gain |-> 0,
                         order |-> 0]
              /\ Outcome("PENDING", "")
           \/ /\ gate = "ALREADY_HANDLED"
              /\ Outcome("ALREADY_HANDLED", "")
              /\ att' = NoAttempt
              /\ UNCHANGED stage
           \/ /\ gate \notin {"PASS", "ALREADY_HANDLED"}
              /\ Outcome("NO_TRADE", gate)
              /\ att' = NoAttempt
              /\ UNCHANGED stage
    /\ UNCHANGED <<now, gov, traded, lastTrade, held, broker, trades>>

-----------------------------------------------------------------------------
(* From the answer to the proposal to the buy request.                     *)

TimePasses(d) == now' = now + d

\* attempt_trade returns without having bought, or raises.
GivesUp(status, reason) ==
    /\ stage' = "idle"
    /\ att' = NoAttempt
    /\ Outcome(status, reason)

\* Mutant: the signal is marked only once the answer has come.
MarkLaterSendBuy(gain) ==
    /\ nextOrder < MaxOrders
    /\ wire' = wire \cup {[id |-> nextOrder, signal |-> att.signal]}
    /\ nextOrder' = nextOrder + 1
    /\ att' = [att EXCEPT !.gain = gain, !.order = nextOrder]
    /\ stage' = "buy"
    /\ UNCHANGED <<traded, outcome, filled>>

\* The signal is marked in the same step as the buy request is sent, before
\* its answer is awaited.
SendBuy(gain) ==
    /\ nextOrder < MaxOrders
    /\ traded' = traded \cup {att.signal}
    /\ wire' = wire \cup {[id |-> nextOrder, signal |-> att.signal]}
    /\ nextOrder' = nextOrder + 1
    /\ att' = [att EXCEPT !.gain = gain, !.order = nextOrder]
    /\ stage' = "buy"
    /\ UNCHANGED <<outcome, filled>>

\* A proposal with its prices: the verdict decides.
ProposalAnswered(d, gain) ==
    /\ stage = "proposal"
    /\ TimePasses(d)
    /\ LET verdict == Verdict(att.prob, att.stake, att.stake + gain, d)
       IN  \/ verdict = "PASS" /\ SendBuy(gain)
           \/ /\ verdict = "ValueError"
              /\ GivesUp("RAISED", "ValueError")
              /\ UNCHANGED <<traded, broker>>
           \/ /\ verdict \notin {"PASS", "ValueError"}
              /\ GivesUp("NO_TRADE", verdict)
              /\ UNCHANGED <<traded, broker>>
    /\ UNCHANGED <<gov, lastTrade, tradeTimes, held, trades>>

\* A proposal with its prices but without an id: the signal is marked, and
\* only then is the id missed.
ProposalNameless(d, gain) ==
    /\ stage = "proposal"
    /\ TimePasses(d)
    /\ Verdict(att.prob, att.stake, att.stake + gain, d) = "PASS"
    /\ traded' = traded \cup {att.signal}
    /\ GivesUp("RAISED", "KeyError")
    /\ UNCHANGED <<gov, lastTrade, tradeTimes, held, broker, trades>>

\* A proposal without prices.
ProposalUnpriced(d) ==
    /\ stage = "proposal"
    /\ TimePasses(d)
    /\ GivesUp("NO_TRADE", "SIGNAL_INVALID")
    /\ UNCHANGED <<gov, guards, broker, trades>>

\* The broker answers with an error (the market is closed, say), or does not
\* answer in time.
ProposalRaises(d) ==
    /\ stage = "proposal"
    /\ TimePasses(d)
    /\ GivesUp("RAISED", "proposal")
    /\ UNCHANGED <<gov, guards, broker, trades>>

-----------------------------------------------------------------------------
(* The broker, and the answer to the buy request.                          *)

BrokerFills(o) ==
    /\ o \in wire
    /\ wire' = wire \ {o}
    /\ filled' = filled \cup {o}
    /\ UNCHANGED <<now, gov, guards, stage, att, outcome, nextOrder, trades>>

\* The request is refused, or lost.
BrokerDrops(o) ==
    /\ o \in wire
    /\ wire' = wire \ {o}
    /\ UNCHANGED <<now, gov, guards, stage, att, outcome, filled, nextOrder,
                   trades>>

MyOrder == [id |-> att.order, signal |-> att.signal]

\* The trackers are told the time the attempt began.
BuyAnswered(d) ==
    /\ stage = "buy" /\ MyOrder \in filled
    /\ TimePasses(d)
    /\ lastTrade' = [lastTrade EXCEPT ![att.symbol] = att.start]
    /\ tradeTimes' = Append(tradeTimes, att.start)
    /\ held' = held \cup {[order |-> att.order, symbol |-> att.symbol,
                           direction |-> att.direction]}
    /\ trades' = Append(trades, [symbol |-> att.symbol, at |-> att.start])
    /\ stage' = "idle"
    /\ Outcome("TRADE", "")
    /\ UNCHANGED <<gov, traded, att, broker>>

\* Mutant: the attempt is forgotten but not ended.
BuyRaisesInPlace(d) ==
    /\ stage = "buy"
    /\ TimePasses(d)
    /\ att' = NoAttempt /\ Outcome("RAISED", "buy")
    /\ UNCHANGED <<gov, guards, broker, trades, stage>>

\* An error, a lost connection or a timeout: nothing is recorded, whatever
\* the broker did or will do with the request.
BuyRaises(d) ==
    /\ stage = "buy"
    /\ TimePasses(d)
    /\ GivesUp("RAISED", "buy")
    /\ UNCHANGED <<gov, guards, broker, trades>>

-----------------------------------------------------------------------------
(* What others do to the shared objects between two attempts.              *)

\* The runner tells the governor how the last trade settled: the stake is
\* lost, or the gain of the proposal is made.
RunnerSettles(pl) ==
    /\ stage = "idle" /\ outcome.status = "TRADE"
    /\ pl \in {-att.stake, att.gain}
    /\ gov' = AfterResult(gov, pl)
    /\ att' = NoAttempt
    /\ Outcome("NONE", "")
    /\ UNCHANGED <<now, guards, stage, broker, trades>>

DayRollsOver ==
    /\ stage = "idle" /\ outcome.status # "TRADE"
    /\ gov' = NextDay(gov)
    /\ UNCHANGED <<now, guards, stage, att, outcome, broker, trades>>

\* close_position, which is public but which nothing under src/ calls: the
\* runs that say ClosesPositions look at a caller that would.
ClosePosition(p) ==
    /\ ClosesPositions /\ stage = "idle"
    /\ held' = held \ {p}
    /\ UNCHANGED <<now, gov, traded, lastTrade, tradeTimes, stage, att,
                   outcome, broker, trades>>

Wait(d) ==
    /\ stage = "idle"
    /\ TimePasses(d)
    /\ UNCHANGED <<gov, guards, stage, att, outcome, broker, trades>>

\* Every attempt but the last of the run is settled before the next begins.
Ready == outcome.status # "TRADE"

InTime(d) == now + d <= MaxTime

Caller ==
    \/ /\ Ready
       /\ \E s \in Signals, y \in Symbols, dir \in Candidates,
             p \in Probabilities : AttemptTrade(s, y, dir, p)
    \/ \E d \in Delays \ {0} : InTime(d) /\ Wait(d)
    \/ \E p \in held : ClosePosition(p)
    \/ /\ outcome.status = "TRADE"
       /\ \E pl \in {-att.stake, att.gain} : RunnerSettles(pl)
    \/ DayRollsOver

Answers ==
    \E d \in Delays :
        /\ InTime(d)
        /\ \/ \E gain \in Gains : ProposalAnswered(d, gain)
           \/ \E gain \in Gains : ProposalNameless(d, gain)
           \/ ProposalUnpriced(d)
           \/ ProposalRaises(d)
           \/ BuyAnswered(d)
           \/ BuyRaises(d)

Broker == \E o \in wire : BrokerFills(o) \/ BrokerDrops(o)

Next == Caller \/ Answers \/ Broker

Spec == Init /\ [][Next]_omVars
-----------------------------------------------------------------------------
(***************************************************************************)
(* Properties.                                                             *)
(***************************************************************************)

\* However attempts are repeated for a signal, and whatever happens to the
\* answers to their buy requests (lost, late, executed after the sender gave
\* up), the broker opens at most one contract for it.
OneContractPerSignal ==
    \A o, p \in filled : o.signal = p.signal => o = p

\* The order manager implements the ledger of signals.
Ledger == INSTANCE SignalLedger WITH committed <- traded, contracts <- filled

ImplementsLedger == Ledger!Spec

\* Recorded trades of one symbol began at least a cooldown apart, although a
\* trade is recorded only after two awaits.
CooldownSpacing ==
    \A i, j \in DOMAIN trades :
        i < j /\ trades[i].symbol = trades[j].symbol
            => trades[j].at - trades[i].at >= Cooldown

\* No window of an hour holds more recorded trades than the hourly limit, and
\* no window of a day more than the daily one, wherever the window lies: the
\* limiter forgets nothing it will need.
RateLimitsHold ==
    \A j \in DOMAIN trades :
        LET before(span) == {i \in 1..j : trades[j].at - trades[i].at < span}
        IN  /\ Cardinality(before(HourSpan)) <= MaxPerHour
            /\ Cardinality(before(DaySpan)) <= MaxPerDay

\* The positions held never expose a currency beyond the limit, whichever
\* symbols share it and on whichever side of a pair.  (Were positions closed,
\* it would not hold: closing one of two positions that offset each other
\* raises the net exposure.)
ExposureBounded ==
    \A c \in Currencies : LET e == CurrentExposure(held, c)
                          IN  e <= MaxExposure /\ -e <= MaxExposure

\* What an attempt is to pay is a positive stake within the ceiling, at any
\* balance and multiplier, and only a governor that permits trades is behind it.
OnlyPermittedOrders ==
    stage # "idle" => CanTrade(gov) /\ att.stake \in 1..MaxStake

\* "No Martingale, ever": a settled loss never raises the stake the next
\* attempt will be sized with.
NoMartingale == [][gov'.losses > gov.losses => Stake(gov') <= Stake(gov)]_omVars
=============================================================================
