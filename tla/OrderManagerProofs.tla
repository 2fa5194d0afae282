------------------------ MODULE OrderManagerProofs -------------------------
(***************************************************************************)
(* Proofs about the order manager, for any signals, symbols, limits and    *)
(* broker behaviour, and any number of attempts and requests: its types,   *)
(* one contract for each signal, the refinement of the ledger of signals,  *)
(* and the limits it keeps over time.                                      *)
(***************************************************************************)
EXTENDS OrderManager, GovernorLemmas, CollectionLemmas

-----------------------------------------------------------------------------
(* Lemmas about the gates.                                                 *)

\* What the rate limiter keeps is a sequence of times.
LEMMA PrunedType ==
    ASSUME NEW times \in Seq(Nat), NEW t \in Nat
    PROVE  Pruned(times, t) \in Seq(Nat)
<1> DEFINE stale == {i \in DOMAIN times : \A j \in 1..i : times[j] < t - DaySpan}
<1>1. DOMAIN times = 1..Len(times) /\ Len(times) \in Nat
  OBVIOUS
<1>2. IsFiniteSet(stale)
  <2>1. IsFiniteSet(1..Len(times))
    BY <1>1, FS_Interval
  <2> QED
    BY <1>1, <2>1, FS_Subset
<1>3. Cardinality(stale) \in Nat
  BY <1>2, FS_CardinalityType
<1> HIDE DEF stale
<1>4. SubSeq(times, Cardinality(stale) + 1, Len(times)) \in Seq(Nat)
  BY <1>1, <1>3
<1> QED
  BY <1>4 DEF Pruned, stale

\* A stake is a whole number of units and no more than the ceiling.
LEMMA StakeRange ==
    ASSUME NEW g \in Governors
    PROVE  Stake(g) \in Int /\ Stake(g) <= MaxStake
<1> DEFINE amount == g.current * RiskPermille * RiskMultiplier(g) + 3999
<1>1. /\ g.current \in Int /\ RiskPermille \in Int
      /\ RiskMultiplier(g) \in Int /\ MaxStake \in Nat
  BY MultiplierRange, GatesAssumption DEF Governors
<1>2. amount \in Int
  BY <1>1
<1> HIDE DEF amount
<1>3. amount \div 4000 \in Int
  BY <1>2
<1>4. Stake(g) = IF g.current <= 0 THEN 0
                 ELSE Smaller(MaxStake, amount \div 4000)
  BY DEF Stake, amount
<1> QED
  BY <1>1, <1>3, <1>4 DEF Smaller

\* A smaller balance at no larger a multiplier is staked with no more.
LEMMA StakeMonotone ==
    ASSUME NEW g \in Governors, NEW h \in Governors,
           h.current <= g.current, RiskMultiplier(h) <= RiskMultiplier(g)
    PROVE  Stake(h) <= Stake(g)
<1> DEFINE r == RiskPermille
           m(x) == RiskMultiplier(x)
           amount(x) == x.current * r * m(x) + 3999
<1>1. /\ g.current \in Int /\ h.current \in Int
      /\ r \in Nat /\ m(g) \in Nat /\ m(h) \in Nat /\ MaxStake \in Nat
  BY MultiplierRange, GatesAssumption DEF Governors
<1>2. /\ Stake(g) = IF g.current <= 0 THEN 0
                    ELSE Smaller(MaxStake, amount(g) \div 4000)
      /\ Stake(h) = IF h.current <= 0 THEN 0
                    ELSE Smaller(MaxStake, amount(h) \div 4000)
  BY DEF Stake
<1>3. CASE h.current <= 0
  <2>1. CASE g.current <= 0
    BY <1>2, <1>3, <2>1
  <2>2. CASE g.current > 0
    <3>1. \A a, b \in Nat : a * b \in Nat
      OBVIOUS
    <3>2. g.current * r \in Nat
      BY <1>1, <2>2, <3>1
    <3>3. (g.current * r) * m(g) \in Nat
      BY <1>1, <3>1, <3>2
    <3>4. amount(g) \in Nat
      BY <3>3
    <3> HIDE DEF amount
    <3>5. amount(g) \div 4000 \in Nat
      BY <3>4
    <3> QED
      BY <1>1, <1>2, <1>3, <2>2, <3>5 DEF Smaller
  <2> QED
    BY <1>1, <2>1, <2>2
<1>4. CASE h.current > 0
  <2>1. \A a, b, c \in Nat : a <= b => a * c <= b * c
    OBVIOUS
  <2>2. \A a, b \in Nat : a * b \in Nat /\ a * b = b * a
    OBVIOUS
  <2>3. h.current \in Nat /\ g.current \in Nat /\ g.current > 0
    BY <1>1, <1>4
  <2> DEFINE p == h.current * r
             q == g.current * r
  <2>4. p \in Nat /\ q \in Nat /\ p <= q
    BY <1>1, <2>1, <2>2, <2>3
  <2> HIDE DEF p, q
  <2>5. p * m(h) <= q * m(h)
    BY <1>1, <2>1, <2>4
  <2>6. q * m(h) <= q * m(g)
    <3>1. m(h) * q <= m(g) * q
      BY <1>1, <2>1, <2>4
    <3> QED
      BY <1>1, <2>2, <2>4, <3>1
  <2>7. p * m(h) \in Nat /\ q * m(h) \in Nat /\ q * m(g) \in Nat
    BY <1>1, <2>2, <2>4
  <2>8. amount(h) = p * m(h) + 3999 /\ amount(g) = q * m(g) + 3999
    BY DEF p, q
  <2>9. amount(h) <= amount(g) /\ amount(h) \in Nat /\ amount(g) \in Nat
    BY <2>5, <2>6, <2>7, <2>8
  <2> HIDE DEF amount
  <2>10. amount(h) \div 4000 <= amount(g) \div 4000
    BY <2>9
  <2>11. amount(h) \div 4000 \in Nat /\ amount(g) \div 4000 \in Nat
    BY <2>9
  <2> QED
    BY <1>1, <1>2, <1>4, <2>3, <2>10, <2>11 DEF Smaller
<1> QED
  BY <1>1, <1>3, <1>4

\* A gate that does not let a candidate pass, and does not know its signal,
\* gives a reason; so does a verdict.
LEMMA AnswersAreReasons ==
    /\ \A s, y, d : Gate(s, y, d) \in Reasons \cup {"PASS", "ALREADY_HANDLED"}
    /\ \A p, a, q, l : Verdict(p, a, q, l) \in Reasons \cup {"PASS"}
<1>1. ASSUME NEW s, NEW y, NEW d
      PROVE  Gate(s, y, d) \in Reasons \cup {"PASS", "ALREADY_HANDLED"}
  BY Zenon DEF Gate, Reasons
<1>2. ASSUME NEW p, NEW a, NEW q, NEW l
      PROVE  Verdict(p, a, q, l) \in Reasons \cup {"PASS"}
  BY Zenon DEF Verdict, Reasons
<1> QED
  BY <1>1, <1>2

\* The gate of a candidate that passes is open in every respect.
LEMMA GatePasses ==
    ASSUME gov \in Governors,
           NEW s, NEW y, NEW d, Gate(s, y, d) = "PASS"
    PROVE  /\ s \notin traded
           /\ CanTrade(gov) /\ Stake(gov) > 0
           /\ CooldownSatisfied(lastTrade[y], now)
<1>1. Stake(gov) \in Int
  BY StakeRange
<1> QED
  BY <1>1 DEF Gate

-----------------------------------------------------------------------------
(* Type correctness.                                                       *)

\* A trade waits for its settlement with its locals in place.
TradeAwaitsSettlement == outcome.status = "TRADE" => att \in Attempts

TypeInv == TypeOK /\ TradeAwaitsSettlement

\* The types hold initially.
LEMMA InitTypeInv == Init => TypeInv
<1> SUFFICES ASSUME Init PROVE TypeInv
  OBVIOUS
<1>1. gov \in Governors
  BY NewGovernorType DEF Init
<1>2. tradeTimes \in Seq(Nat) /\ trades \in Seq([symbol : Symbols, at : Nat])
  <2>1. \A S : << >> \in Seq(S)
    OBVIOUS
  <2>2. tradeTimes = << >> /\ trades = << >>
    BY DEF Init
  <2> QED
    BY <2>1, <2>2, Zenon
<1>3. lastTrade \in [Symbols -> Nat \cup {Never}]
  BY DEF Init
<1>4. outcome \in [status : Statuses, reason : Reasons]
  BY DEF Init, Statuses, Reasons
<1>5. outcome.status # "TRADE"
  BY DEF Init
<1>6. /\ now \in Nat /\ traded \subseteq Signals /\ held = {} /\ nextOrder \in Nat
      /\ stage = "idle" /\ att = NoAttempt
      /\ wire \subseteq Orders /\ filled \subseteq Orders
  BY DEF Init
<1> QED
  BY <1>1, <1>2, <1>3, <1>4, <1>5, <1>6 DEF TypeOK, TypeInv, TradeAwaitsSettlement

\* The steps that end an attempt without a purchase, or make no attempt.
LEMMA GivingUpKeepsType ==
    ASSUME TypeInv, NEW d \in Delays, TimePasses(d),
           NEW st \in Statuses \ {"TRADE"}, NEW r \in Reasons, GivesUp(st, r),
           UNCHANGED <<gov, lastTrade, tradeTimes, held, broker, trades>>,
           traded' \subseteq Signals
    PROVE  TypeInv'
<1>1. now' \in Nat
  BY OrderAssumption DEF TimePasses, TypeInv, TypeOK
<1>2. /\ stage' = "idle" /\ att' = NoAttempt
      /\ outcome' \in [status : Statuses, reason : Reasons]
      /\ outcome'.status # "TRADE"
  BY DEF GivesUp, Outcome
<1> QED
  BY <1>1, <1>2 DEF TypeInv, TypeOK, TradeAwaitsSettlement, broker

\* A new attempt keeps them.
LEMMA AttemptKeepsType ==
    ASSUME TypeInv, NEW s \in Signals, NEW y \in Symbols, NEW dir \in Candidates,
           NEW p \in Probabilities, AttemptTrade(s, y, dir, p)
    PROVE  TypeInv'
<1>1. tradeTimes' \in Seq(Nat)
  BY PrunedType DEF AttemptTrade, TypeInv, TypeOK
<1>2. /\ UNCHANGED <<now, gov, traded, lastTrade, held, trades>>
      /\ UNCHANGED <<wire, filled, nextOrder>>
  BY DEF AttemptTrade, broker
<1> DEFINE g == Gate(s, y, dir)
<1>3. g \in Reasons \cup {"PASS", "ALREADY_HANDLED"}
  BY AnswersAreReasons
<1>4. stage = "idle"
  BY DEF AttemptTrade
<1>5. CASE g = "PASS"
  <2>1. /\ stage' = "proposal" /\ Outcome("PENDING", "")
        /\ att' = [signal |-> s, symbol |-> y, direction |-> dir, prob |-> p,
                   start |-> now, stake |-> Stake(gov), gain |-> 0, order |-> 0]
    BY <1>5 DEF AttemptTrade
  <2>2. now \in Nat /\ Stake(gov) \in Int /\ dir \in Directions
    BY StakeRange, OrderAssumption DEF TypeInv, TypeOK, Directions
  <2> DEFINE k == Stake(gov)
  <2> HIDE DEF k
  <2>3. att' \in Attempts
    <3>1. att' = [signal |-> s, symbol |-> y, direction |-> dir, prob |-> p,
                  start |-> now, stake |-> k, gain |-> 0, order |-> 0]
      BY <2>1 DEF k
    <3>2. k \in Int
      BY <2>2 DEF k
    <3> QED
      BY <2>2, <3>1, <3>2 DEF Attempts
  <2>4. outcome' \in [status : Statuses, reason : Reasons]
    BY <2>1 DEF Outcome, Statuses, Reasons
  <2> QED
    BY <1>1, <1>2, <2>1, <2>3, <2>4 DEF TypeInv, TypeOK, TradeAwaitsSettlement
<1>6. CASE g # "PASS"
  <2>1. PICK st \in {"ALREADY_HANDLED", "NO_TRADE"}, r \in Reasons :
          /\ outcome' = [status |-> st, reason |-> r]
          /\ att' = NoAttempt /\ stage' = stage
    <3>1. CASE g = "ALREADY_HANDLED"
      BY <1>6, <3>1 DEF AttemptTrade, Outcome, Reasons
    <3>2. CASE g # "ALREADY_HANDLED"
      BY <1>3, <1>6, <3>2 DEF AttemptTrade, Outcome
    <3> QED
      BY <3>1, <3>2
  <2>2. outcome' \in [status : Statuses, reason : Reasons]
    BY <2>1 DEF Statuses
  <2> QED
    BY <1>1, <1>2, <1>4, <2>1, <2>2 DEF TypeInv, TypeOK, TradeAwaitsSettlement
<1> QED
  BY <1>5, <1>6

\* The request that goes out is an order, and its number is the last one yet.
LEMMA SendBuyKeepsType ==
    ASSUME TypeInv, stage = "proposal", NEW d \in Delays, TimePasses(d),
           NEW gain \in Gains, SendBuy(gain), outcome.status # "TRADE",
           UNCHANGED <<gov, lastTrade, tradeTimes, held, trades>>
    PROVE  TypeInv'
<1>1. now' \in Nat
  BY OrderAssumption DEF TimePasses, TypeInv, TypeOK
<1>2. att \in Attempts /\ nextOrder \in 0..MaxOrders /\ gain \in Int
  BY OrderAssumption DEF TypeInv, TypeOK, SendBuy
<1>3. att' \in Attempts
  <2>1. att' = [att EXCEPT !.gain = gain, !.order = nextOrder]
    BY DEF SendBuy
  <2>2. [att EXCEPT !.gain = gain] \in Attempts
    BY <1>2 DEF Attempts
  <2>3. \A a \in Attempts, n \in Nat : [a EXCEPT !.order = n] \in Attempts
    BY DEF Attempts
  <2>4. nextOrder \in Nat
    BY <1>2, OrderAssumption
  <2> QED
    BY <2>1, <2>2, <2>3, <2>4
<1>4. [id |-> nextOrder, signal |-> att.signal] \in Orders
  BY <1>2 DEF Orders, Attempts
<1>5. wire' \subseteq Orders /\ filled' \subseteq Orders /\ nextOrder' \in Nat
  BY <1>2, <1>4, OrderAssumption DEF SendBuy, TypeInv, TypeOK
<1>6. traded' \subseteq Signals
  BY <1>2 DEF SendBuy, TypeInv, TypeOK, Attempts
<1>7. stage' = "buy" /\ outcome' = outcome
  BY DEF SendBuy
<1> QED
  BY <1>1, <1>3, <1>5, <1>6, <1>7 DEF TypeInv, TypeOK, TradeAwaitsSettlement

\* A suspended attempt has not returned.
Suspended == stage # "idle" => outcome.status # "TRADE"

\* So does the answer to a request for a proposal.
LEMMA ProposalKeepsType ==
    ASSUME TypeInv, Suspended, NEW d \in Delays, NEW gain \in Gains,
           ProposalAnswered(d, gain)
    PROVE  TypeInv'
<1> DEFINE v == Verdict(att.prob, att.stake, att.stake + gain, d)
<1>1. /\ stage = "proposal" /\ TimePasses(d)
      /\ UNCHANGED <<gov, lastTrade, tradeTimes, held, trades>>
  BY DEF ProposalAnswered
<1>2. v \in Reasons \cup {"PASS"}
  BY AnswersAreReasons
<1>3. CASE v = "PASS"
  <2>1. SendBuy(gain)
    BY <1>3 DEF ProposalAnswered
  <2> QED
    BY <1>1, <2>1, SendBuyKeepsType DEF Suspended
<1>4. CASE v # "PASS"
  <2>1. /\ UNCHANGED <<gov, lastTrade, tradeTimes, held, broker, trades>>
        /\ traded' \subseteq Signals
    BY <1>1, <1>4 DEF ProposalAnswered, TypeInv, TypeOK
  <2>2. PICK st \in {"RAISED", "NO_TRADE"}, r \in Reasons : GivesUp(st, r)
    <3>1. CASE v = "ValueError"
      BY <3>1, <1>4 DEF ProposalAnswered, Reasons
    <3>2. CASE v # "ValueError"
      BY <3>2, <1>2, <1>4 DEF ProposalAnswered
    <3> QED
      BY <3>1, <3>2
  <2>3. st \in Statuses \ {"TRADE"}
    BY <2>2 DEF Statuses
  <2> QED
    BY <1>1, <2>1, <2>2, <2>3, GivingUpKeepsType
<1> QED
  BY <1>3, <1>4

\* So does a proposal that turns out to have no id.
LEMMA NamelessKeepsType ==
    ASSUME TypeInv, NEW d \in Delays, NEW gain \in Gains,
           ProposalNameless(d, gain)
    PROVE  TypeInv'
<1>1. /\ stage = "proposal" /\ TimePasses(d) /\ GivesUp("RAISED", "KeyError")
      /\ traded' = traded \cup {att.signal}
      /\ UNCHANGED <<gov, lastTrade, tradeTimes, held, broker, trades>>
  BY DEF ProposalNameless
<1>2. traded' \subseteq Signals
  BY <1>1 DEF TypeInv, TypeOK, Attempts
<1>3. "RAISED" \in Statuses \ {"TRADE"} /\ "KeyError" \in Reasons
  BY DEF Statuses, Reasons
<1> QED
  BY <1>1, <1>2, <1>3, GivingUpKeepsType

\* So does the answer to a request to buy.
LEMMA BuyAnsweredKeepsType ==
    ASSUME TypeInv, NEW d \in Delays, BuyAnswered(d)
    PROVE  TypeInv'
<1>1. /\ TimePasses(d) /\ stage = "buy" /\ stage' = "idle"
      /\ lastTrade' = [lastTrade EXCEPT ![att.symbol] = att.start]
      /\ tradeTimes' = Append(tradeTimes, att.start)
      /\ held' = held \cup {[order |-> att.order, symbol |-> att.symbol,
                             direction |-> att.direction]}
      /\ trades' = Append(trades, [symbol |-> att.symbol, at |-> att.start])
  BY Zenon DEF BuyAnswered
<1>2. /\ outcome' = [status |-> "TRADE", reason |-> ""]
      /\ UNCHANGED <<gov, traded, att, wire, filled, nextOrder>>
  BY DEF BuyAnswered, Outcome, broker
<1>3. /\ now \in Nat /\ att \in Attempts /\ tradeTimes \in Seq(Nat)
      /\ lastTrade \in [Symbols -> Nat \cup {Never}]
      /\ held \subseteq [order : Nat, symbol : Symbols, direction : Directions]
      /\ trades \in Seq([symbol : Symbols, at : Nat])
  BY <1>1 DEF TypeInv, TypeOK
<1>4. /\ att.symbol \in Symbols /\ att.start \in Nat /\ att.order \in Nat
      /\ att.direction \in Directions
  BY <1>3 DEF Attempts
<1>5. now' \in Nat
  BY <1>1, <1>3, OrderAssumption DEF TimePasses
<1>6. lastTrade' \in [Symbols -> Nat \cup {Never}]
  BY <1>1, <1>3, <1>4
<1>7. tradeTimes' \in Seq(Nat)
  BY <1>1, <1>3, <1>4
<1>8. held' \subseteq [order : Nat, symbol : Symbols, direction : Directions]
  BY <1>1, <1>3, <1>4
<1>9. trades' \in Seq([symbol : Symbols, at : Nat])
  <2>1. [symbol |-> att.symbol, at |-> att.start] \in [symbol : Symbols, at : Nat]
    BY <1>4
  <2>2. \A S : \A q \in Seq(S), e \in S : Append(q, e) \in Seq(S)
    OBVIOUS
  <2> QED
    BY <1>1, <1>3, <2>1, <2>2, Zenon
<1>10. outcome' \in [status : Statuses, reason : Reasons]
  BY <1>2 DEF Statuses, Reasons
<1> QED
  BY <1>1, <1>2, <1>3, <1>5, <1>6, <1>7, <1>8, <1>9, <1>10
     DEF TypeInv, TypeOK, TradeAwaitsSettlement

\* So does the settlement of a contract.
LEMMA SettlingKeepsType ==
    ASSUME TypeInv, NEW pl, RunnerSettles(pl)
    PROVE  TypeInv' /\ pl \in Int
<1>1. att \in Attempts
  BY DEF RunnerSettles, TypeInv, TradeAwaitsSettlement
<1>2. pl \in Int
  <2>1. att.stake \in Int /\ att.gain \in Int
    BY <1>1 DEF Attempts
  <2>2. pl = -att.stake \/ pl = att.gain
    BY DEF RunnerSettles
  <2> QED
    BY <2>1, <2>2
<1>3. gov' \in Governors
  BY <1>2, AfterResultFields DEF RunnerSettles, TypeInv, TypeOK
<1>4. /\ outcome' \in [status : Statuses, reason : Reasons]
      /\ outcome'.status = "NONE"
  BY DEF RunnerSettles, Outcome, Statuses, Reasons
<1>5. /\ UNCHANGED <<now, stage, trades, traded, lastTrade, tradeTimes, held>>
      /\ UNCHANGED <<wire, filled, nextOrder>>
      /\ stage = "idle" /\ att' = NoAttempt
  BY DEF RunnerSettles, guards, broker
<1> QED
  BY <1>2, <1>3, <1>4, <1>5 DEF TypeInv, TypeOK, TradeAwaitsSettlement

\* So every step does.
LEMMA NextTypeInv == TypeInv /\ Suspended /\ [Next]_omVars => TypeInv'
<1> SUFFICES ASSUME TypeInv, Suspended, [Next]_omVars PROVE TypeInv'
  OBVIOUS
<1>1. ASSUME Caller PROVE TypeInv'
  <2>1. ASSUME NEW s \in Signals, NEW y \in Symbols, NEW dir \in Candidates,
               NEW p \in Probabilities, AttemptTrade(s, y, dir, p)
        PROVE  TypeInv'
    BY <2>1, AttemptKeepsType
  <2>2. ASSUME NEW d \in Delays, Wait(d) PROVE TypeInv'
    BY <2>2, OrderAssumption
       DEF Wait, TimePasses, TypeInv, TypeOK, TradeAwaitsSettlement, guards, broker
  <2>3. ASSUME NEW p \in held, ClosePosition(p) PROVE TypeInv'
    BY <2>3 DEF ClosePosition, TypeInv, TypeOK, TradeAwaitsSettlement, broker
  <2>4. ASSUME NEW pl, RunnerSettles(pl) PROVE TypeInv'
    BY <2>4, SettlingKeepsType
  <2>5. ASSUME DayRollsOver PROVE TypeInv'
    <3>1. gov' \in Governors
      BY <2>5, NextDayFields DEF DayRollsOver, TypeInv, TypeOK
    <3> QED
      BY <2>5, <3>1
         DEF DayRollsOver, TypeInv, TypeOK, TradeAwaitsSettlement, guards, broker
  <2> QED
    BY <1>1, <2>1, <2>2, <2>3, <2>4, <2>5 DEF Caller
<1>2. ASSUME Answers PROVE TypeInv'
  <2>1. PICK d \in Delays : \/ \E gain \in Gains : ProposalAnswered(d, gain)
                            \/ \E gain \in Gains : ProposalNameless(d, gain)
                            \/ ProposalUnpriced(d)
                            \/ ProposalRaises(d)
                            \/ BuyAnswered(d)
                            \/ BuyRaises(d)
    BY <1>2 DEF Answers
  <2>2. ASSUME NEW gain \in Gains, ProposalAnswered(d, gain) PROVE TypeInv'
    BY <2>2, ProposalKeepsType
  <2>3. ASSUME ProposalUnpriced(d) \/ ProposalRaises(d) \/ BuyRaises(d)
        PROVE  TypeInv'
    <3>1. PICK st \in {"NO_TRADE", "RAISED"},
               r \in {"SIGNAL_INVALID", "proposal", "buy"} :
             /\ GivesUp(st, r) /\ TimePasses(d)
             /\ UNCHANGED <<gov, lastTrade, tradeTimes, held, broker, trades>>
             /\ traded' = traded
      BY <2>3 DEF ProposalUnpriced, ProposalRaises, BuyRaises, guards
    <3>2. /\ st \in Statuses \ {"TRADE"} /\ r \in Reasons
          /\ traded' \subseteq Signals
      BY <3>1 DEF Statuses, Reasons, TypeInv, TypeOK
    <3> QED
      BY <3>1, <3>2, GivingUpKeepsType
  <2>4. ASSUME BuyAnswered(d) PROVE TypeInv'
    BY <2>4, BuyAnsweredKeepsType
  <2>5. ASSUME NEW gain \in Gains, ProposalNameless(d, gain) PROVE TypeInv'
    BY <2>5, NamelessKeepsType
  <2> QED
    BY <2>1, <2>2, <2>3, <2>4, <2>5
<1>3. ASSUME Broker PROVE TypeInv'
  BY <1>3 DEF Broker, BrokerFills, BrokerDrops, TypeInv, TypeOK,
              TradeAwaitsSettlement, guards
<1>4. ASSUME UNCHANGED omVars PROVE TypeInv'
  BY <1>4 DEF omVars, TypeInv, TypeOK, TradeAwaitsSettlement
<1> QED
  BY <1>1, <1>2, <1>3, <1>4 DEF Next

-----------------------------------------------------------------------------
(* One contract for each signal.                                           *)

\* Every request, executed or not, is for a signal that is marked; no two are
\* for the same signal; and an attempt that waits for its proposal is for a
\* signal that is not marked yet.
RequestsMarked   == \A o \in wire \cup filled : o.signal \in traded
OneRequestEach   == \A o, p \in wire \cup filled : o.signal = p.signal => o = p
ProposalUnmarked == stage = "proposal" => att.signal \notin traded

OrderInv == /\ TypeInv /\ Suspended
            /\ RequestsMarked /\ OneRequestEach /\ ProposalUnmarked

\* It holds initially, when nothing was asked.
LEMMA InitOrderInv == Init => OrderInv
<1>1. Init => Suspended /\ RequestsMarked /\ OneRequestEach /\ ProposalUnmarked
  BY DEF Init, Suspended, RequestsMarked, OneRequestEach, ProposalUnmarked
<1> QED
  BY <1>1, InitTypeInv DEF OrderInv

\* The ways a step may treat the signals and the requests.
Marks(s) == /\ traded' = traded \cup {s} /\ filled' = filled
            /\ wire' = wire \cup {[id |-> nextOrder, signal |-> s]}

Fills(o) == /\ o \in wire /\ traded' = traded
            /\ wire' = wire \ {o} /\ filled' = filled \cup {o}

\* The signal is marked for a request that is then never sent.
MarksOnly(s) == traded' = traded \cup {s} /\ UNCHANGED <<wire, filled>>

NoNewRequest == /\ traded' = traded /\ filled' = filled /\ wire' \subseteq wire

\* Apart from sending a request, an attempt begins or ends in a step that
\* leaves the requests alone; a request is sent for the attempt's signal.
LEMMA StepKinds ==
    ASSUME OrderInv, [Next]_omVars
    PROVE  /\ Suspended'
           /\ \/ /\ stage = "proposal" /\ stage' = "buy" /\ Marks(att.signal)
              \/ /\ \E o \in wire : Fills(o)
                 /\ stage' = stage /\ att' = att
              \/ /\ stage = "proposal" /\ stage' = "idle"
                 /\ MarksOnly(att.signal)
              \/ /\ NoNewRequest
                 /\ stage' = "proposal" => att'.signal \notin traded
<1> USE DEF OrderInv, Suspended
<1>1. ASSUME Caller PROVE NoNewRequest /\ Suspended'
                          /\ (stage' = "proposal" => att'.signal \notin traded)
  <2>1. ASSUME NEW s \in Signals, NEW y \in Symbols, NEW dir \in Candidates,
               NEW p \in Probabilities, AttemptTrade(s, y, dir, p)
        PROVE  NoNewRequest /\ Suspended'
               /\ (stage' = "proposal" => att'.signal \notin traded)
    <3>1. NoNewRequest
      BY <2>1 DEF AttemptTrade, NoNewRequest, broker
    <3>2. CASE Gate(s, y, dir) = "PASS"
      <4>1. /\ stage' = "proposal" /\ outcome'.status = "PENDING"
            /\ att'.signal = s
        <5>1. /\ stage' = "proposal" /\ Outcome("PENDING", "")
              /\ att' = [signal |-> s, symbol |-> y, direction |-> dir,
                         prob |-> p, start |-> now, stake |-> Stake(gov),
                         gain |-> 0, order |-> 0]
          BY <2>1, <3>2 DEF AttemptTrade
        <5> QED
          BY <5>1 DEF Outcome
      <4>2. s \notin traded
        BY <3>2, GatePasses DEF TypeInv, TypeOK
      <4> QED
        BY <3>1, <4>1, <4>2
    <3>3. CASE Gate(s, y, dir) # "PASS"
      <4>1. stage' = "idle"
        BY <2>1, <3>3 DEF AttemptTrade
      <4> QED
        BY <3>1, <4>1
    <3> QED
      BY <3>2, <3>3
  <2>2. ASSUME \/ \E d \in Delays : Wait(d)
               \/ \E p \in held : ClosePosition(p)
               \/ DayRollsOver
               \/ \E pl \in {-att.stake, att.gain} : RunnerSettles(pl)
        PROVE  NoNewRequest /\ stage' = "idle"
    BY <2>2 DEF Wait, ClosePosition, DayRollsOver, RunnerSettles,
                NoNewRequest, guards, broker
  <2> QED
    BY <1>1, <2>1, <2>2 DEF Caller
<1>2. ASSUME Answers
      PROVE  /\ Suspended'
             /\ \/ /\ stage = "proposal" /\ stage' = "buy" /\ Marks(att.signal)
                \/ /\ stage = "proposal" /\ stage' = "idle"
                   /\ MarksOnly(att.signal)
                \/ NoNewRequest /\ stage' = "idle"
  <2>1. PICK d \in Delays : \/ \E gain \in Gains : ProposalAnswered(d, gain)
                            \/ \E gain \in Gains : ProposalNameless(d, gain)
                            \/ ProposalUnpriced(d)
                            \/ ProposalRaises(d)
                            \/ BuyAnswered(d)
                            \/ BuyRaises(d)
    BY <1>2 DEF Answers
  <2>2. ASSUME NEW gain \in Gains, ProposalAnswered(d, gain)
        PROVE  /\ Suspended'
               /\ \/ /\ stage = "proposal" /\ stage' = "buy" /\ Marks(att.signal)
                  \/ NoNewRequest /\ stage' = "idle"
    <3>1. CASE Verdict(att.prob, att.stake, att.stake + gain, d) = "PASS"
      <4>1. stage = "proposal" /\ SendBuy(gain)
        BY <2>2, <3>1 DEF ProposalAnswered
      <4> QED
        BY <4>1 DEF SendBuy, Marks
    <3>2. CASE Verdict(att.prob, att.stake, att.stake + gain, d) # "PASS"
      <4>1. stage' = "idle" /\ UNCHANGED <<traded, broker>>
        BY <2>2, <3>2 DEF ProposalAnswered, GivesUp
      <4> QED
        BY <4>1 DEF NoNewRequest, broker
    <3> QED
      BY <3>1, <3>2
  <2>3. ASSUME ProposalUnpriced(d) \/ ProposalRaises(d) \/ BuyRaises(d)
        PROVE  NoNewRequest /\ stage' = "idle"
    BY <2>3 DEF ProposalUnpriced, ProposalRaises, BuyRaises, GivesUp,
                NoNewRequest, guards, broker
  <2>4. ASSUME BuyAnswered(d)
        PROVE  NoNewRequest /\ stage' = "idle"
    BY <2>4, Zenon DEF BuyAnswered, NoNewRequest, broker
  <2>5. ASSUME NEW gain \in Gains, ProposalNameless(d, gain)
        PROVE  stage = "proposal" /\ stage' = "idle" /\ MarksOnly(att.signal)
    BY <2>5 DEF ProposalNameless, GivesUp, MarksOnly, broker
  <2> QED
    BY <2>1, <2>2, <2>3, <2>4, <2>5
<1>3. ASSUME NEW o \in wire, BrokerFills(o)
      PROVE  Suspended' /\ Fills(o) /\ stage' = stage /\ att' = att
  BY <1>3 DEF BrokerFills, Fills, guards
<1>4. ASSUME NEW o \in wire, BrokerDrops(o)
      PROVE  /\ Suspended' /\ NoNewRequest
             /\ stage' = "proposal" => att'.signal \notin traded
  BY <1>4 DEF BrokerDrops, NoNewRequest, ProposalUnmarked, guards
<1>5. ASSUME UNCHANGED omVars
      PROVE  /\ Suspended' /\ NoNewRequest
             /\ stage' = "proposal" => att'.signal \notin traded
  BY <1>5 DEF omVars, NoNewRequest, ProposalUnmarked
<1> QED
  BY <1>1, <1>2, <1>3, <1>4, <1>5 DEF Next, Broker

\* Every step keeps it.
LEMMA NextOrderInv == OrderInv /\ [Next]_omVars => OrderInv'
<1> SUFFICES ASSUME OrderInv, [Next]_omVars PROVE OrderInv'
  OBVIOUS
<1>1. TypeInv' /\ Suspended'
  BY NextTypeInv, StepKinds DEF OrderInv
<1>2. RequestsMarked /\ OneRequestEach /\ ProposalUnmarked
  BY DEF OrderInv
<1>3. CASE stage = "proposal" /\ stage' = "buy" /\ Marks(att.signal)
  BY <1>1, <1>2, <1>3 DEF OrderInv, Marks, RequestsMarked, OneRequestEach,
                          ProposalUnmarked
<1>4. ASSUME NEW o \in wire, Fills(o), stage' = stage, att' = att
      PROVE  OrderInv'
  BY <1>1, <1>2, <1>4 DEF OrderInv, Fills, RequestsMarked, OneRequestEach,
                          ProposalUnmarked
<1>5. CASE NoNewRequest /\ (stage' = "proposal" => att'.signal \notin traded)
  BY <1>1, <1>2, <1>5 DEF OrderInv, NoNewRequest, RequestsMarked, OneRequestEach,
                          ProposalUnmarked
<1>6. CASE stage' = "idle" /\ MarksOnly(att.signal)
  BY <1>1, <1>2, <1>6 DEF OrderInv, MarksOnly, RequestsMarked, OneRequestEach,
                          ProposalUnmarked
<1> QED
  BY <1>3, <1>4, <1>5, <1>6, StepKinds

\* Every reachable state of the order manager has its type.
THEOREM OrderTypes == Spec => []TypeOK
<1>1. OrderInv => TypeOK
  BY DEF OrderInv, TypeInv
<1> QED
  BY InitOrderInv, NextOrderInv, <1>1, PTL DEF Spec

\* A signal never has two contracts, whatever the broker and the network do
\* with its requests.
THEOREM OneContract == Spec => []OneContractPerSignal
<1>1. OrderInv => OneContractPerSignal
  BY DEF OrderInv, OneRequestEach, OneContractPerSignal
<1> QED
  BY InitOrderInv, NextOrderInv, <1>1, PTL DEF Spec

\* The order manager implements the ledger of signals: marking a signal
\* commits to it, whether its request is then sent or not, executing the
\* request fills it, and no other step is visible.
THEOREM OrdersImplementLedger == Spec => ImplementsLedger
<1>1. Init => Ledger!Init
  BY DEF Init, Ledger!Init
<1>2. OrderInv /\ [Next]_omVars => [Ledger!Next]_(Ledger!ledger)
  <2> SUFFICES ASSUME OrderInv, [Next]_omVars
               PROVE  [Ledger!Next]_(Ledger!ledger)
    OBVIOUS
  <2>1. CASE stage = "proposal" /\ stage' = "buy" /\ Marks(att.signal)
    <3>1. att.signal \in Signals /\ att.signal \notin traded
      BY <2>1 DEF OrderInv, TypeInv, TypeOK, ProposalUnmarked, Attempts
    <3>2. Ledger!Commit(att.signal)
      BY <2>1, <3>1 DEF Marks, Ledger!Commit
    <3> QED
      BY <3>1, <3>2 DEF Ledger!Next
  <2>2. ASSUME NEW o \in wire, Fills(o)
        PROVE  [Ledger!Next]_(Ledger!ledger)
    <3>1. o \in Orders /\ o.signal \in traded
      BY DEF OrderInv, TypeInv, TypeOK, RequestsMarked
    <3>2. CASE \E c \in filled : c.signal = o.signal
      <4>1. o \in filled
        BY <3>2 DEF OrderInv, OneRequestEach
      <4>2. UNCHANGED <<traded, filled>>
        BY <2>2, <4>1 DEF Fills
      <4> QED
        BY <4>2 DEF Ledger!ledger
    <3>3. CASE \A c \in filled : c.signal # o.signal
      <4>1. Ledger!Fill(o)
        BY <2>2, <3>1, <3>3 DEF Fills, Ledger!Fill
      <4> QED
        BY <3>1, <4>1 DEF Ledger!Next
    <3> QED
      BY <3>2, <3>3
  <2>3. CASE NoNewRequest
    BY <2>3 DEF NoNewRequest, Ledger!ledger
  <2>4. CASE stage = "proposal" /\ MarksOnly(att.signal)
    <3>1. att.signal \in Signals /\ att.signal \notin traded
      BY <2>4 DEF OrderInv, TypeInv, TypeOK, ProposalUnmarked, Attempts
    <3>2. Ledger!Commit(att.signal)
      BY <2>4, <3>1 DEF MarksOnly, Ledger!Commit
    <3> QED
      BY <3>1, <3>2 DEF Ledger!Next
  <2> QED
    BY <2>1, <2>2, <2>3, <2>4, StepKinds
<1> QED
  BY InitOrderInv, NextOrderInv, <1>1, <1>2, PTL
     DEF Spec, ImplementsLedger, Ledger!Spec
-----------------------------------------------------------------------------
(* What holds over time: the cooldown between trades, the permission of    *)
(* the governor and the size of a stake.                                   *)

\* The cooldown tracker knows the latest trade of each symbol, and a
\* suspended attempt began a cooldown after it.
LatestTracked == \A i \in DOMAIN trades :
                    lastTrade[trades[i].symbol] >= trades[i].at
AttemptCooled == stage # "idle" => CooldownSatisfied(lastTrade[att.symbol], att.start)

BelowPeak == gov.current <= gov.peak

LimitInv == /\ OrderInv
            /\ LatestTracked /\ AttemptCooled /\ CooldownSpacing
            /\ OnlyPermittedOrders /\ BelowPeak

\* It holds initially, when nothing was recorded.
LEMMA InitLimitInv == Init => LimitInv
<1> SUFFICES ASSUME Init PROVE LimitInv
  OBVIOUS
<1>1. /\ stage = "idle" /\ trades = << >>
      /\ gov = NewGovernor
  BY DEF Init
<1>2. LatestTracked /\ CooldownSpacing
  BY <1>1 DEF LatestTracked, CooldownSpacing
<1>3. BelowPeak
  BY <1>1, GovernorAssumption DEF BelowPeak, NewGovernor
<1> QED
  BY <1>1, <1>2, <1>3, InitOrderInv
     DEF LimitInv, AttemptCooled, OnlyPermittedOrders

\* What a step may do to the trades recorded, the governor and the attempt.
Begins(y) == /\ stage' # "idle" /\ att'.symbol = y /\ att'.start = now
             /\ att'.stake = Stake(gov)
             /\ CanTrade(gov) /\ Stake(gov) > 0
             /\ CooldownSatisfied(lastTrade[y], now)

Buys == /\ stage # "idle" /\ stage' = "idle"
        /\ lastTrade' = [lastTrade EXCEPT ![att.symbol] = att.start]
        /\ trades' = Append(trades, [symbol |-> att.symbol, at |-> att.start])

GoesOn == /\ stage # "idle" /\ att'.symbol = att.symbol
          /\ att'.start = att.start /\ att'.stake = att.stake

\* Only a purchase is recorded, only an idle order manager's governor is told
\* anything, and an attempt goes on as it began.
LEMMA LimitSteps ==
    ASSUME LimitInv, [Next]_omVars
    PROVE  \/ /\ \/ stage' = "idle" \/ GoesOn \/ \E y \in Symbols : Begins(y)
              /\ UNCHANGED <<gov, lastTrade, trades>>
           \/ Buys /\ UNCHANGED gov
           \/ /\ stage' = "idle" /\ UNCHANGED <<lastTrade, trades>>
              /\ \/ gov' = NextDay(gov)
                 \/ \E pl \in Int : gov' = AfterResult(gov, pl)
<1> DEFINE Quiet == /\ \/ stage' = "idle" \/ GoesOn
                       \/ \E y \in Symbols : Begins(y)
                    /\ UNCHANGED <<gov, lastTrade, trades>>
<1>0. TypeInv
  BY DEF LimitInv, OrderInv
<1>1. ASSUME NEW s \in Signals, NEW y \in Symbols, NEW dir \in Candidates,
             NEW p \in Probabilities, AttemptTrade(s, y, dir, p)
      PROVE  Quiet
  <2>1. UNCHANGED <<gov, lastTrade, trades>> /\ stage = "idle"
    BY <1>1 DEF AttemptTrade
  <2>2. CASE Gate(s, y, dir) = "PASS"
    <3>1. /\ stage' = "proposal"
          /\ att' = [signal |-> s, symbol |-> y, direction |-> dir, prob |-> p,
                     start |-> now, stake |-> Stake(gov), gain |-> 0, order |-> 0]
      BY <1>1, <2>2 DEF AttemptTrade
    <3>2. att'.symbol = y /\ att'.start = now /\ att'.stake = Stake(gov)
      BY <3>1
    <3>3. /\ CanTrade(gov) /\ Stake(gov) > 0
          /\ CooldownSatisfied(lastTrade[y], now)
      BY <1>0, <2>2, GatePasses DEF TypeInv, TypeOK
    <3> QED
      BY <2>1, <3>1, <3>2, <3>3 DEF Begins
  <2>3. CASE Gate(s, y, dir) # "PASS"
    <3>1. stage' = "idle"
      BY <1>1, <2>1, <2>3 DEF AttemptTrade
    <3> QED
      BY <2>1, <3>1
  <2> QED
    BY <2>2, <2>3
<1>2. ASSUME \/ \E d \in Delays : Wait(d) \/ ProposalUnpriced(d)
                                  \/ ProposalRaises(d) \/ BuyRaises(d)
             \/ \E d \in Delays, gain \in Gains : ProposalNameless(d, gain)
             \/ \E p \in held : ClosePosition(p)
      PROVE  Quiet
  BY <1>2 DEF Wait, ProposalNameless, ProposalUnpriced, ProposalRaises, BuyRaises,
              ClosePosition, GivesUp, guards
<1>3. ASSUME NEW d \in Delays, NEW gain \in Gains, ProposalAnswered(d, gain)
      PROVE  Quiet
  <2>1. stage = "proposal" /\ UNCHANGED <<gov, lastTrade, trades>>
    BY <1>3 DEF ProposalAnswered
  <2>2. CASE Verdict(att.prob, att.stake, att.stake + gain, d) = "PASS"
    <3>1. att' = [att EXCEPT !.gain = gain, !.order = nextOrder]
      BY <1>3, <2>2 DEF ProposalAnswered, SendBuy
    <3>2. att \in Attempts
      BY <1>0, <2>1 DEF TypeInv, TypeOK
    <3>3. /\ att'.symbol = att.symbol /\ att'.start = att.start
          /\ att'.stake = att.stake
      BY <3>1, <3>2 DEF Attempts
    <3> QED
      BY <2>1, <3>3 DEF GoesOn
  <2>3. CASE Verdict(att.prob, att.stake, att.stake + gain, d) # "PASS"
    <3>1. stage' = "idle"
      BY <1>3, <2>3 DEF ProposalAnswered, GivesUp
    <3> QED
      BY <2>1, <3>1
  <2> QED
    BY <2>2, <2>3
<1>4. ASSUME NEW d \in Delays, BuyAnswered(d)
      PROVE  Buys /\ UNCHANGED gov
  BY <1>4, Zenon DEF BuyAnswered, Buys
<1>5. ASSUME \E pl \in {-att.stake, att.gain} : RunnerSettles(pl)
      PROVE  /\ stage' = "idle" /\ UNCHANGED <<lastTrade, trades>>
             /\ \E pl \in Int : gov' = AfterResult(gov, pl)
  <2>1. PICK pl \in {-att.stake, att.gain} : RunnerSettles(pl)
    BY <1>5
  <2>2. pl \in Int
    BY <1>0, <2>1, SettlingKeepsType
  <2> QED
    BY <2>1, <2>2 DEF RunnerSettles, guards
<1>6. ASSUME DayRollsOver
      PROVE  stage' = "idle" /\ UNCHANGED <<lastTrade, trades>> /\ gov' = NextDay(gov)
  BY <1>6 DEF DayRollsOver, guards
<1>7. ASSUME Broker \/ UNCHANGED omVars PROVE Quiet
  <2>1. UNCHANGED <<gov, lastTrade, trades, stage, att>>
    BY <1>7 DEF Broker, BrokerFills, BrokerDrops, omVars, guards
  <2>2. stage \in {"idle", "proposal", "buy"}
    BY <1>0 DEF TypeInv, TypeOK
  <2> QED
    BY <2>1, <2>2 DEF GoesOn
<1> QED
  BY <1>1, <1>2, <1>3, <1>4, <1>5, <1>6, <1>7 DEF Next, Caller, Answers

\* A purchase keeps the trades of each symbol a cooldown apart.
LEMMA BuyKeepsSpacing ==
    ASSUME LimitInv, Buys
    PROVE  LatestTracked' /\ CooldownSpacing'
<1>1. /\ att \in Attempts /\ lastTrade \in [Symbols -> Nat \cup {Never}]
      /\ trades \in Seq([symbol : Symbols, at : Nat])
  BY DEF LimitInv, OrderInv, TypeInv, TypeOK, Buys
<1> DEFINE y == att.symbol
           t == att.start
           n == Len(trades)
<1>2. y \in Symbols /\ t \in Nat /\ n \in Nat /\ Cooldown \in Nat
  BY <1>1, GatesAssumption DEF Attempts
<1>3. /\ lastTrade' = [lastTrade EXCEPT ![y] = t]
      /\ trades' = Append(trades, [symbol |-> y, at |-> t])
  BY DEF Buys
<1>4. lastTrade[y] = Never \/ t - lastTrade[y] >= Cooldown
  BY DEF LimitInv, AttemptCooled, Buys, CooldownSatisfied
<1> HIDE DEF y, t
<1>5. /\ DOMAIN trades = 1..n /\ DOMAIN trades' = 1..(n + 1)
      /\ trades'[n + 1] = [symbol |-> y, at |-> t]
      /\ \A i \in 1..n : trades'[i] = trades[i]
  BY <1>1, <1>2, <1>3
<1>6. \A i \in 1..n : /\ trades[i].symbol \in Symbols /\ trades[i].at \in Nat
                      /\ lastTrade[trades[i].symbol] \in Nat \cup {Never}
                      /\ lastTrade[trades[i].symbol] >= trades[i].at
  <2> SUFFICES ASSUME NEW i \in 1..n
               PROVE  /\ trades[i].symbol \in Symbols /\ trades[i].at \in Nat
                      /\ lastTrade[trades[i].symbol] \in Nat \cup {Never}
                      /\ lastTrade[trades[i].symbol] >= trades[i].at
    OBVIOUS
  <2>1. trades[i] \in [symbol : Symbols, at : Nat]
    <3>1. \A S : \A q \in Seq(S) : \A k \in 1..Len(q) : q[k] \in S
      OBVIOUS
    <3> QED
      BY <1>1, <3>1, Zenon
  <2>2. trades[i].symbol \in Symbols /\ trades[i].at \in Nat
    BY <2>1
  <2> QED
    BY <1>1, <1>5, <2>2 DEF LimitInv, LatestTracked
<1>7. \A i \in 1..n : trades[i].symbol = y => t - trades[i].at >= Cooldown
  BY <1>2, <1>4, <1>6 DEF Never
<1>8. LatestTracked'
  <2> SUFFICES ASSUME NEW i \in 1..(n + 1)
               PROVE  lastTrade'[trades'[i].symbol] >= trades'[i].at
    BY <1>5 DEF LatestTracked
  <2>1. CASE i = n + 1
    BY <1>1, <1>2, <1>3, <1>5, <2>1
  <2>2. CASE i \in 1..n
    <3>1. trades'[i] = trades[i]
      BY <1>5, <2>2
    <3>2. CASE trades[i].symbol = y
      BY <1>1, <1>2, <1>3, <1>6, <1>7, <2>2, <3>1, <3>2
    <3>3. CASE trades[i].symbol # y
      BY <1>1, <1>3, <1>6, <2>2, <3>1, <3>3
    <3> QED
      BY <3>2, <3>3
  <2> QED
    BY <1>2, <2>1, <2>2
<1>9. CooldownSpacing'
  <2> SUFFICES ASSUME NEW i \in 1..(n + 1), NEW j \in 1..(n + 1), i < j,
                      trades'[i].symbol = trades'[j].symbol
               PROVE  trades'[j].at - trades'[i].at >= Cooldown
    BY <1>5 DEF CooldownSpacing
  <2>1. i \in 1..n /\ trades'[i] = trades[i]
    BY <1>2, <1>5
  <2>2. CASE j = n + 1
    BY <1>5, <1>7, <2>1, <2>2
  <2>3. CASE j \in 1..n
    <3>1. trades'[j] = trades[j]
      BY <1>5, <2>3
    <3> QED
      BY <1>5, <2>1, <2>3, <3>1 DEF LimitInv, CooldownSpacing
  <2> QED
    BY <1>2, <2>2, <2>3
<1> QED
  BY <1>8, <1>9

\* A governor told of a result or of a new day still has its balance at or
\* below its peak.
LEMMA GovernorKeepsPeak ==
    ASSUME NEW g \in Governors, g.current <= g.peak, NEW pl \in Int
    PROVE  /\ AfterResult(g, pl).current <= AfterResult(g, pl).peak
           /\ NextDay(g).current <= NextDay(g).peak
<1>1. AfterResult(g, pl).peak = Larger(g.peak, g.current + pl)
      /\ AfterResult(g, pl).current = g.current + pl
  BY AfterResultFields
<1>2. NextDay(g).current = g.current /\ NextDay(g).peak = g.peak
  BY NextDayFields
<1>3. AfterResult(g, pl).current <= AfterResult(g, pl).peak
  BY <1>1 DEF Larger, Governors
<1> QED
  BY <1>2, <1>3

\* Every step keeps it.
LEMMA NextLimitInv == LimitInv /\ [Next]_omVars => LimitInv'
<1> SUFFICES ASSUME LimitInv, [Next]_omVars PROVE LimitInv'
  OBVIOUS
<1>1. OrderInv /\ OrderInv'
  BY NextOrderInv DEF LimitInv
<1>2. /\ gov \in Governors /\ now \in Nat
      /\ stage # "idle" => att \in Attempts
  BY <1>1 DEF OrderInv, TypeInv, TypeOK
<1>3. ASSUME \/ stage' = "idle" \/ GoesOn \/ \E y \in Symbols : Begins(y),
             UNCHANGED <<gov, lastTrade, trades>>
      PROVE  LimitInv'
  <2>1. LatestTracked' /\ CooldownSpacing' /\ BelowPeak'
    BY <1>3 DEF LimitInv, LatestTracked, CooldownSpacing, BelowPeak
  <2>2. AttemptCooled' /\ OnlyPermittedOrders'
    <3>1. CASE stage' = "idle"
      BY <3>1 DEF AttemptCooled, OnlyPermittedOrders
    <3>2. CASE GoesOn
      BY <1>3, <3>2 DEF GoesOn, LimitInv, AttemptCooled, OnlyPermittedOrders
    <3>3. ASSUME NEW y \in Symbols, Begins(y)
          PROVE  AttemptCooled' /\ OnlyPermittedOrders'
      <4>1. Stake(gov) \in 1..MaxStake
        BY <1>2, <3>3, StakeRange, GatesAssumption DEF Begins
      <4>2. UNCHANGED gov /\ CanTrade(gov)' /\ att'.stake \in 1..MaxStake
        BY <1>3, <3>3, <4>1 DEF Begins, CanTrade, RiskMultiplier, RiskState,
              DailyLoss, DrawdownAtWarning, DrawdownReaches
      <4> QED
        BY <1>3, <3>3, <4>2 DEF Begins, AttemptCooled, OnlyPermittedOrders
    <3> QED
      BY <1>3, <3>1, <3>2, <3>3
  <2> QED
    BY <1>1, <2>1, <2>2 DEF LimitInv
<1>4. ASSUME Buys, UNCHANGED gov PROVE LimitInv'
  BY <1>1, <1>4, BuyKeepsSpacing
     DEF LimitInv, Buys, AttemptCooled, OnlyPermittedOrders, BelowPeak
<1>5. ASSUME stage' = "idle", UNCHANGED <<lastTrade, trades>>,
             \/ gov' = NextDay(gov)
             \/ \E pl \in Int : gov' = AfterResult(gov, pl)
      PROVE  LimitInv'
  <2>1. BelowPeak'
    <3>1. gov.current <= gov.peak
      BY DEF LimitInv, BelowPeak
    <3>2. CASE gov' = NextDay(gov)
      BY <1>2, <3>1, <3>2, GovernorKeepsPeak DEF BelowPeak
    <3>3. ASSUME NEW pl \in Int, gov' = AfterResult(gov, pl) PROVE BelowPeak'
      BY <1>2, <3>1, <3>3, GovernorKeepsPeak DEF BelowPeak
    <3> QED
      BY <1>5, <3>2, <3>3
  <2> QED
    BY <1>1, <1>5, <2>1
       DEF LimitInv, LatestTracked, CooldownSpacing, AttemptCooled,
           OnlyPermittedOrders
<1> QED
  BY <1>3, <1>4, <1>5, LimitSteps

-----------------------------------------------------------------------------
\* Recorded trades of one symbol begin at least a cooldown apart, however
\* long their requests take to answer.
THEOREM CooldownKept == Spec => []CooldownSpacing
<1>1. LimitInv => CooldownSpacing
  BY DEF LimitInv
<1> QED
  BY InitLimitInv, NextLimitInv, <1>1, PTL DEF Spec

\* An attempt that is under way has the governor's permission all along, and
\* a positive stake within the ceiling.
THEOREM OrdersPermitted == Spec => []OnlyPermittedOrders
<1>1. LimitInv => OnlyPermittedOrders
  BY DEF LimitInv
<1> QED
  BY InitLimitInv, NextLimitInv, <1>1, PTL DEF Spec

\* No settled loss raises the next stake.
THEOREM NeverMartingale == Spec => NoMartingale
<1>1. ASSUME LimitInv, [Next]_omVars, gov'.losses > gov.losses
      PROVE  Stake(gov') <= Stake(gov)
  <2>1. gov \in Governors /\ gov.current <= gov.peak
    BY <1>1 DEF LimitInv, OrderInv, TypeInv, TypeOK, BelowPeak
  <2>2. PICK pl \in Int : gov' = AfterResult(gov, pl)
    <3>1. gov' # gov
      BY <1>1, <2>1 DEF Governors
    <3>2. gov' # NextDay(gov)
      BY <1>1, <2>1, NextDayFields DEF Governors
    <3> QED
      BY <1>1, <3>1, <3>2, LimitSteps
  <2>3. /\ gov' \in Governors /\ gov'.starting = gov.starting
        /\ gov'.current = gov.current + pl
        /\ gov'.peak = Larger(gov.peak, gov.current + pl)
        /\ gov'.losses = IF pl < 0 THEN gov.losses + 1 ELSE 0
        /\ gov'.stopped = (gov.stopped \/ DrawdownAtLimit(gov'))
    BY <2>1, <2>2, AfterResultFields
  <2>4. pl < 0
    BY <1>1, <2>1, <2>3 DEF Governors
  <2>5. /\ gov'.current <= gov.current /\ gov'.peak = gov.peak
        /\ gov'.losses >= gov.losses /\ (gov.stopped => gov'.stopped)
    BY <2>1, <2>3, <2>4 DEF Governors, Larger
  <2>6. RiskMultiplier(gov') <= RiskMultiplier(gov)
    BY <2>1, <2>3, <2>5, MultiplierMonotone
  <2> QED
    BY <2>1, <2>3, <2>5, <2>6, StakeMonotone
<1>2. LimitInv /\ [Next]_omVars
        => [gov'.losses > gov.losses => Stake(gov') <= Stake(gov)]_omVars
  BY <1>1
<1> QED
  BY InitLimitInv, NextLimitInv, <1>2, PTL DEF Spec, NoMartingale

-----------------------------------------------------------------------------
(* What a step does to the trackers.                                       *)

\* A candidate that passes is within the rates and the exposure.
Clears(y, dir) == /\ WithinLimits(tradeTimes, now)
                  /\ ~WouldExceedLimit(held, y, dir)

Position == [order |-> att.order, symbol |-> att.symbol, direction |-> att.direction]

\* The rate limiter was asked, and the candidate turned away or taken on.
Asks == /\ UNCHANGED <<now, trades, held>>
        /\ tradeTimes' \in {tradeTimes, Pruned(tradeTimes, now)}
        /\ stage' # "idle" => /\ att'.start = now
                              /\ Clears(att'.symbol, att'.direction)

\* Neither trades nor trackers change, unless a position is closed.
Passes == /\ UNCHANGED <<trades, tradeTimes>>
          /\ \/ held' = held
             \/ ClosesPositions /\ \E p \in held : held' = held \ {p}
          /\ stage' # "idle" => /\ stage # "idle" /\ att'.symbol = att.symbol
                                /\ att'.direction = att.direction
                                /\ att'.start = att.start /\ held' = held

Tracks == /\ stage # "idle" /\ stage' = "idle"
          /\ tradeTimes' = Append(tradeTimes, att.start)
          /\ trades' = Append(trades, [symbol |-> att.symbol, at |-> att.start])
          /\ held' = held \cup {Position}

\* Every step is one of the three, and time does not run back.
LEMMA TrackSteps ==
    ASSUME TypeInv, [Next]_omVars
    PROVE  now' \in Nat /\ now' >= now /\ (Asks \/ Passes \/ Tracks)
<1>1. now \in Nat /\ Delays \subseteq Nat /\ stage \in {"idle", "proposal", "buy"}
  BY OrderAssumption DEF TypeInv, TypeOK
<1> DEFINE Result == now' \in Nat /\ now' >= now /\ (Asks \/ Passes \/ Tracks)
<1>2. ASSUME NEW s \in Signals, NEW y \in Symbols, NEW dir \in Candidates,
             NEW p \in Probabilities, AttemptTrade(s, y, dir, p)
      PROVE  Result
  <2>1. /\ UNCHANGED <<now, trades, held>> /\ stage = "idle"
        /\ tradeTimes' \in {tradeTimes, Pruned(tradeTimes, now)}
    BY <1>2 DEF AttemptTrade
  <2>2. CASE Gate(s, y, dir) = "PASS"
    <3>1. att' = [signal |-> s, symbol |-> y, direction |-> dir, prob |-> p,
                  start |-> now, stake |-> Stake(gov), gain |-> 0, order |-> 0]
      BY <1>2, <2>2 DEF AttemptTrade
    <3>2. att'.start = now /\ att'.symbol = y /\ att'.direction = dir
      BY <3>1
    <3>3. Clears(y, dir)
      BY <2>2 DEF Gate, Clears
    <3> QED
      BY <1>1, <2>1, <3>2, <3>3 DEF Asks
  <2>3. CASE Gate(s, y, dir) # "PASS"
    <3>1. stage' = "idle"
      BY <1>2, <2>1, <2>3 DEF AttemptTrade
    <3> QED
      BY <1>1, <2>1, <3>1 DEF Asks
  <2> QED
    BY <2>2, <2>3
<1>3. ASSUME NEW d \in Delays,
             \/ Wait(d) \/ ProposalUnpriced(d) \/ ProposalRaises(d) \/ BuyRaises(d)
             \/ \E gain \in Gains : ProposalNameless(d, gain)
      PROVE  Result
  <2>1. /\ stage' = "idle" /\ now' = now + d
        /\ UNCHANGED <<trades, tradeTimes, held>>
    BY <1>3 DEF Wait, ProposalNameless, ProposalUnpriced, ProposalRaises,
                BuyRaises, GivesUp, TimePasses, guards
  <2>2. now' \in Nat /\ now' >= now
    BY <1>1, <2>1
  <2>3. Passes
    BY <2>1 DEF Passes
  <2> QED
    BY <2>2, <2>3
<1>4. ASSUME NEW p \in held, ClosePosition(p) PROVE Result
  BY <1>1, <1>4 DEF ClosePosition, Passes
<1>5. ASSUME NEW d \in Delays, NEW gain \in Gains, ProposalAnswered(d, gain)
      PROVE  Result
  <2>1. /\ stage = "proposal" /\ now' = now + d
        /\ UNCHANGED <<trades, tradeTimes, held>>
    BY <1>5 DEF ProposalAnswered, TimePasses
  <2>4. now' \in Nat /\ now' >= now
    BY <1>1, <2>1
  <2>2. CASE Verdict(att.prob, att.stake, att.stake + gain, d) = "PASS"
    <3>1. att' = [att EXCEPT !.gain = gain, !.order = nextOrder]
      BY <1>5, <2>2 DEF ProposalAnswered, SendBuy
    <3>2. att \in Attempts
      BY <2>1 DEF TypeInv, TypeOK
    <3>3. /\ att'.symbol = att.symbol /\ att'.start = att.start
          /\ att'.direction = att.direction
      BY <3>1, <3>2 DEF Attempts
    <3>4. Passes
      BY <2>1, <3>3 DEF Passes
    <3> QED
      BY <2>4, <3>4
  <2>3. CASE Verdict(att.prob, att.stake, att.stake + gain, d) # "PASS"
    <3>1. stage' = "idle"
      BY <1>5, <2>3 DEF ProposalAnswered, GivesUp
    <3>2. Passes
      BY <2>1, <3>1 DEF Passes
    <3> QED
      BY <2>4, <3>2
  <2> QED
    BY <2>2, <2>3
<1>6. ASSUME NEW d \in Delays, BuyAnswered(d) PROVE Result
  <2>1. Tracks /\ now' = now + d
    BY <1>6, Zenon DEF BuyAnswered, Tracks, Position, TimePasses
  <2> QED
    BY <1>1, <2>1
<1>7. ASSUME \/ \E pl \in {-att.stake, att.gain} : RunnerSettles(pl)
             \/ DayRollsOver \/ Broker \/ UNCHANGED omVars
      PROVE  Result
  <2>1. /\ UNCHANGED <<now, trades, tradeTimes, held>>
        /\ stage' # "idle" => UNCHANGED <<stage, att>>
    BY <1>7 DEF RunnerSettles, DayRollsOver, Broker, BrokerFills, BrokerDrops,
                omVars, guards
  <2>2. now' \in Nat /\ now' >= now
    BY <1>1, <2>1
  <2>3. Passes
    BY <2>1 DEF Passes
  <2> QED
    BY <2>2, <2>3
<1> QED
  BY <1>2, <1>3, <1>4, <1>5, <1>6, <1>7 DEF Next, Caller, Answers

-----------------------------------------------------------------------------
(* Exposure.                                                               *)

\* What a position exposes a currency by is a whole number.
LEMMA ExposesRange == \A y, d, c : Exposes(y, d, c) \in Int
<1> SUFFICES ASSUME NEW y, NEW d, NEW c PROVE Exposes(y, d, c) \in Int
  OBVIOUS
<1>1. CASE d = "CALL"
  <2>1. Exposes(y, d, c) = 0 \/ Exposes(y, d, c) = -1 \/ Exposes(y, d, c) = 1
    BY <1>1, Zenon DEF Exposes
  <2> QED
    BY <2>1
<1>2. CASE d # "CALL"
  <2>1. \/ Exposes(y, d, c) = 0 \/ Exposes(y, d, c) = -1
        \/ Exposes(y, d, c) = -(-1)
    BY <1>2, Zenon DEF Exposes
  <2> QED
    BY <2>1
<1> QED
  BY <1>1, <1>2

\* The exposure of a currency is a sum over the positions.
LEMMA ExposureIsSum ==
    ASSUME NEW H, IsFiniteSet(H), NEW c
    PROVE  CurrentExposure(H, c)
             = SumOf([p \in H |-> Exposes(p.symbol, p.direction, c)], H)
<1> DEFINE g(p) == Exposes(p.symbol, p.direction, c)
           f == [p \in H |-> g(p)]
           E(h) == h = [s \in SUBSET H |->
                          IF s = {} THEN 0 ELSE g(Some(s)) + h[s \ {Some(s)}]]
           iter == CHOOSE h : E(h)
<1>1. \A h : E(h) <=> Sums(h, f, H)
  <2>1. \A s \in SUBSET H : s # {} => f[Some(s)] = g(Some(s))
    BY SomeIsElement
  <2> HIDE DEF g
  <2> QED
    BY <2>1 DEF Sums
<1>2. E(iter)
  <2>1. \E h : E(h)
    BY <1>1, SumsExist
  <2> QED
    BY <2>1, Zenon
<1>3. CurrentExposure(H, c) = iter[H]
  BY Zenon DEF CurrentExposure, MapThenSumSet, MapThenFoldSet, Some
<1>4. Sums(iter, f, H)
  BY <1>1, <1>2
<1> HIDE DEF iter, f
<1>5. SumOf(f, H) = iter[H]
  BY <1>4, TablesAgree
<1> QED
  BY <1>3, <1>5 DEF f

\* One position more changes the exposure by what it exposes.
LEMMA ExposureGrows ==
    ASSUME NEW H, IsFiniteSet(H), NEW p, p \notin H, NEW c
    PROVE  /\ CurrentExposure(H, c) \in Int
           /\ CurrentExposure(H \cup {p}, c)
                = CurrentExposure(H, c) + Exposes(p.symbol, p.direction, c)
<1> DEFINE U == H \cup {p}
           g(q) == Exposes(q.symbol, q.direction, c)
           f == [q \in H |-> g(q)]
           k == [q \in U |-> g(q)]
<1>1. \A q : g(q) \in Int
  BY ExposesRange
<1>2. IsFiniteSet(U)
  BY FS_AddElement
<1>3. CurrentExposure(H, c) = SumOf(f, H) /\ CurrentExposure(U, c) = SumOf(k, U)
  BY <1>2, ExposureIsSum
<1>4. (\A q \in H : f[q] = k[q] /\ f[q] \in Int) /\ (\A q \in U : k[q] \in Int)
      /\ k[p] = g(p)
  BY <1>1
<1> HIDE DEF f, k, g
<1>5. SumOf(f, H) = SumOf(k, H) /\ SumOf(f, H) \in Int
  BY <1>4, SumOfSame, SumOfIntegers
<1>6. SumOf(k, U) = k[p] + SumOf(k, H)
  BY <1>4, SumOfOneMore
<1> QED
  BY <1>1, <1>3, <1>4, <1>5, <1>6 DEF g

\* While positions are only entered, every currency stays within its limit,
\* also by the position an attempt is about to enter.
ExposureInv ==
    /\ IsFiniteSet(held) /\ ExposureBounded
    /\ stage # "idle" => ~WouldExceedLimit(held, att.symbol, att.direction)

\* It holds initially, when nothing is held.
LEMMA InitExposureInv == Init => ExposureInv
<1> SUFFICES ASSUME Init PROVE ExposureInv
  OBVIOUS
<1>1. held = {} /\ IsFiniteSet({}) /\ stage = "idle"
  BY FS_EmptySet DEF Init
<1>2. \A c : CurrentExposure(held, c) = 0
  BY <1>1, ExposureIsSum, SumOfNothing
<1> QED
  BY <1>1, <1>2, GatesAssumption DEF ExposureInv, ExposureBounded

\* Every step keeps it while no position is closed.
LEMMA NextExposureInv ==
    ASSUME ~ClosesPositions, TypeInv, ExposureInv, [Next]_omVars
    PROVE  ExposureInv'
<1>1. CASE Asks
  BY <1>1 DEF Asks, Clears, ExposureInv, ExposureBounded
<1>2. CASE Passes
  BY <1>2 DEF Passes, ExposureInv, ExposureBounded
<1>3. CASE Tracks
  <2>1. /\ stage' = "idle" /\ held' = held \cup {Position} /\ IsFiniteSet(held')
    BY <1>3, FS_AddElement DEF Tracks, ExposureInv
  <2>2. CASE Position \in held
    <3>1. held' = held
      BY <2>1, <2>2
    <3> QED
      BY <2>1, <3>1 DEF ExposureInv, ExposureBounded
  <2>3. CASE Position \notin held
    <3> SUFFICES ASSUME NEW c \in Currencies
                 PROVE  /\ CurrentExposure(held', c) <= MaxExposure
                        /\ -CurrentExposure(held', c) <= MaxExposure
      BY <2>1 DEF ExposureInv, ExposureBounded
    <3> DEFINE e == CurrentExposure(held, c)
               x == Exposes(att.symbol, att.direction, c)
               pair == Pair[att.symbol]
    <3>1. Position.symbol = att.symbol /\ Position.direction = att.direction
      BY DEF Position
    <3>2. e \in Int /\ CurrentExposure(held', c) = e + x
      BY <2>1, <2>3, <3>1, ExposureGrows DEF ExposureInv
    <3>3. x \in Int /\ MaxExposure \in Nat
      BY ExposesRange, GatesAssumption
    <3>4. e <= MaxExposure /\ -e <= MaxExposure
      BY DEF ExposureInv, ExposureBounded
    <3>5. CASE pair # NoPair /\ c \in {pair[1], pair[2]}
      <4>1. ~(e + x > MaxExposure \/ -(e + x) > MaxExposure)
        BY <1>3, <3>5 DEF Tracks, ExposureInv, WouldExceedLimit
      <4> HIDE DEF e, x
      <4> QED
        BY <3>2, <3>3, <4>1
    <3>6. CASE ~(pair # NoPair /\ c \in {pair[1], pair[2]})
      <4>1. x = 0
        BY <3>6 DEF Exposes
      <4> HIDE DEF e, x
      <4> QED
        BY <3>2, <3>4, <4>1
    <3> QED
      BY <3>5, <3>6
  <2> QED
    BY <2>2, <2>3
<1> QED
  BY <1>1, <1>2, <1>3, TrackSteps

\* As long as positions are only opened, no currency is exposed beyond its
\* limit, whichever pairs share it.  Nothing under src/ closes one.
THEOREM ExposureKept == ASSUME ~ClosesPositions PROVE Spec => []ExposureBounded
<1> DEFINE Inv == OrderInv /\ ExposureInv
<1>1. Init => Inv
  BY InitOrderInv, InitExposureInv
<1>2. Inv /\ [Next]_omVars => Inv'
  BY NextOrderInv, NextExposureInv DEF OrderInv
<1>3. Inv => ExposureBounded
  BY DEF ExposureInv
<1> QED
  BY <1>1, <1>2, <1>3, PTL DEF Spec

-----------------------------------------------------------------------------
(* Rates.  The limiter holds the times of the trades recorded last; what   *)
(* it has forgotten is more than a day old.                                *)

Forgotten == Len(trades) - Len(tradeTimes)

LimiterRemembers ==
    /\ Forgotten \in Nat
    /\ \A i \in 1..Len(tradeTimes) : tradeTimes[i] = trades[i + Forgotten].at
    /\ \A i \in 1..Forgotten : trades[i].at < now - DaySpan

\* The trades less than a span old at a time.
Recent(t, span) == {i \in 1..Len(trades) : t - trades[i].at < span}

\* There is room in the hour and in the day for one trade at t.
RoomFor(t) == /\ Cardinality(Recent(t, HourSpan)) < MaxPerHour
              /\ Cardinality(Recent(t, DaySpan)) < MaxPerDay

RateInv == /\ LimiterRemembers /\ RateLimitsHold
           /\ stage # "idle" => RoomFor(att.start)

\* A set of positive numbers that holds all below each of its members holds
\* all up to its size.
LEMMA InitialSegment ==
    ASSUME NEW n \in Nat, NEW S \in SUBSET (1..n),
           \A i \in S : \A j \in 1..i : j \in S
    PROVE  /\ IsFiniteSet(S) /\ Cardinality(S) \in 0..n
           /\ \A i \in 1..Cardinality(S) : i \in S
<1>1. IsFiniteSet(1..n) /\ Cardinality(1..n) = n
  BY FS_Interval
<1>2. IsFiniteSet(S) /\ Cardinality(S) <= n
  BY <1>1, FS_Subset
<1>3. Cardinality(S) \in Nat
  BY <1>2, FS_CardinalityType
<1>4. ASSUME NEW i \in 1..Cardinality(S), i \notin S PROVE FALSE
  <2>1. S \subseteq 1..(i - 1)
    BY <1>4
  <2>2. IsFiniteSet(1..(i - 1)) /\ Cardinality(1..(i - 1)) = (i - 1) - 1 + 1
    BY <1>3, IntervalSize
  <2>3. Cardinality(S) <= Cardinality(1..(i - 1))
    BY <2>1, <2>2, FS_Subset
  <2>4. Cardinality(1..(i - 1)) \in Nat
    BY <2>2, FS_CardinalityType
  <2> QED
    BY <1>3, <2>2, <2>3, <2>4
<1> QED
  BY <1>2, <1>3, <1>4

\* Numbers moved down into a set are no more than it has members.
LEMMA ShiftedDown ==
    ASSUME NEW A \in SUBSET Int, NEW B, NEW k \in Int, IsFiniteSet(B),
           \A i \in A : i - k \in B
    PROVE  IsFiniteSet(A) /\ Cardinality(A) <= Cardinality(B)
<1> DEFINE f == [i \in A |-> i - k]
<1>1. f \in [A -> B]
  OBVIOUS
<1>2. \A i, j \in A : f[i] = f[j] => i = j
  OBVIOUS
<1>3. f \in Injection(A, B)
  BY <1>1, <1>2 DEF Injection, IsInjective
<1> QED
  BY <1>3, FS_Injection

\* The length and the elements of what follows the first c elements.
LEMMA Suffix ==
    ASSUME NEW q \in Seq(Nat), NEW c \in 0..Len(q)
    PROVE  /\ Len(SubSeq(q, c + 1, Len(q))) = Len(q) - c
           /\ \A i \in 1..(Len(q) - c) : SubSeq(q, c + 1, Len(q))[i] = q[i + c]
<1>1. Len(q) \in Nat /\ c + 1 \in Nat
  OBVIOUS
<1>2. \A i \in (c + 1)..Len(q) : q[i] \in Nat
  OBVIOUS
<1> QED
  BY <1>1, <1>2

\* What the limiter drops is the front of its list, and is a day old.
LEMMA PrunedFront ==
    ASSUME NEW times \in Seq(Nat), NEW t \in Nat
    PROVE  \E c \in 0..Len(times) :
             /\ Len(Pruned(times, t)) = Len(times) - c
             /\ \A i \in 1..(Len(times) - c) : Pruned(times, t)[i] = times[i + c]
             /\ \A i \in 1..c : times[i] < t - DaySpan
             /\ IsFiniteSet(Within(times, t, DaySpan))
             /\ Cardinality(Within(times, t, DaySpan)) <= Len(times) - c
<1> DEFINE n == Len(times)
           stale == {i \in DOMAIN times : \A j \in 1..i : times[j] < t - DaySpan}
           c == Cardinality(stale)
           W == Within(times, t, DaySpan)
<1>1. DOMAIN times = 1..n /\ n \in Nat /\ DaySpan \in Nat
      /\ \A i \in 1..n : times[i] \in Nat
  BY GatesAssumption
<1>2. stale \in SUBSET (1..n) /\ \A i \in stale : \A j \in 1..i : j \in stale
  BY <1>1
<1>3. Pruned(times, t) = SubSeq(times, c + 1, n)
  BY DEF Pruned
<1>4. \A i \in stale : times[i] < t - DaySpan
  BY <1>1
<1>5. W \in SUBSET ((1..n) \ stale)
  BY <1>1, <1>4 DEF Within
<1> HIDE DEF stale, W
<1>6. c \in 0..n /\ IsFiniteSet(stale) /\ \A i \in 1..c : i \in stale
  BY <1>1, <1>2, InitialSegment
<1>7. W \in SUBSET ((c + 1)..n)
  BY <1>1, <1>5, <1>6
<1> HIDE DEF c
<1>8. IsFiniteSet((c + 1)..n) /\ Cardinality((c + 1)..n) = n - (c + 1) + 1
  BY <1>1, <1>6, IntervalSize
<1>9. IsFiniteSet(W) /\ Cardinality(W) <= n - c
  <2>1. IsFiniteSet(W) /\ Cardinality(W) <= Cardinality((c + 1)..n)
    BY <1>7, <1>8, FS_Subset
  <2> QED
    BY <1>1, <1>6, <1>8, <2>1
<1> HIDE DEF n
<1>10. /\ Len(SubSeq(times, c + 1, n)) = n - c
       /\ \A i \in 1..(n - c) : SubSeq(times, c + 1, n)[i] = times[i + c]
  BY <1>6, Suffix DEF n
<1>11. c \in 0..Len(times)
  BY <1>6 DEF n
<1> QED
  BY <1>3, <1>4, <1>6, <1>9, <1>10, <1>11 DEF W, n

\* It holds initially, when nothing was recorded.
LEMMA InitRateInv == Init => RateInv
<1> SUFFICES ASSUME Init PROVE RateInv
  OBVIOUS
<1>1. trades = << >> /\ tradeTimes = << >> /\ stage = "idle"
  BY DEF Init
<1> QED
  BY <1>1 DEF RateInv, LimiterRemembers, Forgotten, RateLimitsHold

\* What the types say of the times.
LEMMA Times ==
    ASSUME TypeInv
    PROVE  /\ now \in Nat /\ tradeTimes \in Seq(Nat)
           /\ Len(trades) \in Nat /\ Len(tradeTimes) \in Nat
           /\ \A i \in 1..Len(trades) : trades[i].at \in Nat
           /\ \A i \in 1..Len(tradeTimes) : tradeTimes[i] \in Nat
           /\ HourSpan \in Nat /\ DaySpan \in Nat /\ HourSpan <= DaySpan
           /\ MaxPerHour \in Nat /\ MaxPerDay \in Nat
           /\ stage # "idle" => att.start \in Nat
<1>1. /\ trades \in Seq([symbol : Symbols, at : Nat]) /\ tradeTimes \in Seq(Nat)
      /\ now \in Nat
  BY DEF TypeInv, TypeOK
<1>2. \A i \in 1..Len(trades) : trades[i] \in [symbol : Symbols, at : Nat]
  <2>1. \A S : \A q \in Seq(S) : \A k \in 1..Len(q) : q[k] \in S
    OBVIOUS
  <2> QED
    BY <1>1, <2>1, Zenon
<1>3. stage # "idle" => att.start \in Nat
  BY DEF TypeInv, TypeOK, Attempts
<1> QED
  BY <1>1, <1>2, <1>3, GatesAssumption

\* A trade recorded less than a span ago is one the limiter still counts.
LEMMA RecentCounted ==
    ASSUME TypeInv, LimiterRemembers, NEW span \in Nat, span <= DaySpan
    PROVE  /\ IsFiniteSet(Within(tradeTimes, now, span))
           /\ IsFiniteSet(Recent(now, span))
           /\ Cardinality(Recent(now, span))
                <= Cardinality(Within(tradeTimes, now, span))
<1> DEFINE A == Recent(now, span)
           B == Within(tradeTimes, now, span)
<1>1. Forgotten \in Nat /\ Len(trades) = Forgotten + Len(tradeTimes)
  BY Times DEF LimiterRemembers, Forgotten
<1>2. B \in SUBSET (1..Len(tradeTimes)) /\ IsFiniteSet(1..Len(tradeTimes))
  <2>1. tradeTimes \in Seq(Nat) /\ Len(tradeTimes) \in Nat
    BY Times
  <2>2. DOMAIN tradeTimes = 1..Len(tradeTimes)
    BY <2>1
  <2> QED
    BY <2>1, <2>2, FS_Interval DEF Within
<1>3. IsFiniteSet(B)
  BY <1>2, FS_Subset
<1>4. A \in SUBSET Int
  BY DEF Recent
<1>5. ASSUME NEW i \in A PROVE i - Forgotten \in B
  <2>1. i \in 1..Len(trades) /\ now - trades[i].at < span
    BY DEF Recent
  <2>2. ~(i \in 1..Forgotten)
    BY <2>1, Times DEF LimiterRemembers
  <2>3. i - Forgotten \in 1..Len(tradeTimes)
    BY <1>1, <2>1, <2>2, Times
  <2>4. tradeTimes[i - Forgotten] = trades[(i - Forgotten) + Forgotten].at
    BY <2>3 DEF LimiterRemembers
  <2>5. (i - Forgotten) + Forgotten = i
    BY <1>1, <2>1
  <2> QED
    BY <2>1, <2>3, <2>4, <2>5, Times DEF Within
<1> HIDE DEF A, B
<1>6. IsFiniteSet(A) /\ Cardinality(A) <= Cardinality(B)
  BY <1>1, <1>3, <1>4, <1>5, ShiftedDown
<1> QED
  BY <1>3, <1>6 DEF A, B

\* A candidate the limiter clears finds room.
LEMMA ClearedHasRoom ==
    ASSUME TypeInv, LimiterRemembers, WithinLimits(tradeTimes, now)
    PROVE  RoomFor(now)
<1> DEFINE A(span) == Recent(now, span)
           B(span) == Within(tradeTimes, now, span)
<1>1. HourSpan \in Nat /\ DaySpan \in Nat /\ HourSpan <= DaySpan /\ DaySpan <= DaySpan
      /\ MaxPerHour \in Nat /\ MaxPerDay \in Nat
  BY Times
<1>2. /\ IsFiniteSet(B(HourSpan)) /\ IsFiniteSet(A(HourSpan))
      /\ Cardinality(A(HourSpan)) <= Cardinality(B(HourSpan))
  BY <1>1, RecentCounted
<1>3. /\ IsFiniteSet(B(DaySpan)) /\ IsFiniteSet(A(DaySpan))
      /\ Cardinality(A(DaySpan)) <= Cardinality(B(DaySpan))
  BY <1>1, RecentCounted
<1>4. Cardinality(B(DaySpan)) <= Len(Pruned(tradeTimes, now))
      /\ Len(Pruned(tradeTimes, now)) \in Nat
  <2>1. tradeTimes \in Seq(Nat) /\ now \in Nat /\ Len(tradeTimes) \in Nat
    BY Times
  <2>2. PICK c \in 0..Len(tradeTimes) :
          /\ Len(Pruned(tradeTimes, now)) = Len(tradeTimes) - c
          /\ Cardinality(Within(tradeTimes, now, DaySpan)) <= Len(tradeTimes) - c
    BY <2>1, PrunedFront
  <2> QED
    BY <2>1, <2>2
<1>5. Cardinality(B(HourSpan)) < MaxPerHour
      /\ Len(Pruned(tradeTimes, now)) < MaxPerDay
  BY DEF WithinLimits
<1> HIDE DEF A, B
<1>6. /\ Cardinality(A(HourSpan)) \in Nat /\ Cardinality(B(HourSpan)) \in Nat
      /\ Cardinality(A(DaySpan)) \in Nat /\ Cardinality(B(DaySpan)) \in Nat
  BY <1>2, <1>3, FS_CardinalityType
<1>7. Cardinality(A(HourSpan)) < MaxPerHour
  BY <1>1, <1>2, <1>5, <1>6
<1>8. Cardinality(A(DaySpan)) < MaxPerDay
  BY <1>1, <1>3, <1>4, <1>5, <1>6
<1> QED
  BY <1>7, <1>8 DEF RoomFor, A

\* Asking the limiter makes it forget only what is a day old.
LEMMA PruningRemembers ==
    ASSUME TypeInv, LimiterRemembers, UNCHANGED <<now, trades>>,
           tradeTimes' = Pruned(tradeTimes, now)
    PROVE  LimiterRemembers'
<1> DEFINE k == Forgotten
           m == Len(tradeTimes)
<1>1. PICK c \in 0..m :
        /\ Len(tradeTimes') = m - c
        /\ \A i \in 1..(m - c) : tradeTimes'[i] = tradeTimes[i + c]
        /\ \A i \in 1..c : tradeTimes[i] < now - DaySpan
  BY Times, PrunedFront
<1>2. k \in Nat /\ m \in Nat /\ Len(trades) = k + m
  BY Times DEF LimiterRemembers, Forgotten
<1>3. Forgotten' = k + c
  BY <1>1, <1>2 DEF Forgotten
<1>4. ASSUME NEW i \in 1..(m - c)
      PROVE  tradeTimes'[i] = trades[i + (k + c)].at
  <2>1. i + c \in 1..m /\ i + (k + c) = (i + c) + k
    BY <1>1, <1>2
  <2>2. tradeTimes[i + c] = trades[(i + c) + k].at
    BY <2>1 DEF LimiterRemembers
  <2> QED
    BY <1>1, <2>1, <2>2
<1>5. ASSUME NEW i \in 1..(k + c) PROVE trades[i].at < now - DaySpan
  <2>1. CASE i \in 1..k
    BY <2>1 DEF LimiterRemembers
  <2>2. CASE i \notin 1..k
    <3>1. i - k \in 1..c /\ i - k \in 1..m /\ (i - k) + k = i
      BY <1>1, <1>2, <2>2
    <3>2. tradeTimes[i - k] = trades[(i - k) + k].at
      BY <3>1 DEF LimiterRemembers
    <3> QED
      BY <1>1, <3>1, <3>2
  <2> QED
    BY <2>1, <2>2
<1>6. (k + c) \in Nat /\ trades' = trades /\ now' = now
  BY <1>1, <1>2
<1> QED
  BY <1>1, <1>3, <1>4, <1>5, <1>6 DEF LimiterRemembers

\* A trade that finds room is recorded within the limits, and remembered.
LEMMA TrackingKeepsRates ==
    ASSUME TypeInv, RateInv, Tracks, now' \in Nat, now' >= now
    PROVE  LimiterRemembers' /\ RateLimitsHold'
<1> DEFINE k == Forgotten
           m == Len(tradeTimes)
           n == Len(trades)
           t == att.start
<1>1. /\ k \in Nat /\ m \in Nat /\ n \in Nat /\ n = k + m /\ t \in Nat
      /\ \A i \in 1..n : trades[i].at \in Nat
  BY Times DEF RateInv, LimiterRemembers, Forgotten, Tracks
<1>2. /\ Len(trades') = n + 1 /\ trades'[n + 1].at = t
      /\ DOMAIN trades' = 1..(n + 1) /\ DOMAIN trades = 1..n
      /\ \A i \in 1..n : trades'[i] = trades[i]
  <2>1. trades \in Seq([symbol : Symbols, at : Nat])
    BY DEF TypeInv, TypeOK
  <2>2. trades' = Append(trades, [symbol |-> att.symbol, at |-> att.start])
    BY DEF Tracks
  <2>3. trades'[n + 1] = [symbol |-> att.symbol, at |-> att.start]
        /\ Len(trades') = n + 1 /\ \A i \in 1..n : trades'[i] = trades[i]
    BY <2>1, <2>2
  <2>4. DOMAIN trades' = 1..(n + 1) /\ DOMAIN trades = 1..n
    BY <2>1, <2>2
  <2> QED
    BY <2>3, <2>4
<1>3. /\ Len(tradeTimes') = m + 1 /\ tradeTimes'[m + 1] = t
      /\ \A i \in 1..m : tradeTimes'[i] = tradeTimes[i]
  BY <1>1, Times DEF Tracks
<1>4. LimiterRemembers'
  <2>1. Forgotten' = k
    BY <1>1, <1>2, <1>3 DEF Forgotten
  <2>2. ASSUME NEW i \in 1..(m + 1) PROVE tradeTimes'[i] = trades'[i + k].at
    <3>1. CASE i = m + 1
      BY <1>1, <1>2, <1>3, <3>1
    <3>2. CASE i \in 1..m
      <4>1. i + k \in 1..n /\ tradeTimes[i] = trades[i + k].at
        BY <1>1, <3>2 DEF RateInv, LimiterRemembers
      <4> QED
        BY <1>2, <1>3, <3>2, <4>1
    <3> QED
      BY <1>1, <3>1, <3>2
  <2>3. ASSUME NEW i \in 1..k PROVE trades'[i].at < now' - DaySpan
    <3>1. i \in 1..n /\ trades[i].at < now - DaySpan /\ trades[i].at \in Nat
      BY <1>1 DEF RateInv, LimiterRemembers
    <3> QED
      BY <1>2, <3>1, Times
  <2> QED
    BY <1>1, <1>3, <2>1, <2>2, <2>3 DEF LimiterRemembers
<1>5. ASSUME NEW span \in Nat, NEW max \in Nat, Cardinality(Recent(t, span)) < max,
             NEW j \in 1..(n + 1),
             j <= n => Cardinality({i \in 1..j : trades[j].at - trades[i].at < span})
                         <= max
      PROVE  Cardinality({i \in 1..j : trades'[j].at - trades'[i].at < span}) <= max
  <2> DEFINE S == {i \in 1..j : trades'[j].at - trades'[i].at < span}
  <2>1. CASE j <= n
    <3>1. S = {i \in 1..j : trades[j].at - trades[i].at < span}
      BY <1>1, <1>2, <2>1
    <3> QED
      BY <1>5, <2>1, <3>1
  <2>2. CASE j = n + 1
    <3> DEFINE R == Recent(t, span)
    <3>1. S \in SUBSET (R \cup {n + 1})
      BY <1>1, <1>2, <2>2 DEF Recent
    <3>2. R \in SUBSET (1..n) /\ IsFiniteSet(1..n)
      BY <1>1, FS_Interval DEF Recent
    <3> HIDE DEF R, S
    <3>3. IsFiniteSet(R)
      BY <3>2, FS_Subset
    <3>4. n + 1 \notin R
      BY <1>1, <3>2
    <3>5. IsFiniteSet(R \cup {n + 1}) /\ Cardinality(R \cup {n + 1}) = Cardinality(R) + 1
      BY <3>3, <3>4, FS_AddElement
    <3>6. IsFiniteSet(S) /\ Cardinality(S) <= Cardinality(R \cup {n + 1})
      BY <3>1, <3>5, FS_Subset
    <3>7. Cardinality(S) \in Nat /\ Cardinality(R) \in Nat
      BY <3>3, <3>6, FS_CardinalityType
    <3>8. Cardinality(R) < max
      BY <1>5 DEF R
    <3>9. Cardinality(S) <= max
      BY <1>5, <3>5, <3>6, <3>7, <3>8
    <3> QED
      BY <3>9 DEF S
  <2> QED
    BY <1>1, <2>1, <2>2
<1>6. Cardinality(Recent(t, HourSpan)) < MaxPerHour
      /\ Cardinality(Recent(t, DaySpan)) < MaxPerDay
  BY DEF RateInv, RoomFor, Tracks
<1>7. \A j \in 1..n :
        /\ Cardinality({i \in 1..j : trades[j].at - trades[i].at < HourSpan})
             <= MaxPerHour
        /\ Cardinality({i \in 1..j : trades[j].at - trades[i].at < DaySpan})
             <= MaxPerDay
  BY <1>2 DEF RateInv, RateLimitsHold
<1>8. RateLimitsHold'
  <2> SUFFICES ASSUME NEW j \in 1..(n + 1)
               PROVE  /\ Cardinality({i \in 1..j : trades'[j].at - trades'[i].at
                                                     < HourSpan}) <= MaxPerHour
                      /\ Cardinality({i \in 1..j : trades'[j].at - trades'[i].at
                                                     < DaySpan}) <= MaxPerDay
    BY <1>2 DEF RateLimitsHold
  <2>1. j <= n => j \in 1..n
    BY <1>1
  <2>2. /\ HourSpan \in Nat /\ DaySpan \in Nat
        /\ MaxPerHour \in Nat /\ MaxPerDay \in Nat
    BY Times
  <2> HIDE DEF t, n
  <2> QED
    BY <1>5, <1>6, <1>7, <2>1, <2>2
<1> QED
  BY <1>4, <1>8

\* Every step keeps it.
LEMMA NextRateInv ==
    ASSUME TypeInv, RateInv, [Next]_omVars
    PROVE  RateInv'
<1>1. now \in Nat /\ now' \in Nat /\ now' >= now
  BY Times, TrackSteps
<1>2. CASE Asks
  <2>1. LimiterRemembers'
    <3>1. CASE tradeTimes' = tradeTimes
      BY <1>2, <3>1 DEF Asks, RateInv, LimiterRemembers, Forgotten
    <3>2. CASE tradeTimes' = Pruned(tradeTimes, now)
      BY <1>2, <3>2, PruningRemembers DEF Asks, RateInv
    <3> QED
      BY <1>2, <3>1, <3>2 DEF Asks
  <2>2. ASSUME stage' # "idle" PROVE RoomFor(att.start)'
    <3>1. att'.start = now /\ WithinLimits(tradeTimes, now) /\ trades' = trades
      BY <1>2, <2>2 DEF Asks, Clears
    <3>2. RoomFor(now)
      BY <3>1, ClearedHasRoom DEF RateInv
    <3> QED
      BY <3>1, <3>2 DEF RoomFor, Recent
  <2> QED
    BY <1>2, <2>1, <2>2 DEF Asks, RateInv, RateLimitsHold
<1>3. CASE Passes
  <2>1. UNCHANGED <<trades, tradeTimes>>
    BY <1>3 DEF Passes
  <2>2. LimiterRemembers'
    <3>1. Forgotten' = Forgotten /\ Forgotten \in Nat
      BY <2>1 DEF Forgotten, RateInv, LimiterRemembers
    <3>2. ASSUME NEW i \in 1..Forgotten PROVE trades'[i].at < now' - DaySpan
      <4>1. i \in 1..Len(trades)
        BY <3>1, Times DEF Forgotten
      <4>2. trades[i].at < now - DaySpan
        BY DEF RateInv, LimiterRemembers
      <4> QED
        BY <1>1, <2>1, <4>1, <4>2, Times
    <3> QED
      BY <2>1, <3>1, <3>2 DEF RateInv, LimiterRemembers
  <2>3. ASSUME stage' # "idle" PROVE RoomFor(att.start)'
    BY <1>3, <2>1, <2>3 DEF Passes, RateInv, RoomFor, Recent
  <2> QED
    BY <2>1, <2>2, <2>3 DEF RateInv, RateLimitsHold
<1>4. CASE Tracks
  BY <1>1, <1>4, TrackingKeepsRates DEF RateInv, Tracks
<1> QED
  BY <1>2, <1>3, <1>4, TrackSteps

\* No hour and no day, wherever they begin, hold more recorded trades than the
\* limiter allows, although it forgets, and although it is asked two awaits
\* before the trade it is asked for is recorded.
THEOREM RatesKept == Spec => []RateLimitsHold
<1> DEFINE Inv == OrderInv /\ RateInv
<1>1. Init => Inv
  BY InitOrderInv, InitRateInv
<1>2. Inv /\ [Next]_omVars => Inv'
  BY NextOrderInv, NextRateInv DEF OrderInv
<1>3. Inv => RateLimitsHold
  BY DEF RateInv
<1> QED
  BY <1>1, <1>2, <1>3, PTL DEF Spec
=============================================================================
