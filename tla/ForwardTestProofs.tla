------------------------- MODULE ForwardTestProofs --------------------------
(***************************************************************************)
(* Proofs about the forward test, for any limits, delays, backoff, number  *)
(* of ticks and number of crashes.                                         *)
(*                                                                         *)
(* Some thirty actions are first reduced to a dozen kinds of step          *)
(* (LoopSteps), and the two that contain an attempt to what they do to     *)
(* signals, requests and outcome (EvaluateSteps, AwaitSteps); each         *)
(* invariant is then shown of these.                                       *)
(***************************************************************************)
EXTENDS ForwardTest, OrderManagerProofs

-----------------------------------------------------------------------------
(* Time and dates.                                                         *)

\* Dates are numbers, and do not run backwards.
LEMMA DatesAscend ==
    ASSUME NEW s \in Nat, NEW t \in Nat, s <= t
    PROVE  Date(s) \in Nat /\ Date(t) \in Nat /\ Date(s) <= Date(t)
<1>1. DaySpan \in Nat /\ DaySpan > 0
  BY GatesAssumption, LoopAssumption
<1> QED
  BY <1>1 DEF Date

-----------------------------------------------------------------------------
(* What the place of the coroutine tells of the rest.                      *)

Starting == StartPlaces \cup {"down", "restore"}

PlaceInv ==
    /\ stage # "idle" <=> loop = "attempt"
    /\ loop \in {"placed", "polling"} => outcome.status = "TRADE"
    /\ outcome.status = "TRADE" => loop \in {"placed", "polling", "fatal"}
    /\ loop \in Starting => gov = NewGovernor /\ session = NewSession
    /\ loop \in {"fetch", "evaluate"} => tickCount # 0

LoopInv == /\ LoopTypeOK /\ TradeAwaitsSettlement /\ PlaceInv
           /\ now <= MaxTime /\ tradeDate <= Date(now)

-----------------------------------------------------------------------------
(* The kinds of step.                                                      *)

\* From one place to another without an attempt or a booking.
Arc ==
    \/ loop' = "fatal"
    \/ loop \in Starting /\ loop' \in Starting
    \/ loop \in {"top", "sleep", "fetch", "alerts"} /\ loop' \in {"top", "sleep"}
    \/ loop = "fetch" /\ loop' = "evaluate"
    \/ loop \in {"placed", "polling"} /\ loop' = "polling"

Quiet ==
    /\ Arc /\ loop # "attempt"
    /\ now' \in now..MaxTime
    /\ backoff' \in FirstBackoff..MaxBackoff /\ tickCount' \in tickCount..MaxTicks
    /\ polls' \in 0..MaxPolls /\ candle' \in 0..MaxTime /\ warm' \in BOOLEAN
    /\ UNCHANGED <<gov, guards, stage, att, outcome, broker, trades>>
    /\ UNCHANGED <<running, tradeDate, session, profit, daily, log, history>>

\* A step that only moves is quiet when it moves along an arc.
LEMMA MovesAreQuiet ==
    ASSUME LoopInv, NEW from, NEW to, Moves(from, to), Arc, from # "attempt",
           polls' \in {polls, 0}
    PROVE  Quiet
<1>1. /\ backoff \in FirstBackoff..MaxBackoff /\ tickCount \in 0..MaxTicks
      /\ candle \in 0..MaxTime /\ warm \in BOOLEAN /\ now \in 0..MaxTime
      /\ polls \in 0..MaxPolls /\ MaxPolls \in Nat
  BY OrderAssumption, LoopAssumption DEF LoopInv, LoopTypeOK, TypeOK
<1>2. /\ now' \in now..MaxTime /\ polls' \in 0..MaxPolls
  BY <1>1 DEF Moves, omVars
<1> QED
  BY <1>1, <1>2 DEF Moves, Quiet, omVars, guards, broker, database

\* So is one that lets time pass, within the time the model looks at.
LEMMA WaitsAreQuiet ==
    ASSUME LoopInv, NEW from, NEW to, NEW d \in Nat, Waits(from, to, d), Arc,
           from # "attempt", now' <= MaxTime,
           backoff' \in FirstBackoff..MaxBackoff,
           candle' \in {candle, now}, warm' \in BOOLEAN
    PROVE  Quiet
<1>1. /\ tickCount \in 0..MaxTicks /\ candle \in 0..MaxTime
      /\ polls \in 0..MaxPolls /\ now \in 0..MaxTime
  BY OrderAssumption DEF LoopInv, LoopTypeOK, TypeOK
<1>2. now' = now + d /\ loop = from
  BY DEF Waits, TimePasses
<1>3. now' \in now..MaxTime /\ candle' \in 0..MaxTime
  BY <1>1, <1>2, OrderAssumption
<1> QED
  BY <1>1, <1>2, <1>3 DEF Waits, Quiet, guards, broker, history

\* Every step that takes time, but for the answers to an attempt.
LEMMA TimedSteps ==
    ASSUME LoopInv, NEW d \in Delays, InTime(d), Timed(d)
    PROVE  Quiet \/ Await(d)
<1>1. d \in Nat /\ now + d <= MaxTime
  BY OrderAssumption DEF InTime
<1>2. backoff \in FirstBackoff..MaxBackoff /\ warm \in BOOLEAN
  BY DEF LoopInv, LoopTypeOK
<1>3. ASSUME HistoryFetched(d) PROVE Quiet
  <2>1. Waits("history", "account", d) /\ Arc
    BY <1>3 DEF HistoryFetched, Waits, Goes, Arc, Starting, StartPlaces
  <2> QED
    BY <1>1, <1>2, <1>3, <2>1, WaitsAreQuiet
       DEF HistoryFetched, Waits, TimePasses
<1>4. ASSUME AccountResolved(d) PROVE Quiet
  <2>1. PICK to \in {"restore", "announce"} : Waits("account", to, d)
    BY <1>4 DEF AccountResolved
  <2>2. Arc /\ now' <= MaxTime
    BY <1>1, <2>1 DEF Waits, Goes, Arc, Starting, StartPlaces, TimePasses
  <2> QED
    BY <1>1, <1>2, <1>4, <2>1, <2>2, WaitsAreQuiet DEF AccountResolved
<1>5. ASSUME NEW next \in {"waiting", "fatal"}, StartFails(d, next) PROVE Quiet
  <2>1. loop \in StartPlaces /\ Waits(loop, next, d)
    BY <1>5 DEF StartFails
  <2>2. Arc /\ now' <= MaxTime /\ loop # "attempt"
    BY <1>1, <2>1 DEF Waits, Goes, Arc, Starting, StartPlaces, TimePasses
  <2> QED
    BY <1>1, <1>2, <1>5, <2>1, <2>2, WaitsAreQuiet DEF StartFails
<1>6. ASSUME FetchDone(d) PROVE Quiet
  <2>1. PICK to \in {"evaluate", "sleep"} : Waits("fetch", to, d)
    BY <1>6 DEF FetchDone
  <2>2. Arc /\ now' <= MaxTime
    BY <1>1, <2>1 DEF Waits, Goes, Arc, TimePasses
  <2> QED
    BY <1>1, <1>2, <1>6, <2>1, <2>2, WaitsAreQuiet DEF FetchDone
<1>7. ASSUME FetchRaises(d) PROVE Quiet
  <2>1. Waits("fetch", "fatal", d)
    BY <1>7 DEF FetchRaises
  <2>2. Arc /\ now' <= MaxTime
    BY <1>1, <2>1 DEF Waits, Goes, Arc, TimePasses
  <2> QED
    BY <1>1, <1>2, <1>7, <2>1, <2>2, WaitsAreQuiet DEF FetchRaises
<1>8. ASSUME PollOpen(d) PROVE Quiet
  <2>1. /\ now \in 0..MaxTime /\ now' = now + d
        /\ loop = "polling" /\ loop' = "polling"
    BY <1>8, OrderAssumption
       DEF PollOpen, KeepsPolling, TimePasses, LoopInv, LoopTypeOK, TypeOK
  <2>2. /\ polls' \in 0..MaxPolls /\ tickCount \in 0..MaxTicks
        /\ candle \in 0..MaxTime
    BY <1>8, LoopAssumption DEF PollOpen, LoopInv, LoopTypeOK
  <2>3. now' \in now..MaxTime
    BY <1>1, <2>1, OrderAssumption
  <2> QED
    BY <1>2, <1>8, <2>1, <2>2, <2>3
       DEF PollOpen, KeepsPolling, Quiet, Arc, guards, broker, database, history
<1> QED
  BY <1>3, <1>4, <1>5, <1>6, <1>7, <1>8 DEF Timed

\* The steps between two sleeps.
LEMMA TickSteps ==
    ASSUME LoopInv, TickStep
    PROVE  \/ Quiet
           \/ \E d \in Delays : InTime(d) /\ Await(d)
           \/ Restore \/ Evaluate \/ PollUnclear \/ SaveDailyState
           \/ \E pl \in {-att.stake, att.gain} : PollSold(pl)
           \/ \E next \in {"finish", "fatal"} : LogTrade(next)
<1>1. ASSUME NEW d \in Delays, InTime(d), Timed(d)
      PROVE  Quiet \/ (InTime(d) /\ Await(d))
  BY <1>1, TimedSteps
<1>2. ASSUME \/ SchemaApplied \/ Announced \/ RestoreRaises
             \/ PlacedAlerted \/ PlacedRaises \/ PollTimesOut \/ PollRaises
             \/ LogRaises \/ SaveRaises \/ AlertsSent \/ AlertsRaise
      PROVE  Quiet
  <2>1. PICK from \in Places \ {"attempt"}, to \in Places :
           Moves(from, to) /\ Arc /\ polls' \in {polls, 0}
    <3>1. CASE SchemaApplied
      BY <3>1 DEF SchemaApplied, Moves, Goes, Arc, Starting, StartPlaces, Places
    <3>2. CASE Announced
      BY <3>2 DEF Announced, Moves, Goes, Arc, Starting, StartPlaces, Places
    <3>3. CASE PlacedAlerted
      BY <3>3 DEF PlacedAlerted, Moves, Goes, Arc, Places
    <3>4. CASE AlertsSent
      BY <3>4 DEF AlertsSent, Moves, Goes, Arc, Places
    <3>5. ASSUME NEW from \in {"restore", "placed", "polling", "log", "finish", "alerts"},
                 Moves(from, "fatal"), UNCHANGED polls
          PROVE  from \in Places \ {"attempt"} /\ "fatal" \in Places /\ Arc
      BY <3>5 DEF Moves, Goes, Arc, Places
    <3>6. CASE RestoreRaises
      BY <3>5, <3>6 DEF RestoreRaises
    <3>7. CASE PlacedRaises
      BY <3>5, <3>7 DEF PlacedRaises
    <3>8. CASE PollTimesOut \/ PollRaises
      BY <3>5, <3>8 DEF PollTimesOut, PollRaises
    <3>9. CASE LogRaises
      BY <3>5, <3>9 DEF LogRaises
    <3>10. CASE SaveRaises
      BY <3>5, <3>10 DEF SaveRaises
    <3>11. CASE AlertsRaise
      BY <3>5, <3>11 DEF AlertsRaise
    <3> QED
      BY <1>2, <3>1, <3>2, <3>3, <3>4, <3>6, <3>7, <3>8, <3>9, <3>10, <3>11
  <2> QED
    BY <2>1, MovesAreQuiet
<1> QED
  BY <1>1, <1>2 DEF TickStep

\* All steps of the process, the operator and the broker.
LEMMA LoopSteps ==
    ASSUME LoopInv, [LoopNext]_vars
    PROVE  \/ Quiet
           \/ Restore \/ BeginTick \/ Evaluate
           \/ \E d \in Delays : InTime(d) /\ Await(d)
           \/ \E pl \in {-att.stake, att.gain} : PollSold(pl)
           \/ PollUnclear
           \/ \E next \in {"finish", "fatal"} : LogTrade(next)
           \/ SaveDailyState \/ Crash
           \/ \E on \in BOOLEAN : SetRunning(on)
           \/ BrokerActs
           \/ UNCHANGED vars
<1>1. /\ backoff \in FirstBackoff..MaxBackoff /\ warm \in BOOLEAN
      /\ tickCount \in 0..MaxTicks /\ candle \in 0..MaxTime /\ now \in 0..MaxTime
      /\ polls \in 0..MaxPolls /\ MaxTicks \in Nat
      /\ FirstBackoff \in Nat \ {0} /\ MaxBackoff \in Nat /\ PollInterval \in Nat
      /\ FirstBackoff < MaxBackoff
  BY OrderAssumption, LoopAssumption DEF LoopInv, LoopTypeOK, TypeOK
<1>2. ASSUME BotStarts PROVE Quiet
  <2>1. Moves("down", "schema") /\ Arc /\ polls' = polls
    BY <1>2 DEF BotStarts, Moves, Goes, Arc, Starting, StartPlaces
  <2> QED
    BY <2>1, MovesAreQuiet
<1>3. ASSUME StartsAgain PROVE Quiet
  <2>1. Waits("waiting", "schema", backoff) /\ Arc
    BY <1>3 DEF StartsAgain, Waits, Goes, Arc, Starting, StartPlaces
  <2>2. backoff' \in FirstBackoff..MaxBackoff
    BY <1>1, <1>3 DEF StartsAgain, Smaller
  <2> QED
    BY <1>1, <1>3, <2>1, <2>2, WaitsAreQuiet DEF StartsAgain
<1>4. ASSUME Wake PROVE Quiet
  <2>1. Waits("sleep", "top", PollInterval) /\ Arc
    BY <1>4 DEF Wake, Waits, Goes, Arc
  <2> QED
    BY <1>1, <1>4, <2>1, WaitsAreQuiet DEF Wake
<1>5. ASSUME PausedTick PROVE Quiet
  <2>1. loop = "top" /\ loop' = "sleep" /\ now' = now /\ tickCount' \in 0..MaxTicks
    BY <1>1, <1>5 DEF PausedTick, Goes, omVars
  <2>2. now' \in now..MaxTime /\ Arc
    BY <1>1, <2>1, OrderAssumption DEF Arc
  <2> QED
    BY <1>1, <1>5, <2>1, <2>2
       DEF PausedTick, Quiet, omVars, guards, broker, database
<1> QED
  BY <1>2, <1>3, <1>4, <1>5, TickSteps DEF LoopNext

-----------------------------------------------------------------------------
(* The two kinds of step that contain an attempt.                          *)

\* An evaluation either leaves an attempt waiting for its proposal, which the
\* governor permits, or ends at once.
LEMMA EvaluateSteps ==
    ASSUME LoopInv, Evaluate
    PROVE  /\ loop = "evaluate" /\ stage = "idle"
           /\ UNCHANGED <<now, gov, traded, lastTrade, held, broker, trades>>
           /\ UNCHANGED <<locals, database, history>>
           /\ TypeInv' /\ outcome'.status # "TRADE"
           /\ \/ /\ loop' = "attempt" /\ stage' = "proposal"
                 /\ CanTrade(gov)
                 /\ att'.stake = Stake(gov) /\ Stake(gov) > 0
              \/ loop' = "finish" /\ stage' = "idle"
<1>1. TypeInv /\ gov \in Governors /\ outcome.status # "TRADE"
  BY DEF LoopInv, LoopTypeOK, TypeInv, TypeOK, PlaceInv, Evaluate
<1>2. PICK y \in Symbols, dir \in Candidates, p \in Probabilities :
         AttemptTrade(SignalId, y, dir, p)
  BY DEF Evaluate
<1>3. SignalId \in Signals
  <2>1. /\ candle \in 0..MaxTime /\ tickCount \in 1..MaxTicks
        /\ Signals = (0..MaxTime) \X (1..MaxTicks)
    BY LoopAssumption DEF LoopInv, LoopTypeOK, PlaceInv, Evaluate
  <2> QED
    BY <2>1 DEF SignalId
<1>4. TypeInv'
  BY <1>1, <1>2, <1>3, AttemptKeepsType
<1>5. /\ stage = "idle" /\ loop = "evaluate"
      /\ UNCHANGED <<now, gov, traded, lastTrade, held, broker, trades>>
      /\ UNCHANGED <<locals, database, history>>
      /\ loop' = IF stage' = "proposal" THEN "attempt" ELSE "finish"
  BY <1>2 DEF AttemptTrade, Evaluate, Goes
<1>6. CASE Gate(SignalId, y, dir) = "PASS"
  <2>1. /\ stage' = "proposal" /\ Outcome("PENDING", "")
        /\ att' = [signal |-> SignalId, symbol |-> y, direction |-> dir,
                   prob |-> p, start |-> now, stake |-> Stake(gov), gain |-> 0,
                   order |-> 0]
    BY <1>2, <1>6 DEF AttemptTrade
  <2>2. att'.stake = Stake(gov) /\ outcome'.status = "PENDING"
    BY <2>1 DEF Outcome
  <2>3. CanTrade(gov) /\ Stake(gov) > 0
    BY <1>1, <1>6, GatePasses
  <2> QED
    BY <1>4, <1>5, <2>1, <2>2, <2>3
<1>7. CASE Gate(SignalId, y, dir) # "PASS"
  <2>1. PICK st \in {"ALREADY_HANDLED", "NO_TRADE"}, r \in Reasons \cup {"ALREADY_HANDLED"} :
           outcome' = [status |-> st, reason |-> r] /\ stage' = "idle"
    <3>1. Gate(SignalId, y, dir) \in Reasons \cup {"PASS", "ALREADY_HANDLED"}
      BY AnswersAreReasons
    <3>2. CASE Gate(SignalId, y, dir) = "ALREADY_HANDLED"
      BY <1>2, <1>5, <1>7, <3>2 DEF AttemptTrade, Outcome, Reasons
    <3>3. CASE Gate(SignalId, y, dir) # "ALREADY_HANDLED"
      BY <1>2, <1>5, <1>7, <3>1, <3>3 DEF AttemptTrade, Outcome
    <3> QED
      BY <3>2, <3>3
  <2>2. outcome'.status # "TRADE"
    BY <2>1
  <2> QED
    BY <1>4, <1>5, <2>1, <2>2
<1> QED
  BY <1>6, <1>7

\* The answer to a proposal sends the attempt's request or ends the attempt;
\* the answer to a request records the trade or raises.
Sends(gain) ==
    /\ stage = "proposal" /\ stage' = "buy" /\ loop' = "attempt" /\ gain > 0
    /\ att' = [att EXCEPT !.gain = gain, !.order = nextOrder]
    /\ wire' = wire \cup {[id |-> nextOrder, signal |-> att.signal]}
    /\ nextOrder' = nextOrder + 1 /\ filled' = filled /\ outcome' = outcome
    /\ sentStopped' = IF running THEN sentStopped ELSE sentStopped + 1

Returns ==
    /\ stage' = "idle"
    /\ \/ loop' = "fatal" /\ outcome'.status # "TRADE"
       \/ loop' = "finish" /\ stage = "proposal" /\ outcome'.status # "TRADE"
       \/ /\ loop' = "placed" /\ stage = "buy" /\ outcome'.status = "TRADE"
          /\ MyOrder \in filled /\ att' = att
    /\ UNCHANGED <<broker, sentStopped>>

\* An attempt resumed either returns or asks for the contract it was quoted.
LEMMA AwaitSteps ==
    ASSUME LoopInv, NEW d \in Delays, InTime(d), Await(d)
    PROVE  /\ loop = "attempt" /\ now' \in now..MaxTime
           /\ UNCHANGED <<gov, locals, database, dropped, crashes>>
           /\ TypeInv'
           /\ Returns \/ \E gain \in Gains : Sends(gain)
<1>1. /\ TypeInv /\ Suspended /\ loop = "attempt"
      /\ UNCHANGED <<locals, database, dropped, crashes>>
      /\ now \in Nat /\ nextOrder \in Nat /\ d \in Nat /\ now + d <= MaxTime
      /\ MaxTime \in Nat
  BY OrderAssumption
     DEF LoopInv, LoopTypeOK, TypeInv, TypeOK, PlaceInv, Suspended, Await, InTime
<1>2. /\ loop' = IF stage' # "idle" THEN "attempt"
                 ELSE IF outcome'.status = "TRADE" THEN "placed"
                 ELSE IF outcome'.status = "RAISED" THEN "fatal"
                 ELSE "finish"
      /\ sentStopped' = IF nextOrder' # nextOrder /\ ~running
                        THEN sentStopped + 1 ELSE sentStopped
  BY DEF Await, Goes
<1> DEFINE Result == /\ now' \in now..MaxTime /\ UNCHANGED gov /\ TypeInv'
                     /\ Returns \/ \E gain \in Gains : Sends(gain)
<1>3. ASSUME NEW st, NEW r \in Reasons, GivesUp(st, r), TimePasses(d),
             UNCHANGED <<gov, lastTrade, tradeTimes, held, broker, trades>>,
             traded' \subseteq Signals,
             st = "RAISED" \/ (st = "NO_TRADE" /\ stage = "proposal")
      PROVE  Result
  <2>1. st \in Statuses \ {"TRADE"}
    BY <1>3 DEF Statuses
  <2>2. TypeInv'
    BY <1>1, <1>3, <2>1, GivingUpKeepsType
  <2>3. stage' = "idle" /\ outcome'.status = st /\ now' \in now..MaxTime
    BY <1>1, <1>3 DEF GivesUp, Outcome, TimePasses
  <2>4. Returns
    BY <1>2, <1>3, <2>3 DEF Returns, broker
  <2> QED
    BY <1>3, <2>2, <2>3, <2>4
<1>4. ASSUME NEW gain \in Gains, ProposalAnswered(d, gain) PROVE Result
  <2> DEFINE v == Verdict(att.prob, att.stake, att.stake + gain, d)
  <2>1. /\ stage = "proposal" /\ TimePasses(d) /\ TypeInv'
        /\ UNCHANGED <<gov, lastTrade, tradeTimes, held, trades>>
    BY <1>1, <1>4, ProposalKeepsType DEF ProposalAnswered
  <2>2. now' \in now..MaxTime
    BY <1>1, <2>1 DEF TimePasses
  <2>3. CASE v = "PASS"
    <3>1. SendBuy(gain)
      BY <1>4, <2>3 DEF ProposalAnswered
    <3>2. att.stake \in Int /\ gain \in Int
      BY <1>1, <2>1, OrderAssumption DEF TypeInv, TypeOK, Attempts
    <3>3. gain > 0
      BY <2>3, <3>2 DEF Verdict, HasBreakEven
    <3>4. Sends(gain)
      BY <1>1, <1>2, <2>1, <3>1, <3>3 DEF SendBuy, Sends
    <3> QED
      BY <2>1, <2>2, <3>4
  <2>4. CASE v # "PASS"
    <3>1. /\ UNCHANGED <<gov, lastTrade, tradeTimes, held, broker, trades>>
          /\ traded' \subseteq Signals
      BY <1>1, <1>4, <2>1, <2>4 DEF ProposalAnswered, TypeInv, TypeOK
    <3>2. PICK st \in {"RAISED", "NO_TRADE"}, r \in Reasons : GivesUp(st, r)
      <4>1. v \in Reasons \cup {"PASS"}
        BY AnswersAreReasons
      <4>2. CASE v = "ValueError"
        BY <1>4, <2>4, <4>2 DEF ProposalAnswered, Reasons
      <4>3. CASE v # "ValueError"
        BY <1>4, <2>4, <4>1, <4>3 DEF ProposalAnswered
      <4> QED
        BY <4>2, <4>3
    <3> QED
      BY <1>3, <2>1, <3>1, <3>2
  <2> QED
    BY <2>3, <2>4
<1>5. ASSUME ProposalUnpriced(d) \/ ProposalRaises(d) \/ BuyRaises(d)
      PROVE  Result
  <2>1. PICK st \in {"RAISED", "NO_TRADE"},
             r \in {"SIGNAL_INVALID", "proposal", "buy"} :
           /\ GivesUp(st, r) /\ TimePasses(d)
           /\ UNCHANGED <<gov, lastTrade, tradeTimes, held, broker, trades>>
           /\ traded' = traded
           /\ st = "NO_TRADE" => stage = "proposal"
    BY <1>5 DEF ProposalUnpriced, ProposalRaises, BuyRaises, guards
  <2>2. r \in Reasons /\ traded' \subseteq Signals
    BY <1>1, <2>1 DEF Reasons, TypeInv, TypeOK
  <2> QED
    BY <1>3, <2>1, <2>2
<1>6. ASSUME BuyAnswered(d) PROVE Result
  <2>1. /\ stage = "buy" /\ MyOrder \in filled /\ TimePasses(d)
        /\ stage' = "idle" /\ Outcome("TRADE", "") /\ TypeInv'
        /\ UNCHANGED <<gov, att, broker>>
    BY <1>1, <1>6, BuyAnsweredKeepsType, Zenon DEF BuyAnswered
  <2>2. now' \in now..MaxTime
    <3>1. now' = now + d
      BY <2>1 DEF TimePasses
    <3> QED
      BY <1>1, <3>1
  <2>3. outcome'.status = "TRADE"
    BY <2>1 DEF Outcome
  <2>4. Returns
    BY <1>2, <2>1, <2>3 DEF Returns, broker
  <2> QED
    BY <2>1, <2>2, <2>4
<1>7. ASSUME NEW gain \in Gains, ProposalNameless(d, gain) PROVE Result
  <2>1. /\ GivesUp("RAISED", "KeyError") /\ TimePasses(d)
        /\ UNCHANGED <<gov, lastTrade, tradeTimes, held, broker, trades>>
        /\ stage = "proposal" /\ traded' = traded \cup {att.signal}
    BY <1>7 DEF ProposalNameless
  <2>2. "KeyError" \in Reasons /\ traded' \subseteq Signals
    BY <1>1, <2>1 DEF Reasons, TypeInv, TypeOK, Attempts
  <2> QED
    BY <1>3, <2>1, <2>2
<1> QED
  BY <1>1, <1>4, <1>5, <1>6, <1>7 DEF Await

-----------------------------------------------------------------------------
(* Type correctness.                                                       *)

\* The statistics of a new session have their type.
LEMMA NewSessionType == NewSession \in Sessions
BY DEF NewSession, Sessions

\* What a snapshot keeps of a governor, and what loading one makes of another.
LEMMA SnapshotFields ==
    ASSUME NEW g \in Governors
    PROVE  /\ SnapshotOf(g) \in Snapshots
           /\ SnapshotOf(NextDay(g)) = SnapshotOf(g)
           /\ \A s \in Snapshots : /\ Loaded(g, s) \in Governors
                                   /\ SnapshotOf(Loaded(g, s)) = s
                                   /\ Loaded(g, s).losses = s.losses
<1>1. SnapshotOf(g) \in Snapshots
  BY DEF SnapshotOf, Snapshots, Governors
<1>2. SnapshotOf(NextDay(g)) = SnapshotOf(g)
  BY DEF SnapshotOf, NextDay, Governors
<1>3. ASSUME NEW s \in Snapshots
      PROVE  /\ Loaded(g, s) \in Governors /\ Loaded(g, s).losses = s.losses
             /\ SnapshotOf(Loaded(g, s)) = s
  BY <1>3 DEF SnapshotOf, Loaded, Snapshots, Governors
<1> QED
  BY <1>1, <1>2, <1>3

\* The invariant holds when the first process starts.
LEMMA InitLoopInv == LoopInit => LoopInv
<1> SUFFICES ASSUME LoopInit PROVE LoopInv
  OBVIOUS
<1>1. TypeInv /\ stage = "idle" /\ outcome.status # "TRADE" /\ gov = NewGovernor
      /\ now = 0
  BY InitTypeInv DEF LoopInit, Init
<1>2. Date(0) = 0 /\ Date(0) <= Date(MaxTime) /\ Date(MaxTime) \in Nat
  <2>1. DaySpan \in Nat /\ DaySpan > 0 /\ MaxTime \in Nat
    BY GatesAssumption, LoopAssumption, OrderAssumption
  <2>2. 0 \div DaySpan = 0
    BY <2>1
  <2> QED
    BY <2>1, <2>2, DatesAscend DEF Date
<1>3. session \in Sessions
  BY NewSessionType DEF LoopInit
<1>4. log \in Seq(Int)
  BY DEF LoopInit
<1>5. /\ loop = "down" /\ running = TRUE /\ tickCount = 0 /\ tradeDate = 0
      /\ polls = 0 /\ profit = 0 /\ backoff = FirstBackoff /\ candle = 0
      /\ warm \in BOOLEAN /\ daily = [d \in Dates |-> NoRow]
      /\ dropped = 0 /\ sentStopped = 0 /\ crashes = 0 /\ session = NewSession
  BY DEF LoopInit
<1>6. LoopTypeOK
  BY <1>1, <1>2, <1>3, <1>4, <1>5, LoopAssumption, OrderAssumption
     DEF LoopTypeOK, TypeInv, Places, Dates
<1>7. now <= MaxTime /\ tradeDate <= Date(now)
  BY <1>1, <1>2, <1>5, OrderAssumption
<1>8. PlaceInv
  BY <1>1, <1>5 DEF PlaceInv
<1> QED
  BY <1>1, <1>6, <1>7, <1>8 DEF LoopInv, TypeInv

\* A quiet step keeps the types: it changes little, and that within its bounds.
LEMMA QuietKeepsInv == ASSUME LoopInv, Quiet PROVE LoopInv'
<1>1. LoopTypeOK /\ TypeInv /\ PlaceInv
  BY DEF LoopInv, LoopTypeOK, TypeInv
<1>2. /\ UNCHANGED <<gov, traded, lastTrade, tradeTimes, held, stage, att, outcome>>
      /\ UNCHANGED <<wire, filled, nextOrder, trades>>
      /\ UNCHANGED <<running, tradeDate, session, profit, daily, log>>
      /\ UNCHANGED <<dropped, sentStopped, crashes>>
  BY DEF Quiet, guards, broker, history
<1>3. now' \in now..MaxTime /\ now \in Nat /\ now' \in Nat /\ now' <= MaxTime
  BY <1>1, OrderAssumption DEF Quiet, TypeInv, TypeOK
<1>4. TypeInv'
  BY <1>1, <1>2, <1>3 DEF TypeInv, TypeOK, TradeAwaitsSettlement
<1>5. loop' \in Places
  BY DEF Quiet, Arc, Starting, StartPlaces, Places
<1>6. LoopTypeOK'
  <2>1. /\ backoff' \in FirstBackoff..MaxBackoff /\ polls' \in 0..MaxPolls
        /\ candle' \in 0..MaxTime /\ warm' \in BOOLEAN
    BY DEF Quiet
  <2>2. tickCount' \in 0..MaxTicks
    BY <1>1, LoopAssumption DEF Quiet, LoopTypeOK
  <2> QED
    BY <1>1, <1>2, <1>4, <1>5, <2>1, <2>2 DEF LoopTypeOK, TypeInv
<1>7. PlaceInv'
  <2>1. tickCount # 0 => tickCount' # 0
    BY <1>1, LoopAssumption DEF Quiet, LoopTypeOK
  <2> QED
    BY <1>1, <1>2, <2>1 DEF Quiet, Arc, PlaceInv, Starting, StartPlaces
<1>8. tradeDate' <= Date(now')
  <2>1. Date(now) <= Date(now') /\ Date(now) \in Nat /\ Date(now') \in Nat
    BY <1>3, DatesAscend
  <2>2. tradeDate \in Int /\ tradeDate <= Date(now)
    BY <1>1 DEF LoopInv, LoopTypeOK, Dates
  <2> QED
    BY <1>2, <2>1, <2>2
<1> QED
  BY <1>3, <1>4, <1>6, <1>7, <1>8 DEF LoopInv, TypeInv

\* The steps that begin a day's work and those that end it.
LEMMA DaysKeepInv ==
    ASSUME LoopInv, Restore \/ BeginTick PROVE LoopInv'
<1>1. LoopTypeOK /\ TypeInv /\ PlaceInv /\ gov \in Governors /\ session \in Sessions
      /\ now \in Nat /\ now <= MaxTime /\ MaxTime \in Nat
  BY OrderAssumption DEF LoopInv, LoopTypeOK, TypeInv, TypeOK
<1>2. Date(now) \in Dates /\ Date(now) \in Nat
  BY <1>1, DatesAscend DEF Dates
<1>3. ASSUME Restore PROVE LoopInv'
  <2>1. gov' \in Governors /\ session' \in Sessions
    <3> DEFINE row == daily[Date(now)]
    <3>1. row \in Rows \cup {NoRow} /\ tradeDate' = Date(now)
      BY <1>1, <1>2, <1>3 DEF Restore, LoopTypeOK
    <3>2. CASE row = NoRow
      BY <1>1, <1>3, <3>1, <3>2 DEF Restore, Restored
    <3>3. CASE row # NoRow
      <4>1. /\ gov' = Loaded(gov, row.gov) /\ session' = row.session
            /\ row.gov \in Snapshots /\ row.session \in Sessions
        BY <1>3, <3>1, <3>3 DEF Restore, Restored, Rows
      <4> QED
        BY <1>1, <4>1, SnapshotFields
    <3> QED
      BY <3>2, <3>3
  <2>2. /\ loop = "restore" /\ loop' = "top" /\ backoff' = FirstBackoff
        /\ tradeDate' = Date(now)
        /\ UNCHANGED <<now, traded, lastTrade, tradeTimes, held, stage, att, outcome>>
        /\ UNCHANGED <<wire, filled, nextOrder, trades, running, tickCount, polls>>
        /\ UNCHANGED <<profit, candle, warm, daily, log, dropped, sentStopped, crashes>>
    BY <1>3 DEF Restore, Goes, guards, broker, database, history
  <2>3. TypeInv'
    BY <1>1, <2>1, <2>2 DEF TypeInv, TypeOK, TradeAwaitsSettlement
  <2>4. LoopTypeOK'
    BY <1>1, <1>2, <2>1, <2>2, <2>3, LoopAssumption
       DEF LoopTypeOK, TypeInv, Places
  <2>5. PlaceInv'
    BY <1>1, <2>2 DEF PlaceInv, Starting, StartPlaces
  <2> QED
    BY <1>1, <1>2, <2>2, <2>3, <2>4, <2>5 DEF LoopInv, TypeInv
<1>4. ASSUME BeginTick PROVE LoopInv'
  <2>1. gov' \in Governors /\ session' \in Sessions /\ tradeDate' = Date(now)
    BY <1>1, <1>4, NextDayFields, NewSessionType DEF BeginTick, Rollover
  <2>2. /\ loop = "top" /\ loop' = "fetch" /\ tickCount' = tickCount + 1
        /\ tickCount < MaxTicks
        /\ UNCHANGED <<now, traded, lastTrade, tradeTimes, held, stage, att, outcome>>
        /\ UNCHANGED <<wire, filled, nextOrder, trades, backoff, running, polls>>
        /\ UNCHANGED <<profit, candle, warm, daily, log, dropped, sentStopped, crashes>>
    BY <1>4 DEF BeginTick, Goes, guards, broker, database, history
  <2>3. TypeInv'
    BY <1>1, <2>1, <2>2 DEF TypeInv, TypeOK, TradeAwaitsSettlement
  <2>4. tickCount' \in 1..MaxTicks
    BY <1>1, <2>2, LoopAssumption DEF LoopTypeOK
  <2>5. LoopTypeOK'
    BY <1>1, <1>2, <2>1, <2>2, <2>3, <2>4, LoopAssumption
       DEF LoopTypeOK, TypeInv, Places
  <2>6. PlaceInv'
    BY <1>1, <2>2, <2>4 DEF PlaceInv, Starting, StartPlaces
  <2> QED
    BY <1>1, <1>2, <2>1, <2>2, <2>3, <2>5, <2>6 DEF LoopInv, TypeInv
<1> QED
  BY <1>3, <1>4

\* The steps of an attempt.
LEMMA AttemptsKeepInv ==
    ASSUME LoopInv, Evaluate \/ \E d \in Delays : InTime(d) /\ Await(d)
    PROVE  LoopInv'
<1>1. LoopTypeOK /\ PlaceInv /\ now \in Nat /\ now <= MaxTime /\ MaxTime \in Nat
  BY OrderAssumption DEF LoopInv, LoopTypeOK, TypeOK
<1> DEFINE Result ==
             /\ UNCHANGED <<gov, locals, database, dropped, crashes>> /\ TypeInv'
             /\ now' \in now..MaxTime /\ sentStopped' \in Nat
             /\ loop' \in Places \ (Starting \cup {"fetch", "evaluate"})
             /\ stage' # "idle" <=> loop' = "attempt"
             /\ loop' \in {"placed", "polling"} <=> outcome'.status = "TRADE"
<1>2. Result
  <2>1. CASE Evaluate
    <3>1. /\ UNCHANGED <<now, gov, locals, database, history>> /\ TypeInv'
          /\ outcome'.status # "TRADE"
          /\ \/ loop' = "attempt" /\ stage' = "proposal"
             \/ loop' = "finish" /\ stage' = "idle"
      BY <2>1, EvaluateSteps
    <3> QED
      BY <1>1, <3>1 DEF Places, Starting, StartPlaces, LoopTypeOK, history
  <2>2. ASSUME NEW d \in Delays, InTime(d), Await(d)
        PROVE  Result
    <3>1. /\ UNCHANGED <<gov, locals, database, dropped, crashes>> /\ TypeInv'
          /\ now' \in now..MaxTime /\ loop = "attempt"
          /\ Returns \/ \E gain \in Gains : Sends(gain)
      BY <2>2, AwaitSteps
    <3>2. outcome.status # "TRADE" /\ sentStopped \in Nat
      BY <1>1, <3>1 DEF PlaceInv, LoopTypeOK
    <3>3. ASSUME NEW gain \in Gains, Sends(gain)
          PROVE  /\ stage' = "buy" /\ loop' = "attempt" /\ outcome' = outcome
                 /\ sentStopped' \in {sentStopped, sentStopped + 1}
      BY <3>3, Zenon DEF Sends
    <3>4. sentStopped + 1 \in Nat
      BY <3>2
    <3>5. CASE Returns
      BY <3>1, <3>2, <3>5 DEF Returns, Places, Starting, StartPlaces
    <3> QED
      BY <3>1, <3>2, <3>3, <3>4, <3>5 DEF Places, Starting, StartPlaces
  <2> QED
    BY <2>1, <2>2
<1>3. LoopTypeOK'
  BY <1>1, <1>2 DEF LoopTypeOK, TypeInv, locals, database
<1>4. PlaceInv'
  BY <1>2 DEF PlaceInv
<1>5. now' <= MaxTime /\ tradeDate' <= Date(now')
  <2>1. now' \in Nat /\ now <= now' /\ now' <= MaxTime
    BY <1>1, <1>2
  <2>2. Date(now) <= Date(now') /\ Date(now) \in Nat /\ Date(now') \in Nat
    BY <1>1, <2>1, DatesAscend
  <2>3. tradeDate \in Int /\ tradeDate <= Date(now) /\ tradeDate' = tradeDate
    BY <1>1, <1>2 DEF LoopInv, LoopTypeOK, Dates, locals
  <2> QED
    BY <2>1, <2>2, <2>3
<1> QED
  BY <1>2, <1>3, <1>4, <1>5 DEF LoopInv, TypeInv

\* What settles a trade, books it and saves it.
LEMMA BooksKeepInv ==
    ASSUME LoopInv,
           \/ \E pl \in {-att.stake, att.gain} : PollSold(pl)
           \/ PollUnclear
           \/ \E next \in {"finish", "fatal"} : LogTrade(next)
           \/ SaveDailyState
    PROVE  LoopInv'
<1>1. LoopTypeOK /\ TypeInv /\ PlaceInv /\ session \in Sessions
  BY DEF LoopInv, LoopTypeOK, TypeInv
<1>2. ASSUME NEW pl, PollSold(pl) PROVE LoopInv'
  <2>1. TypeInv' /\ pl \in Int
    BY <1>1, <1>2, SettlingKeepsType DEF PollSold
  <2>2. session' \in Sessions
    <3>1. session' = WithSettlement(session, pl > 0, pl)
      BY <1>2 DEF PollSold
    <3>2. /\ session.trades \in Nat /\ session.wins \in Nat /\ session.losses \in Nat
          /\ session.pnl \in Int /\ session.streak \in Nat /\ session.longest \in Nat
      BY <1>1 DEF Sessions
    <3> QED
      BY <2>1, <3>1, <3>2 DEF WithSettlement, Sessions, Larger
  <2>3. /\ loop = "polling" /\ loop' = "log" /\ profit' = pl /\ stage = "idle"
        /\ outcome'.status = "NONE" /\ now' = now /\ stage' = stage
        /\ UNCHANGED <<backoff, running, tickCount, tradeDate, polls>>
        /\ UNCHANGED <<candle, warm, daily, log, dropped, sentStopped, crashes>>
    BY <1>2 DEF PollSold, RunnerSettles, Outcome, Goes, database, history
  <2>4. LoopTypeOK'
    BY <1>1, <2>1, <2>2, <2>3 DEF LoopTypeOK, TypeInv, Places
  <2>5. PlaceInv'
    BY <2>3 DEF PlaceInv, Starting, StartPlaces
  <2> QED
    BY <2>1, <2>3, <2>4, <2>5 DEF LoopInv, TypeInv
<1>3. ASSUME PollUnclear PROVE LoopInv'
  <2>1. /\ loop = "polling" /\ loop' = "finish" /\ att' = NoAttempt
        /\ outcome' = [status |-> "NONE", reason |-> ""] /\ dropped' = dropped + 1
        /\ UNCHANGED <<now, gov, traded, lastTrade, tradeTimes, held, stage>>
        /\ UNCHANGED <<wire, filled, nextOrder, trades>>
        /\ UNCHANGED <<backoff, running, tickCount, tradeDate, session, polls, profit>>
        /\ UNCHANGED <<candle, warm, daily, log, sentStopped, crashes>>
    BY <1>3 DEF PollUnclear, Goes, guards, broker, locals, database
  <2>2. outcome' \in [status : Statuses, reason : Reasons] /\ outcome'.status = "NONE"
        /\ stage = "idle"
    BY <1>1, <2>1 DEF Statuses, Reasons, PlaceInv
  <2>3. TypeInv'
    BY <1>1, <2>1, <2>2 DEF TypeInv, TypeOK, TradeAwaitsSettlement
  <2>4. LoopTypeOK'
    <3>1. loop' \in Places
      BY <2>1 DEF Places
    <3>2. dropped \in Nat /\ dropped' = dropped + 1
      BY <1>1, <2>1 DEF LoopTypeOK
    <3>3. dropped' \in Nat
      BY <3>2
    <3>4. /\ UNCHANGED <<backoff, running, tickCount, tradeDate, session, polls>>
          /\ UNCHANGED <<profit, candle, warm, daily, log, sentStopped, crashes>>
      BY <2>1
    <3> QED
      BY <1>1, <2>3, <3>1, <3>3, <3>4 DEF LoopTypeOK, TypeInv
  <2>5. PlaceInv'
    BY <2>1, <2>2 DEF PlaceInv, Starting, StartPlaces
  <2> QED
    BY <2>1, <2>3, <2>4, <2>5 DEF LoopInv, TypeInv
<1>4. ASSUME NEW next \in {"finish", "fatal"}, LogTrade(next) \/ SaveDailyState
      PROVE  LoopInv'
  <2>1. /\ loop \in {"log", "finish"} /\ loop' \in {"finish", "fatal", "alerts"}
        /\ UNCHANGED <<omVars, locals, candle, warm, history>>
    BY <1>4 DEF LogTrade, SaveDailyState, Goes
  <2>2. log' \in Seq(Int) /\ daily' \in [Dates -> Rows \cup {NoRow}]
    <3>1. log \in Seq(Int) /\ profit \in Int /\ daily \in [Dates -> Rows \cup {NoRow}]
      BY <1>1 DEF LoopTypeOK
    <3>2. Row \in Rows
      BY <1>1, SnapshotFields DEF Row, Rows, TypeInv, TypeOK
    <3>3. \A S : \A q \in Seq(S), e \in S : Append(q, e) \in Seq(S)
      OBVIOUS
    <3> QED
      BY <1>4, <3>1, <3>2, <3>3 DEF LogTrade, SaveDailyState
  <2>3. TypeInv'
    BY <1>1, <2>1 DEF TypeInv, TypeOK, TradeAwaitsSettlement, omVars
  <2>4. LoopTypeOK'
    BY <1>1, <2>1, <2>2, <2>3 DEF LoopTypeOK, TypeInv, Places, locals, history
  <2>5. PlaceInv'
    BY <1>1, <2>1 DEF PlaceInv, Starting, StartPlaces, omVars
  <2> QED
    BY <2>1, <2>3, <2>4, <2>5 DEF LoopInv, TypeInv, omVars, locals
<1> QED
  BY <1>2, <1>3, <1>4

\* What happens to the process from outside.
LEMMA OutsideKeepsInv ==
    ASSUME LoopInv, \/ Crash \/ \E on \in BOOLEAN : SetRunning(on)
                    \/ BrokerActs \/ UNCHANGED vars
    PROVE  LoopInv'
<1>1. LoopTypeOK /\ TypeInv /\ PlaceInv
  BY DEF LoopInv, LoopTypeOK, TypeInv
<1>2. ASSUME Crash PROVE LoopInv'
  <2>1. /\ gov' = NewGovernor /\ traded' = {}
        /\ lastTrade' = [s \in Symbols |-> Never]
        /\ tradeTimes' = << >> /\ held' = {} /\ trades' = << >>
        /\ stage' = "idle" /\ att' = NoAttempt
        /\ outcome' = [status |-> "NONE", reason |-> ""]
        /\ UNCHANGED <<now, wire, filled, nextOrder>>
    BY <1>2 DEF Crash, FreshMemory, broker
  <2>2. gov' \in Governors /\ outcome' \in [status : Statuses, reason : Reasons]
        /\ outcome'.status = "NONE"
    BY <2>1, NewGovernorType DEF Statuses, Reasons
  <2>3. \A S : << >> \in Seq(S)
    OBVIOUS
  <2>4. TypeInv'
    BY <1>1, <2>1, <2>2, <2>3 DEF TypeInv, TypeOK, TradeAwaitsSettlement
  <2>5. /\ loop' = "down" /\ running' = TRUE /\ tickCount' = 0 /\ polls' = 0
        /\ session' = NewSession /\ profit' = 0 /\ backoff' = FirstBackoff
        /\ sentStopped' = 0 /\ crashes < MaxCrashes /\ crashes' = crashes + 1
        /\ UNCHANGED <<tradeDate, candle, warm, daily, log, dropped>>
    BY <1>2 DEF Crash, FreshMemory, database
  <2>6. session' \in Sessions
    BY <2>5, NewSessionType
  <2>7. LoopTypeOK'
    BY <1>1, <2>4, <2>5, <2>6, LoopAssumption DEF LoopTypeOK, TypeInv, Places
  <2>8. PlaceInv'
    BY <2>1, <2>2, <2>5 DEF PlaceInv
  <2> QED
    BY <2>1, <2>4, <2>5, <2>7, <2>8 DEF LoopInv, TypeInv
<1>3. ASSUME NEW on \in BOOLEAN, SetRunning(on) PROVE LoopInv'
  <2>1. /\ running' = on /\ sentStopped' \in Nat
        /\ UNCHANGED <<omVars, loop, backoff, tickCount, tradeDate, session, polls>>
        /\ UNCHANGED <<profit, database, dropped, crashes>>
    BY <1>1, <1>3 DEF SetRunning, LoopTypeOK
  <2>2. TypeInv'
    BY <1>1, <2>1 DEF TypeInv, TypeOK, TradeAwaitsSettlement, omVars
  <2>3. LoopTypeOK'
    BY <1>1, <2>1, <2>2 DEF LoopTypeOK, TypeInv, database
  <2>4. PlaceInv'
    BY <1>1, <2>1 DEF PlaceInv, omVars
  <2> QED
    BY <2>1, <2>2, <2>3, <2>4 DEF LoopInv, TypeInv, omVars
<1>4. ASSUME BrokerActs \/ UNCHANGED vars PROVE LoopInv'
  <2>1. /\ UNCHANGED <<loopVars, database, history>>
        /\ UNCHANGED <<now, gov, guards, stage, att, outcome, nextOrder, trades>>
    BY <1>4 DEF BrokerActs, BrokerFills, BrokerDrops, vars, omVars, broker, guards
  <2>2. wire' \subseteq Orders /\ filled' \subseteq Orders
    BY <1>1, <1>4 DEF BrokerActs, BrokerFills, BrokerDrops, vars, omVars, TypeInv, TypeOK
  <2>3. TypeInv'
    BY <1>1, <2>1, <2>2 DEF TypeInv, TypeOK, TradeAwaitsSettlement, guards
  <2>4. LoopTypeOK'
    BY <1>1, <2>1, <2>3
       DEF LoopTypeOK, TypeInv, loopVars, locals, database, history
  <2>5. PlaceInv'
    BY <1>1, <2>1 DEF PlaceInv, loopVars, locals
  <2> QED
    BY <2>1, <2>3, <2>4, <2>5 DEF LoopInv, TypeInv, loopVars, locals
<1> QED
  BY <1>2, <1>3, <1>4

\* Every step of the loop keeps it.
LEMMA NextLoopInv == LoopInv /\ [LoopNext]_vars => LoopInv'
BY LoopSteps, QuietKeepsInv, DaysKeepInv, AttemptsKeepInv, BooksKeepInv,
   OutsideKeepsInv

\* Every state of the forward test has its type: positions of the coroutine,
\* memory of the process, rows of the database and what the broker holds.
THEOREM LoopTypes == LoopSpec => []LoopTypeOK
<1>1. LoopInv => LoopTypeOK
  BY DEF LoopInv
<1> QED
  BY InitLoopInv, NextLoopInv, <1>1, PTL DEF LoopSpec

-----------------------------------------------------------------------------
(* The governor's permission.                                              *)

\* As long as a trade is being made or its settlement is awaited, no limit is
\* reached, and what it can cost and make is known.
WithinEveryLimit == /\ ~gov.stopped /\ gov.losses < MaxConsecutiveLosses
                    /\ DailyLoss(gov) < MaxDailyLoss

PermitInv ==
    /\ stage # "idle" \/ loop \in {"placed", "polling"}
         => WithinEveryLimit /\ att.stake \in 1..MaxStake
    /\ stage = "buy" \/ loop \in {"placed", "polling"} => att.gain > 0

\* A governor that permits trades is at none of its limits.
LEMMA PermissionMeansNoLimit ==
    ASSUME gov \in Governors, CanTrade(gov) PROVE WithinEveryLimit
<1>1. RiskState(gov) \notin {"EMERGENCY_STOP", "MAJOR_ANOMALY"}
  BY DEF CanTrade, RiskMultiplier, Quarters
<1>2. /\ gov.losses \in Nat /\ DailyLoss(gov) \in Int
      /\ MaxConsecutiveLosses \in Nat /\ MaxDailyLoss \in Nat
      /\ gov.stopped \in BOOLEAN
  BY GovernorAssumption DEF Governors, DailyLoss, Larger
<1> QED
  BY <1>1, <1>2 DEF RiskState, WithinEveryLimit

\* What a request changes of the attempt it is sent for.
LEMMA SentAttempt ==
    ASSUME LoopInv, loop = "attempt", NEW gain \in Gains, Sends(gain)
    PROVE  /\ att'.stake = att.stake /\ att'.gain = gain
           /\ att'.order = nextOrder /\ att'.signal = att.signal
<1>1. att \in Attempts
  BY DEF LoopInv, LoopTypeOK, TypeOK, PlaceInv
<1> DEFINE priced == [att EXCEPT !.gain = gain]
           sent   == [priced EXCEPT !.order = nextOrder]
<1>2. /\ priced.stake = att.stake /\ priced.gain = gain /\ priced.order = att.order
      /\ priced.signal = att.signal /\ priced \in Attempts
  <2>1. gain \in Int
    BY OrderAssumption
  <2> QED
    BY <1>1, <2>1 DEF Attempts
<1>3. att' = sent
  BY Zenon DEF Sends
<1> HIDE DEF priced
<1>4. /\ sent.stake = priced.stake /\ sent.gain = priced.gain
      /\ sent.order = nextOrder /\ sent.signal = priced.signal
  BY <1>2 DEF Attempts
<1> QED
  BY <1>2, <1>3, <1>4

\* Nothing is permitted before anything is asked.
LEMMA InitPermitInv == LoopInit => PermitInv
BY DEF LoopInit, Init, PermitInv

\* Every step keeps this too.
LEMMA NextPermitInv ==
    ASSUME LoopInv, PermitInv, [LoopNext]_vars PROVE PermitInv'
<1>1. PlaceInv /\ gov \in Governors /\ MaxStake \in Nat
  BY GatesAssumption DEF LoopInv, LoopTypeOK, TypeOK
<1>2. ASSUME Quiet PROVE PermitInv'
  <2>1. /\ UNCHANGED <<gov, stage, att>> /\ stage = "idle"
        /\ loop' \in {"placed", "polling"} => loop \in {"placed", "polling"}
    BY <1>1, <1>2 DEF Quiet, Arc, PlaceInv, Starting, StartPlaces
  <2> QED
    BY <2>1 DEF PermitInv, WithinEveryLimit
<1>3. ASSUME Evaluate PROVE PermitInv'
  <2>1. CASE loop' = "finish" /\ stage' = "idle"
    BY <2>1 DEF PermitInv
  <2>2. CASE loop' # "finish"
    <3>1. /\ CanTrade(gov) /\ gov' = gov /\ stage' = "proposal" /\ loop' = "attempt"
          /\ att'.stake = Stake(gov) /\ Stake(gov) > 0
      BY <1>3, <2>2, EvaluateSteps
    <3>2. Stake(gov) \in Int /\ Stake(gov) <= MaxStake
      BY <1>1, StakeRange
    <3>3. WithinEveryLimit'
      BY <1>1, <3>1, PermissionMeansNoLimit DEF WithinEveryLimit
    <3>4. att'.stake \in 1..MaxStake
      BY <1>1, <3>1, <3>2
    <3> QED
      BY <3>1, <3>3, <3>4 DEF PermitInv
  <2> QED
    BY <1>3, <2>1, <2>2, EvaluateSteps
<1>4. ASSUME NEW d \in Delays, InTime(d), Await(d) PROVE PermitInv'
  <2>1. /\ loop = "attempt" /\ gov' = gov
        /\ Returns \/ \E gain \in Gains : Sends(gain)
    BY <1>4, AwaitSteps
  <2>2. WithinEveryLimit' /\ att.stake \in 1..MaxStake
    BY <1>1, <2>1 DEF PlaceInv, PermitInv, WithinEveryLimit
  <2>3. ASSUME NEW gain \in Gains, Sends(gain) PROVE PermitInv'
    <3>1. att'.stake = att.stake /\ att'.gain = gain
      BY <2>1, <2>3, SentAttempt
    <3>2. gain > 0
      BY <2>3, Zenon DEF Sends
    <3> QED
      BY <2>2, <3>1, <3>2 DEF PermitInv
  <2>4. CASE Returns
    <3>1. CASE loop' = "placed"
      BY <2>2, <2>4, <3>1 DEF Returns, PermitInv
    <3>2. CASE loop' # "placed"
      BY <2>4, <3>2 DEF Returns, PermitInv
    <3> QED
      BY <3>1, <3>2
  <2> QED
    BY <2>1, <2>3, <2>4
<1>5. ASSUME \/ Restore \/ BeginTick
             \/ \E pl \in {-att.stake, att.gain} : PollSold(pl)
             \/ PollUnclear
             \/ \E next \in {"finish", "fatal"} : LogTrade(next)
             \/ SaveDailyState \/ Crash
      PROVE  PermitInv'
  <2>1. CASE Crash
    BY <2>1 DEF Crash, FreshMemory, PermitInv
  <2>2. CASE ~Crash
    <3>1. /\ stage' = stage /\ loop # "attempt"
          /\ loop' \notin {"placed", "polling"}
      BY <1>5, <2>2
         DEF Restore, BeginTick, PollSold, RunnerSettles, PollUnclear,
             LogTrade, SaveDailyState, Goes, omVars
    <3> QED
      BY <1>1, <3>1 DEF PlaceInv, PermitInv
  <2> QED
    BY <2>1, <2>2
<1>6. ASSUME (\E on \in BOOLEAN : SetRunning(on)) \/ BrokerActs \/ UNCHANGED vars
      PROVE  PermitInv'
  <2>1. UNCHANGED <<gov, stage, att, loop>>
    BY <1>6 DEF SetRunning, BrokerActs, BrokerFills, BrokerDrops, vars, omVars, loopVars
  <2> QED
    BY <2>1 DEF PermitInv, WithinEveryLimit
<1> QED
  BY <1>2, <1>3, <1>4, <1>5, <1>6, LoopSteps

\* So both hold throughout.
LEMMA Permitted == LoopSpec => [](LoopInv /\ PermitInv)
<1>1. LoopInit => LoopInv /\ PermitInv
  BY InitLoopInv, InitPermitInv
<1>2. LoopInv /\ PermitInv /\ [LoopNext]_vars => LoopInv' /\ PermitInv'
  BY NextLoopInv, NextPermitInv
<1> QED
  BY <1>1, <1>2, PTL DEF LoopSpec

\* No order leaves while any limit of the governor is reached, although the
\* governor is asked only before the proposal.
THEOREM HaltSendsNothing == LoopSpec => HaltedSendsNothing
<1> DEFINE Halted == \/ gov.stopped
                     \/ gov.losses >= MaxConsecutiveLosses
                     \/ DailyLoss(gov) >= MaxDailyLoss
<1>1. LoopInv /\ PermitInv /\ [LoopNext]_vars
        => [Halted => nextOrder' = nextOrder]_vars
  <2> SUFFICES ASSUME LoopInv, PermitInv, [LoopNext]_vars, Halted
               PROVE  nextOrder' = nextOrder
    OBVIOUS
  <2>1. ~WithinEveryLimit
    <3>1. /\ gov.losses \in Nat /\ MaxConsecutiveLosses \in Nat
          /\ DailyLoss(gov) \in Int /\ MaxDailyLoss \in Nat
      BY GovernorAssumption
         DEF LoopInv, LoopTypeOK, TypeOK, Governors, DailyLoss, Larger
    <3> QED
      BY <3>1 DEF WithinEveryLimit
  <2>2. stage = "idle" /\ loop # "attempt"
    BY <2>1 DEF PermitInv, LoopInv, PlaceInv
  <2>3. ASSUME NEW d \in Delays, InTime(d), Await(d) PROVE FALSE
    BY <2>2, <2>3, AwaitSteps
  <2>4. ASSUME Evaluate PROVE nextOrder' = nextOrder
    BY <2>4, EvaluateSteps DEF broker
  <2> QED
    BY <2>3, <2>4, LoopSteps
       DEF Quiet, Restore, BeginTick, PollSold, RunnerSettles, PollUnclear,
           LogTrade, SaveDailyState, Crash, SetRunning, BrokerActs, BrokerFills,
           BrokerDrops, broker, omVars, vars
<1> QED
  BY <1>1, Permitted, PTL DEF LoopSpec, HaltedSendsNothing

\* A halt for consecutive losses ends only with the process.
THEOREM LossHaltLasts == LoopSpec => LossHaltIsFinal
<1>1. LoopInv /\ PermitInv /\ [LoopNext]_vars
        => [gov.losses >= MaxConsecutiveLosses /\ loop' # "down"
              => gov'.losses >= MaxConsecutiveLosses]_vars
  <2> SUFFICES ASSUME LoopInv, PermitInv, [LoopNext]_vars,
                      gov.losses >= MaxConsecutiveLosses, loop' # "down"
               PROVE  gov'.losses >= MaxConsecutiveLosses
    OBVIOUS
  <2>1. /\ gov \in Governors /\ gov.losses \in Nat /\ MaxConsecutiveLosses \in Nat
        /\ gov' \in Governors /\ gov'.losses \in Nat
    BY GovernorAssumption, NextLoopInv DEF LoopInv, LoopTypeOK, TypeOK, Governors
  <2>2. loop # "polling"
    BY <2>1 DEF PermitInv, WithinEveryLimit
  <2>3. ASSUME Restore PROVE gov'.losses >= MaxConsecutiveLosses
    <3>1. gov = NewGovernor
      BY <2>3 DEF Restore, LoopInv, PlaceInv, Starting
    <3> QED
      BY <2>1, <3>1 DEF NewGovernor
  <2>4. ASSUME BeginTick PROVE gov'.losses >= MaxConsecutiveLosses
    BY <2>1, <2>4, NextDayFields DEF BeginTick, Rollover
  <2>5. ASSUME NEW d \in Delays, InTime(d), Await(d) PROVE gov' = gov
    BY <2>5, AwaitSteps
  <2>6. ASSUME Evaluate PROVE gov' = gov
    BY <2>6, EvaluateSteps
  <2> QED
    BY <2>2, <2>3, <2>4, <2>5, <2>6, LoopSteps
       DEF Quiet, PollSold, PollUnclear, LogTrade, SaveDailyState, Crash, Goes,
           SetRunning, BrokerActs, BrokerFills, BrokerDrops, omVars, vars
<1> QED
  BY <1>1, Permitted, PTL DEF LoopSpec, LossHaltIsFinal

-----------------------------------------------------------------------------
(* A stop by the operator.                                                 *)

StopInv ==
    /\ sentStopped \in {0, 1}
    /\ running \/ loop \in {"fetch", "evaluate"} \/ stage = "proposal"
         => sentStopped = 0

\* It holds initially, when no stop is requested.
LEMMA InitStopInv == LoopInit => StopInv
BY DEF LoopInit, StopInv

\* Every step keeps it.
LEMMA NextStopInv ==
    ASSUME LoopInv, StopInv, [LoopNext]_vars PROVE StopInv'
<1>1. PlaceInv /\ running \in BOOLEAN
  BY DEF LoopInv, LoopTypeOK
<1>2. ASSUME Quiet PROVE StopInv'
  <2>1. /\ UNCHANGED <<running, sentStopped, stage>> /\ stage = "idle"
        /\ loop' \in {"fetch", "evaluate"} => loop = "fetch"
    BY <1>1, <1>2 DEF Quiet, Arc, PlaceInv, Starting, StartPlaces, history
  <2> QED
    BY <2>1 DEF StopInv
<1>3. ASSUME BeginTick \/ Evaluate PROVE StopInv'
  <2>1. sentStopped = 0 /\ sentStopped' = sentStopped
    BY <1>3 DEF BeginTick, Evaluate, StopInv, history
  <2> QED
    BY <2>1 DEF StopInv
<1>4. ASSUME NEW d \in Delays, InTime(d), Await(d) PROVE StopInv'
  <2>1. /\ UNCHANGED locals
        /\ Returns \/ \E gain \in Gains : Sends(gain)
    BY <1>4, AwaitSteps
  <2>2. ASSUME NEW gain \in Gains, Sends(gain) PROVE StopInv'
    <3>1. /\ stage = "proposal" /\ stage' = "buy" /\ loop' = "attempt"
          /\ sentStopped' = IF running THEN sentStopped ELSE sentStopped + 1
      BY <2>2, Zenon DEF Sends
    <3>2. sentStopped = 0 /\ running' = running
      BY <2>1, <3>1 DEF StopInv, locals
    <3> QED
      BY <1>1, <3>1, <3>2 DEF StopInv
  <2>3. CASE Returns
    BY <2>1, <2>3 DEF Returns, StopInv, locals
  <2> QED
    BY <2>1, <2>2, <2>3
<1>5. ASSUME \/ Restore
             \/ \E pl \in {-att.stake, att.gain} : PollSold(pl)
             \/ PollUnclear
             \/ \E next \in {"finish", "fatal"} : LogTrade(next)
             \/ SaveDailyState
             \/ BrokerActs \/ UNCHANGED vars
      PROVE  StopInv'
  <2>1. /\ UNCHANGED <<running, sentStopped, stage>>
        /\ loop' \in {"fetch", "evaluate"} => loop' = loop
    BY <1>5
       DEF Restore, PollSold, RunnerSettles, PollUnclear, LogTrade,
           SaveDailyState, BrokerActs, BrokerFills, BrokerDrops, Goes,
           omVars, locals, history, loopVars, vars
  <2> QED
    BY <2>1 DEF StopInv
<1>6. ASSUME Crash PROVE StopInv'
  BY <1>6 DEF Crash, StopInv
<1>7. ASSUME NEW on \in BOOLEAN, SetRunning(on) PROVE StopInv'
  <2>1. /\ running' = on /\ UNCHANGED <<loop, stage>>
        /\ sentStopped' = IF on THEN 0 ELSE sentStopped
    BY <1>7 DEF SetRunning, omVars
  <2> QED
    BY <2>1 DEF StopInv
<1> QED
  BY <1>2, <1>3, <1>4, <1>5, <1>6, <1>7, LoopSteps

\* After the bot is stopped one order at most still leaves.
THEOREM OneOrderAfterStop == LoopSpec => []StopLetsOneOut
<1>1. LoopInit => LoopInv /\ StopInv
  BY InitLoopInv, InitStopInv
<1>2. LoopInv /\ StopInv /\ [LoopNext]_vars => LoopInv' /\ StopInv'
  BY NextLoopInv, NextStopInv
<1>3. StopInv => StopLetsOneOut
  BY DEF StopInv, StopLetsOneOut
<1> QED
  BY <1>1, <1>2, <1>3, PTL DEF LoopSpec

-----------------------------------------------------------------------------
(* Memory and the rows saved of it.                                        *)

\* Where a row that exists for the date is what memory holds.
SavedPlaces == {"top", "sleep", "alerts", "fetch", "evaluate", "attempt",
                "placed", "polling"}

BooksUntouched ==
    /\ UNCHANGED <<gov, session, tradeDate, daily, crashes>>
    /\ loop' \in Starting => loop \in Starting
    /\ loop' \in SavedPlaces => loop \in SavedPlaces

\* Five kinds of step write what memory and rows say of the day.
LEMMA BookSteps ==
    ASSUME LoopInv, [LoopNext]_vars
    PROVE  \/ BooksUntouched
           \/ Restore \/ BeginTick
           \/ \E pl \in {-att.stake, att.gain} : PollSold(pl)
           \/ SaveDailyState \/ Crash
<1>1. ASSUME Quiet PROVE BooksUntouched
  BY <1>1 DEF Quiet, Arc, BooksUntouched, Starting, StartPlaces, SavedPlaces, history
<1>2. ASSUME Evaluate PROVE BooksUntouched
  <2>1. /\ loop = "evaluate" /\ loop' \in {"attempt", "finish"} /\ gov' = gov
        /\ UNCHANGED <<locals, database, history>>
    BY <1>2, EvaluateSteps
  <2> QED
    BY <2>1 DEF BooksUntouched, Starting, StartPlaces, SavedPlaces, locals, database, history
<1>3. ASSUME NEW d \in Delays, InTime(d), Await(d) PROVE BooksUntouched
  <2>1. /\ loop = "attempt" /\ UNCHANGED <<gov, locals, database, dropped, crashes>>
        /\ Returns \/ \E gain \in Gains : Sends(gain)
    BY <1>3, AwaitSteps
  <2>2. ASSUME NEW gain \in Gains, Sends(gain) PROVE loop' = "attempt"
    BY <2>2, Zenon DEF Sends
  <2>3. loop' \notin Starting
    BY <2>1, <2>2 DEF Returns, Starting, StartPlaces
  <2> QED
    BY <2>1, <2>3 DEF BooksUntouched, SavedPlaces, locals, database
<1>4. ASSUME \/ PollUnclear
             \/ \E next \in {"finish", "fatal"} : LogTrade(next)
      PROVE  BooksUntouched
  BY <1>4 DEF PollUnclear, LogTrade, Goes, BooksUntouched, Starting, StartPlaces,
              SavedPlaces, omVars, locals, database, history
<1>5. ASSUME (\E on \in BOOLEAN : SetRunning(on)) \/ BrokerActs \/ UNCHANGED vars
      PROVE  BooksUntouched
  BY <1>5 DEF SetRunning, BrokerActs, BrokerFills, BrokerDrops, BooksUntouched,
              vars, omVars, loopVars, locals, database, history
<1> QED
  BY <1>1, <1>2, <1>3, <1>4, <1>5, LoopSteps

\* Until the process has died once, there is nothing to restore when it
\* starts, and governor and statistics agree on the day's loss.
DayInv ==
    crashes = 0 =>
        /\ DailyLossIsTodaysLoss
        /\ loop \in Starting => \A d \in Dates : daily[d] = NoRow

BoundInv == crashes = 0 => TodaysLossBounded

\* It holds initially, on the first day.
LEMMA InitDayInv == LoopInit => DayInv
<1> SUFFICES ASSUME LoopInit PROVE DayInv
  OBVIOUS
<1>1. /\ gov = NewGovernor /\ session = NewSession
      /\ daily = [d \in Dates |-> NoRow]
  BY DEF LoopInit, Init
<1>2. DailyLossIsTodaysLoss
  BY <1>1, GovernorAssumption DEF DailyLossIsTodaysLoss, NewGovernor, NewSession
<1> QED
  BY <1>1, <1>2 DEF DayInv

\* Every step keeps it, as long as no process has crashed.
LEMMA NextDayInv ==
    ASSUME LoopInv, PermitInv, DayInv, [LoopNext]_vars
    PROVE  /\ DayInv'
           /\ BoundInv /\ MaxDailyLoss + MaxStake > 0 => BoundInv'
<1> DEFINE Result == /\ DayInv'
                     /\ BoundInv /\ MaxDailyLoss + MaxStake > 0 => BoundInv'
<1>1. /\ LoopTypeOK /\ TypeInv /\ gov \in Governors /\ session \in Sessions
      /\ crashes \in Nat
  BY LoopAssumption DEF LoopInv, LoopTypeOK, TypeInv, TypeOK
<1>2. ASSUME BooksUntouched PROVE Result
  BY <1>2 DEF BooksUntouched, DayInv, BoundInv, DailyLossIsTodaysLoss, TodaysLossBounded
<1>3. ASSUME Restore PROVE Result
  <2>1. /\ loop = "restore" /\ loop' = "top" /\ crashes' = crashes
        /\ Restored(daily[Date(now)])
    BY <1>3 DEF Restore, Goes, history
  <2>2. CASE crashes = 0
    <3>1. Date(now) \in Dates
      <4>1. now \in Nat /\ MaxTime \in Nat /\ now <= MaxTime
        BY OrderAssumption DEF LoopInv, LoopTypeOK, TypeOK
      <4> QED
        BY <4>1, DatesAscend DEF Dates
    <3>2. UNCHANGED <<gov, session>>
      BY <2>1, <2>2, <3>1 DEF DayInv, Starting, Restored
    <3> QED
      BY <2>1, <3>2 DEF DayInv, BoundInv, DailyLossIsTodaysLoss, TodaysLossBounded,
                        Starting, StartPlaces
  <2> QED
    BY <2>1, <2>2 DEF DayInv, BoundInv
<1>4. ASSUME BeginTick PROVE Result
  <2>1. loop' = "fetch" /\ crashes' = crashes /\ Rollover
    BY <1>4 DEF BeginTick, Goes, history
  <2>2. CASE Date(now) = tradeDate
    BY <2>1, <2>2 DEF Rollover, DayInv, BoundInv, DailyLossIsTodaysLoss,
                      TodaysLossBounded, Starting, StartPlaces
  <2>3. CASE Date(now) # tradeDate
    <3>1. gov' = NextDay(gov) /\ session' = NewSession
      BY <2>1, <2>3 DEF Rollover
    <3>2. gov'.current - gov'.starting = 0 /\ session'.pnl = 0
      BY <1>1, <3>1 DEF NextDay, Governors, NewSession
    <3>3. DailyLossIsTodaysLoss'
      BY <3>2 DEF DailyLossIsTodaysLoss
    <3>4. MaxDailyLoss + MaxStake > 0 => TodaysLossBounded'
      BY <3>2 DEF TodaysLossBounded
    <3> QED
      BY <2>1, <3>3, <3>4 DEF DayInv, BoundInv, Starting, StartPlaces
  <2> QED
    BY <2>2, <2>3
<1>5. ASSUME NEW pl \in {-att.stake, att.gain}, PollSold(pl) PROVE Result
  <2>1. /\ loop = "polling" /\ loop' = "log" /\ crashes' = crashes
        /\ gov' = AfterResult(gov, pl)
        /\ session' = WithSettlement(session, pl > 0, pl) /\ RunnerSettles(pl)
    BY <1>5 DEF PollSold, RunnerSettles, Goes, history
  <2>2. pl \in Int
    BY <1>1, <2>1, SettlingKeepsType
  <2>3. gov'.current = gov.current + pl /\ gov'.starting = gov.starting
    BY <1>1, <2>1, <2>2, AfterResultFields
  <2>4. session'.pnl = session.pnl + pl
    BY <2>1 DEF WithSettlement
  <2>5. /\ gov.current \in Int /\ gov.starting \in Int /\ session.pnl \in Int
        /\ MaxDailyLoss \in Nat /\ MaxStake \in Nat
    BY <1>1, GovernorAssumption, GatesAssumption DEF Governors, Sessions
  <2>6. ASSUME DailyLossIsTodaysLoss
        PROVE  DailyLossIsTodaysLoss' /\ TodaysLossBounded'
    <3>1. DailyLossIsTodaysLoss'
      BY <2>2, <2>3, <2>4, <2>5, <2>6 DEF DailyLossIsTodaysLoss
    <3>2. WithinEveryLimit /\ att.stake \in 1..MaxStake /\ att.gain > 0
      BY <2>1 DEF PermitInv
    <3>3. -session.pnl < MaxDailyLoss
      BY <2>5, <2>6, <3>2
         DEF DailyLossIsTodaysLoss, WithinEveryLimit, DailyLoss, Larger
    <3>4. pl >= -MaxStake
      <4>1. att.stake \in Int /\ att.stake <= MaxStake
        BY <2>5, <3>2
      <4>2. CASE pl = -att.stake
        BY <2>5, <4>1, <4>2
      <4>3. CASE pl = att.gain
        BY <2>2, <2>5, <3>2, <4>3
      <4> QED
        BY <4>2, <4>3
    <3>5. -(session.pnl + pl) < MaxDailyLoss + MaxStake
      BY <2>2, <2>5, <3>3, <3>4
    <3> QED
      BY <2>4, <3>1, <3>5 DEF TodaysLossBounded
  <2> QED
    BY <2>1, <2>6 DEF DayInv, BoundInv, Starting, StartPlaces
<1>6. ASSUME SaveDailyState PROVE Result
  BY <1>6 DEF SaveDailyState, Goes, DayInv, BoundInv, DailyLossIsTodaysLoss,
              TodaysLossBounded, Starting, StartPlaces, omVars, locals, history
<1>7. ASSUME Crash PROVE Result
  <2>1. crashes' # 0
    BY <1>1, <1>7 DEF Crash
  <2> QED
    BY <2>1 DEF DayInv, BoundInv
<1> QED
  BY <1>2, <1>3, <1>4, <1>5, <1>6, <1>7, BookSteps

\* Until the process has died once, the loss held against the daily limit is
\* the day's loss in the statistics.  (The process that follows one that died
\* restores the statistics of the day, and not the balance it began with.)
THEOREM DailyLossAgrees == LoopSpec => [](crashes = 0 => DailyLossIsTodaysLoss)
<1>1. LoopInit => DayInv
  BY InitDayInv
<1>2. (LoopInv /\ PermitInv) /\ DayInv /\ [LoopNext]_vars => DayInv'
  BY NextDayInv
<1>3. DayInv => (crashes = 0 => DailyLossIsTodaysLoss)
  BY DEF DayInv
<1> QED
  BY <1>1, <1>2, <1>3, Permitted, PTL DEF LoopSpec

\* Until then, and if any loss or any stake is allowed at all, no day loses
\* its limit and one stake more.
THEOREM DailyLossBounded ==
    ASSUME MaxDailyLoss + MaxStake > 0
    PROVE  LoopSpec => [](crashes = 0 => TodaysLossBounded)
<1>1. LoopInit => DayInv /\ BoundInv
  <2>1. LoopInit => -session.pnl < MaxDailyLoss + MaxStake
    BY DEF LoopInit, NewSession
  <2> QED
    BY <2>1, InitDayInv DEF BoundInv, TodaysLossBounded
<1>2. (LoopInv /\ PermitInv) /\ DayInv /\ BoundInv /\ [LoopNext]_vars
        => DayInv' /\ BoundInv'
  BY NextDayInv
<1>3. BoundInv => (crashes = 0 => TodaysLossBounded)
  BY DEF BoundInv
<1> QED
  BY <1>1, <1>2, <1>3, Permitted, PTL DEF LoopSpec

\* No row is filed under a date the loop has not come to.
RowInv == /\ SavedRowIsCurrent
          /\ \A d \in Dates : d > tradeDate => daily[d] = NoRow

\* It holds initially, when nothing is saved.
LEMMA InitRowInv == LoopInit => RowInv
<1> SUFFICES ASSUME LoopInit PROVE RowInv
  OBVIOUS
<1>1. daily = [d \in Dates |-> NoRow] /\ loop = "down"
  BY DEF LoopInit
<1> QED
  BY <1>1 DEF RowInv, SavedRowIsCurrent, InTick

\* Every step keeps it.
LEMMA NextRowInv ==
    ASSUME LoopInv, RowInv, [LoopNext]_vars PROVE RowInv'
<1>1. /\ gov \in Governors /\ session \in Sessions /\ tradeDate \in Dates
      /\ daily \in [Dates -> Rows \cup {NoRow}]
      /\ tradeDate \in Nat /\ tradeDate <= Date(now)
      /\ loop \in SavedPlaces => daily[tradeDate] \in {NoRow, Row}
      /\ \A d \in Dates : d > tradeDate => daily[d] = NoRow
  BY DEF LoopInv, LoopTypeOK, TypeOK, Dates, RowInv, SavedRowIsCurrent, InTick,
         SavedPlaces
<1>2. Date(now) \in Dates /\ Date(now) \in Nat
  <2>1. now \in Nat /\ MaxTime \in Nat /\ now <= MaxTime
    BY OrderAssumption DEF LoopInv, LoopTypeOK, TypeOK
  <2> QED
    BY <2>1, DatesAscend DEF Dates
<1> SUFFICES /\ loop' \in SavedPlaces => daily'[tradeDate'] \in {NoRow, Row'}
             /\ \A d \in Dates : d > tradeDate' => daily'[d] = NoRow
  BY DEF RowInv, SavedRowIsCurrent, InTick, SavedPlaces
<1>3. CASE BooksUntouched
  <2>1. Row' = Row
    BY <1>3 DEF BooksUntouched, Row
  <2> QED
    BY <1>1, <1>3, <2>1 DEF BooksUntouched
<1>4. CASE Restore
  <2>1. /\ tradeDate' = Date(now) /\ daily' = daily
        /\ Restored(daily[Date(now)])
    BY <1>4 DEF Restore, database
  <2>2. daily[Date(now)] \in {NoRow, Row'}
    <3> DEFINE row == daily[Date(now)]
    <3>1. CASE row = NoRow
      BY <3>1
    <3>2. CASE row # NoRow
      <4>1. row \in Rows
        BY <1>1, <1>2, <3>2
      <4>2. gov' = Loaded(gov, row.gov) /\ session' = row.session
        BY <2>1, <3>2 DEF Restored
      <4>3. SnapshotOf(gov') = row.gov
        BY <1>1, <4>1, <4>2, SnapshotFields DEF Rows
      <4>4. row = [gov |-> row.gov, session |-> row.session]
        BY <4>1 DEF Rows
      <4>5. Row' = [gov |-> SnapshotOf(gov'), session |-> session']
        BY DEF Row, SnapshotOf
      <4> QED
        BY <4>2, <4>3, <4>4, <4>5
    <3> QED
      BY <3>1, <3>2
  <2>3. \A d \in Dates : d > Date(now) => d > tradeDate
    BY <1>1, <1>2 DEF Dates
  <2> QED
    BY <1>1, <2>1, <2>2, <2>3
<1>5. CASE BeginTick
  <2>1. daily' = daily /\ loop = "top" /\ Rollover
    BY <1>5 DEF BeginTick, database
  <2>2. CASE Date(now) = tradeDate
    <3>1. UNCHANGED <<gov, session, tradeDate>>
      BY <2>1, <2>2 DEF Rollover
    <3>2. Row' = Row
      BY <3>1 DEF Row
    <3> QED
      BY <1>1, <2>1, <3>1, <3>2 DEF SavedPlaces
  <2>3. CASE Date(now) # tradeDate
    <3>1. tradeDate' = Date(now) /\ Date(now) > tradeDate
      BY <1>1, <1>2, <2>1, <2>3 DEF Rollover
    <3>2. \A d \in Dates : d > Date(now) => d > tradeDate
      BY <1>1, <1>2, <3>1 DEF Dates
    <3> QED
      BY <1>1, <1>2, <2>1, <3>1, <3>2
  <2> QED
    BY <2>2, <2>3
<1>6. CASE \E pl \in {-att.stake, att.gain} : PollSold(pl)
  <2>1. loop' = "log" /\ UNCHANGED <<tradeDate, daily>>
    BY <1>6 DEF PollSold, Goes, database
  <2> QED
    BY <1>1, <2>1 DEF SavedPlaces
<1>7. CASE SaveDailyState
  <2>1. /\ daily' = [daily EXCEPT ![tradeDate] = Row]
        /\ UNCHANGED <<gov, session, tradeDate>>
    BY <1>7 DEF SaveDailyState, omVars, locals
  <2>2. Row' = Row
    BY <2>1 DEF Row
  <2> QED
    BY <1>1, <2>1, <2>2
<1>8. CASE Crash
  <2>1. loop' = "down" /\ UNCHANGED <<tradeDate, daily>>
    BY <1>8 DEF Crash, database
  <2> QED
    BY <1>1, <2>1 DEF SavedPlaces
<1> QED
  BY <1>3, <1>4, <1>5, <1>6, <1>7, <1>8, BookSteps

\* Between two bookings a row that exists for the date the loop works under
\* is what memory holds, across midnights, pauses and restarts.
THEOREM RowsAreCurrent == LoopSpec => []SavedRowIsCurrent
<1>1. LoopInit => LoopInv /\ RowInv
  BY InitLoopInv, InitRowInv
<1>2. LoopInv /\ RowInv /\ [LoopNext]_vars => LoopInv' /\ RowInv'
  BY NextLoopInv, NextRowInv
<1>3. RowInv => SavedRowIsCurrent
  BY DEF RowInv
<1> QED
  BY <1>1, <1>2, <1>3, PTL DEF LoopSpec

-----------------------------------------------------------------------------
(* Open contracts.                                                         *)

\* Where no contract is open, nor on its way.
Calm == \/ loop \in Starting \cup {"top", "sleep", "fetch", "evaluate", "finish", "alerts"}
        \/ stage = "proposal"

Filled(n) == Cardinality(filled) = Len(log) + dropped + n

\* A request is undecided, dropped or filled; once the trade is recorded it
\* is filled, and remains one contract too many until it is booked.
OpenInv ==
    /\ IsFiniteSet(filled) /\ \A o \in wire \cup filled : o.id < nextOrder
    /\ crashes = 0 =>
        /\ Calm => wire = {} /\ Filled(0)
        /\ stage = "buy" =>
             \/ wire \subseteq {MyOrder} /\ MyOrder \notin filled /\ Filled(0)
             \/ wire = {} /\ Filled(1)
        /\ loop \in {"placed", "polling", "log"} => wire = {} /\ Filled(1)

\* It holds initially, when nothing is open.
LEMMA InitOpenInv == LoopInit => OpenInv
<1> SUFFICES ASSUME LoopInit PROVE OpenInv
  OBVIOUS
<1>1. /\ wire = {} /\ filled = {} /\ log = << >> /\ dropped = 0
      /\ loop = "down" /\ stage = "idle"
  BY DEF LoopInit, Init
<1>2. IsFiniteSet({}) /\ Cardinality({}) = 0
  BY FS_EmptySet
<1>3. Filled(0)
  BY <1>1, <1>2 DEF Filled
<1> QED
  BY <1>1, <1>2, <1>3 DEF OpenInv

\* Every step keeps it.
LEMMA NextOpenInv ==
    ASSUME LoopInv, OpenInv, [LoopNext]_vars PROVE OpenInv'
<1>1. /\ PlaceInv /\ crashes \in Nat /\ Len(log) \in Nat /\ dropped \in Nat
      /\ log \in Seq(Int) /\ nextOrder \in Nat /\ filled \subseteq Orders
      /\ wire \subseteq Orders /\ Cardinality(filled) \in Nat
  BY LoopAssumption, FS_CardinalityType DEF LoopInv, LoopTypeOK, TypeOK, OpenInv
<1>2. /\ IsFiniteSet(filled) /\ \A o \in wire \cup filled : o.id < nextOrder
  BY DEF OpenInv
<1>3. ASSUME UNCHANGED <<broker, log, dropped, crashes>>, stage' = "idle",
             Calm' => Calm,
             loop' \in {"placed", "polling", "log"} => loop \in {"placed", "polling", "log"}
      PROVE  OpenInv'
  <2>1. \A n : Filled(n)' <=> Filled(n)
    BY <1>3 DEF Filled, broker
  <2> QED
    BY <1>2, <1>3, <2>1 DEF OpenInv, broker
<1>4. CASE Quiet
  <2>1. /\ UNCHANGED <<broker, log, dropped, crashes, stage>> /\ stage = "idle"
    BY <1>1, <1>4 DEF Quiet, PlaceInv, history
  <2>2. /\ Calm' => Calm
        /\ loop' \in {"placed", "polling", "log"} => loop \in {"placed", "polling", "log"}
    BY <1>4, <2>1 DEF Quiet, Arc, Calm, Starting, StartPlaces
  <2> QED
    BY <1>3, <2>1, <2>2
<1>5. CASE Restore \/ BeginTick \/ SaveDailyState
  <2>1. /\ loop \in {"restore", "top", "finish"} /\ loop' \in {"top", "fetch", "alerts"}
        /\ UNCHANGED <<broker, log, dropped, crashes, stage>>
    BY <1>5 DEF Restore, BeginTick, SaveDailyState, Goes, broker, database, history,
                omVars
  <2> QED
    BY <1>1, <1>3, <2>1 DEF PlaceInv, Calm, Starting
<1>6. CASE \E pl \in {-att.stake, att.gain} : PollSold(pl)
  <2>1. /\ loop = "polling" /\ loop' = "log"
        /\ UNCHANGED <<broker, log, dropped, crashes, stage>>
    BY <1>6 DEF PollSold, RunnerSettles, Goes, database, history
  <2> QED
    BY <1>1, <1>3, <2>1 DEF PlaceInv, Calm, Starting, StartPlaces
<1>7. CASE Evaluate
  <2>1. /\ loop = "evaluate" /\ UNCHANGED <<broker, database, history>>
        /\ stage' = "proposal" \/ stage' = "idle"
        /\ loop' \in {"attempt", "finish"}
    BY <1>7, EvaluateSteps
  <2>2. Calm /\ UNCHANGED <<wire, filled, nextOrder, log, dropped, crashes>>
    BY <2>1 DEF Calm, broker, database, history
  <2>3. \A n : Filled(n)' <=> Filled(n)
    BY <2>2 DEF Filled
  <2> QED
    BY <1>2, <2>1, <2>2, <2>3 DEF OpenInv
<1>8. ASSUME NEW d \in Delays, InTime(d), Await(d) PROVE OpenInv'
  <2>1. /\ loop = "attempt" /\ UNCHANGED <<database, dropped, crashes>>
        /\ Returns \/ \E gain \in Gains : Sends(gain)
    BY <1>8, AwaitSteps
  <2>2. UNCHANGED <<log, dropped, crashes>>
    BY <2>1 DEF database
  <2>3. ASSUME NEW gain \in Gains, Sends(gain) PROVE OpenInv'
    <3> DEFINE o == [id |-> nextOrder, signal |-> att.signal]
    <3>1. /\ stage = "proposal" /\ stage' = "buy" /\ loop' = "attempt"
          /\ wire' = wire \cup {o} /\ filled' = filled
          /\ nextOrder' = nextOrder + 1
      BY <2>3, Zenon DEF Sends
    <3>2. MyOrder' = o
      BY <2>1, <2>3, SentAttempt DEF MyOrder
    <3>3. o \notin filled /\ o.id = nextOrder
      BY <1>1, <1>2
    <3>4. \A p \in wire \cup filled : p.id \in Nat
      BY <1>1, OrderAssumption DEF Orders
    <3> HIDE DEF o
    <3>5. \A p \in wire' \cup filled' : p.id < nextOrder'
      BY <1>1, <1>2, <3>1, <3>3, <3>4
    <3>6. crashes = 0 => wire = {} /\ Filled(0)
      BY <3>1 DEF OpenInv, Calm
    <3>7. Filled(0)' <=> Filled(0)
      BY <2>2, <3>1 DEF Filled
    <3>8. ~Calm'
      BY <3>1 DEF Calm, Starting, StartPlaces
    <3> QED
      BY <1>2, <2>2, <3>1, <3>2, <3>3, <3>5, <3>6, <3>7, <3>8 DEF OpenInv
  <2>4. CASE Returns
    <3>1. UNCHANGED <<broker, wire, filled, nextOrder>> /\ stage' = "idle"
      BY <2>4 DEF Returns, broker
    <3>2. CASE loop' = "placed"
      <4>1. MyOrder \in filled /\ stage = "buy"
        BY <2>4, <3>2 DEF Returns
      <4>2. crashes = 0 => wire = {} /\ Filled(1)
        BY <4>1 DEF OpenInv
      <4>3. Filled(1)' <=> Filled(1)
        BY <2>2, <3>1 DEF Filled
      <4>4. ~Calm'
        BY <3>1, <3>2 DEF Calm, Starting, StartPlaces
      <4> QED
        BY <1>2, <2>2, <3>1, <3>2, <4>2, <4>3, <4>4 DEF OpenInv
    <3>3. CASE loop' # "placed"
      <4>1. loop' = "fatal" \/ (loop' = "finish" /\ stage = "proposal")
        BY <2>4, <3>3 DEF Returns
      <4>2. Calm' => Calm
        BY <3>1, <4>1 DEF Calm, Starting, StartPlaces
      <4> QED
        BY <1>3, <2>2, <3>1, <4>1, <4>2
    <3> QED
      BY <3>2, <3>3
  <2> QED
    BY <2>1, <2>3, <2>4
<1>9. CASE PollUnclear \/ \E next \in {"finish", "fatal"} : LogTrade(next)
  <2>1. /\ loop \in {"polling", "log"} /\ loop' \in {"finish", "fatal"}
        /\ UNCHANGED <<wire, filled, nextOrder, stage, crashes>>
    BY <1>9 DEF PollUnclear, LogTrade, Goes, broker, omVars, history
  <2>2. Len(log') + dropped' = Len(log) + dropped + 1
    <3>1. CASE PollUnclear
      <4>1. log' = log /\ dropped' = dropped + 1
        BY <3>1 DEF PollUnclear, database
      <4> QED
        BY <1>1, <4>1
    <3>2. CASE ~PollUnclear
      <4>1. log' = Append(log, profit) /\ dropped' = dropped /\ profit \in Int
        BY <1>9, <3>2 DEF LogTrade, history, LoopInv, LoopTypeOK
      <4>2. Len(log') = Len(log) + 1
        BY <1>1, <4>1
      <4> QED
        BY <1>1, <4>1, <4>2
    <3> QED
      BY <3>1, <3>2
  <2>3. Filled(0)' <=> Filled(1)
    BY <1>1, <2>1, <2>2 DEF Filled
  <2>4. stage' = "idle"
    BY <1>1, <2>1 DEF PlaceInv
  <2> QED
    BY <1>2, <2>1, <2>3, <2>4 DEF OpenInv
<1>10. CASE Crash
  <2>1. UNCHANGED <<wire, filled, nextOrder>> /\ crashes' # 0
    BY <1>1, <1>10 DEF Crash, broker
  <2> QED
    BY <1>2, <2>1 DEF OpenInv
<1>11. CASE (\E on \in BOOLEAN : SetRunning(on)) \/ UNCHANGED vars
  <2>1. UNCHANGED <<wire, filled, nextOrder, log, dropped, crashes, loop, stage, att>>
    BY <1>11 DEF SetRunning, vars, omVars, loopVars, broker, database, history
  <2>2. \A n : Filled(n)' <=> Filled(n)
    BY <2>1 DEF Filled
  <2> QED
    BY <2>1, <2>2 DEF OpenInv, Calm, MyOrder
<1>12. CASE BrokerActs
  <2>1. /\ UNCHANGED <<nextOrder, log, dropped, crashes, loop, stage, att>>
    BY <1>12 DEF BrokerActs, BrokerFills, BrokerDrops, loopVars, database, history
  <2>2. PICK o \in wire : wire' = wire \ {o} /\ filled' \in {filled, filled \cup {o}}
    BY <1>12 DEF BrokerActs, BrokerFills, BrokerDrops
  <2>3. /\ IsFiniteSet(filled')
        /\ o \notin filled /\ filled' # filled
             => Cardinality(filled') = Cardinality(filled) + 1
    BY <1>2, <2>2, FS_AddElement
  <2>4. \A p \in wire' \cup filled' : p.id < nextOrder'
    BY <1>2, <2>1, <2>2
  <2>5. CASE crashes = 0
    <3>1. /\ ~Calm /\ loop \notin {"placed", "polling", "log"}
          /\ stage = "buy" => wire = {MyOrder} /\ MyOrder \notin filled /\ Filled(0)
      BY <2>2, <2>5 DEF OpenInv
    <3>2. stage = "buy" => /\ wire' = {}
                           /\ \/ MyOrder \notin filled' /\ Filled(0)'
                              \/ Filled(1)'
      <4> SUFFICES ASSUME stage = "buy" PROVE <3>2!2
        OBVIOUS
      <4>1. o = MyOrder /\ wire' = {}
        BY <2>2, <3>1
      <4>2. CASE filled' = filled
        BY <2>1, <3>1, <4>1, <4>2 DEF Filled
      <4>3. CASE filled' # filled
        BY <1>1, <2>1, <2>3, <3>1, <4>1, <4>3 DEF Filled
      <4> QED
        BY <4>1, <4>2, <4>3
    <3>3. ~Calm' /\ MyOrder' = MyOrder
      BY <2>1, <3>1 DEF Calm, MyOrder
    <3> QED
      BY <2>1, <2>3, <2>4, <3>1, <3>2, <3>3 DEF OpenInv
  <2>6. CASE crashes # 0
    BY <2>1, <2>3, <2>4, <2>6 DEF OpenInv
  <2> QED
    BY <2>5, <2>6
<1> QED
  BY <1>4, <1>5, <1>6, <1>7, <1>8, <1>9, <1>10, <1>11, <1>12, LoopSteps

\* Until the process dies, the loop comes back for another trade only with
\* every contract it bought in the log, or sold without a result.
THEOREM NothingStaysOpen == LoopSpec => []NothingLeftOpen
<1>1. LoopInit => LoopInv /\ OpenInv
  BY InitLoopInv, InitOpenInv
<1>2. LoopInv /\ OpenInv /\ [LoopNext]_vars => LoopInv' /\ OpenInv'
  BY NextLoopInv, NextOpenInv
<1>3. LoopInv /\ OpenInv => NothingLeftOpen
  <2> SUFFICES ASSUME LoopInv, OpenInv, crashes = 0,
                      loop \in {"top", "sleep", "fetch", "evaluate"}
               PROVE  wire = {} /\ Cardinality(filled) = Len(log) + dropped
    BY DEF NothingLeftOpen
  <2>1. wire = {} /\ Filled(0)
    BY DEF OpenInv, Calm
  <2>2. Len(log) \in Nat /\ dropped \in Nat
    BY DEF LoopInv, LoopTypeOK
  <2> QED
    BY <2>1, <2>2 DEF Filled
<1> QED
  BY <1>1, <1>2, <1>3, PTL DEF LoopSpec

-----------------------------------------------------------------------------
(* The trade log and the rows saved.                                       *)

\* What is saved of trades, as a sum over a set of days.
RowDates(r) == {d \in Dates : r[d] # NoRow}
Total(r) == MapThenSumSet(LAMBDA d : r[d].session.trades, RowDates(r))
TradesOf(r, d) == IF r[d] = NoRow THEN 0 ELSE r[d].session.trades

\* That total is a sum in the sense of the lemmas about sums.
LEMMA TotalIsSum ==
    ASSUME NEW r
    PROVE  /\ IsFiniteSet(RowDates(r))
           /\ Total(r) = SumOf([d \in RowDates(r) |-> r[d].session.trades], RowDates(r))
<1> DEFINE S == RowDates(r)
           g(d) == r[d].session.trades
           f == [d \in S |-> g(d)]
           E(h) == h = [s \in SUBSET S |->
                          IF s = {} THEN 0 ELSE g(Some(s)) + h[s \ {Some(s)}]]
           iter == CHOOSE h : E(h)
<1>1. IsFiniteSet(S)
  <2>1. DaySpan \in Nat /\ DaySpan > 0 /\ MaxTime \in Nat
    BY GatesAssumption, LoopAssumption, OrderAssumption
  <2>2. Date(MaxTime) \in Nat
    BY <2>1, DatesAscend
  <2>3. IsFiniteSet(Dates)
    BY <2>2, FS_Interval DEF Dates
  <2>4. S \in SUBSET Dates
    BY DEF RowDates
  <2> QED
    BY <2>3, <2>4, FS_Subset
<1> HIDE DEF S
<1>2. \A h : E(h) <=> Sums(h, f, S)
  <2>1. \A s \in SUBSET S : s # {} => f[Some(s)] = g(Some(s))
    BY SomeIsElement
  <2> HIDE DEF g
  <2> QED
    BY <2>1 DEF Sums
<1>3. E(iter)
  <2>1. \E h : E(h)
    BY <1>1, <1>2, SumsExist
  <2> QED
    BY <2>1, Zenon
<1>4. Total(r) = iter[S]
  BY Zenon DEF Total, S, MapThenSumSet, MapThenFoldSet, Some
<1>5. Sums(iter, f, S)
  BY <1>2, <1>3
<1> HIDE DEF iter, f
<1>6. SumOf(f, S) = iter[S]
  BY <1>1, <1>5, TablesAgree
<1> QED
  BY <1>1, <1>4, <1>6 DEF f, S

\* Filing a row under a date changes the sum by what the row has more than
\* the one it replaces.
LEMMA TotalChanges ==
    ASSUME NEW r \in [Dates -> Rows \cup {NoRow}], NEW day \in Dates, NEW row \in Rows
    PROVE  /\ Total(r) \in Int /\ TradesOf(r, day) \in Int
           /\ Total([r EXCEPT ![day] = row])
                = Total(r) + (row.session.trades - TradesOf(r, day))
<1> DEFINE q == [r EXCEPT ![day] = row]
           S == RowDates(r)
           Q == RowDates(q)
           U == S \ {day}
           f == [d \in S |-> r[d].session.trades]
           g == [d \in Q |-> q[d].session.trades]
<1>1. q \in [Dates -> Rows \cup {NoRow}] /\ q[day] = row
      /\ \A d \in Dates : d # day => q[d] = r[d]
  OBVIOUS
<1>2. \A x \in Rows : x.session.trades \in Int
  BY DEF Rows, Sessions
<1>3. /\ IsFiniteSet(S) /\ Total(r) = SumOf(f, S)
      /\ IsFiniteSet(Q) /\ Total(q) = SumOf(g, Q)
  BY TotalIsSum
<1> HIDE DEF q
<1>4. row # NoRow /\ day \in Q /\ day \notin U /\ Q = U \cup {day} /\ U \subseteq S
  BY <1>1, RowAssumption DEF RowDates
<1>5. /\ \A d \in S : f[d] = r[d].session.trades /\ f[d] \in Int
      /\ \A d \in Q : g[d] = q[d].session.trades /\ g[d] \in Int
  <2>1. /\ \A d \in S : d \in Dates /\ r[d] \in Rows
        /\ \A d \in Q : d \in Dates /\ q[d] \in Rows
    BY <1>1 DEF RowDates
  <2> QED
    BY <1>2, <2>1
<1>6. \A d \in U : f[d] = g[d]
  BY <1>1, <1>4, <1>5 DEF RowDates
<1>7. day \in S <=> r[day] # NoRow
  BY DEF RowDates
<1> HIDE DEF f, g, S, Q, U
<1>8. IsFiniteSet(U)
  BY <1>3, <1>4, FS_Subset
<1>9. SumOf(f, U) = SumOf(g, U) /\ SumOf(f, U) \in Int /\ SumOf(f, S) \in Int
  <2>1. SumOf(f, U) = SumOf(g, U)
    BY <1>6, <1>8, SumOfSame
  <2>2. \A d \in U : f[d] \in Int
    BY <1>4, <1>5
  <2>3. SumOf(f, U) \in Int
    BY <1>8, <2>2, SumOfIntegers
  <2>4. SumOf(f, S) \in Int
    BY <1>3, <1>5, SumOfIntegers
  <2> QED
    BY <2>1, <2>3, <2>4
<1>10. SumOf(g, Q) = g[day] + SumOf(g, U)
  <2>1. \A d \in U \cup {day} : g[d] \in Int
    BY <1>4, <1>5
  <2>2. SumOf(g, U \cup {day}) = g[day] + SumOf(g, U)
    BY <1>4, <1>8, <2>1, SumOfOneMore
  <2> QED
    BY <1>4, <2>2
<1>11. SumOf(f, S) = TradesOf(r, day) + SumOf(f, U) /\ TradesOf(r, day) \in Int
  <2>1. CASE r[day] = NoRow
    <3>1. U = S
      BY <1>7, <2>1 DEF U
    <3>2. TradesOf(r, day) = 0
      BY <2>1 DEF TradesOf
    <3> QED
      BY <1>9, <3>1, <3>2
  <2>2. CASE r[day] # NoRow
    <3>1. S = U \cup {day} /\ day \in S
      BY <1>7, <2>2 DEF U
    <3>2. \A d \in U \cup {day} : f[d] \in Int
      BY <1>5, <3>1
    <3>3. SumOf(f, U \cup {day}) = f[day] + SumOf(f, U)
      BY <1>4, <1>8, <3>2, SumOfOneMore
    <3>4. TradesOf(r, day) = f[day]
      BY <1>5, <2>2, <3>1 DEF TradesOf
    <3> QED
      BY <1>5, <3>1, <3>3, <3>4
  <2> QED
    BY <2>1, <2>2
<1>12. g[day] = row.session.trades /\ row.session.trades \in Int
  BY <1>1, <1>2, <1>4, <1>5
<1> QED
  BY <1>3, <1>9, <1>10, <1>11, <1>12 DEF q

\* Trades of the day that are not saved yet, and rows of the log that the
\* saved trades do not account for.
Unsaved == session.trades - TradesOf(daily, tradeDate)
Missing == Len(log) - Total(daily)

\* A process leaves one row of the log at most without a saved trade.
LogInv ==
    /\ loop \in SavedPlaces => Unsaved = 0
    /\ loop = "log" => Unsaved = 1
    /\ loop = "finish" => Unsaved \in {0, 1} /\ Missing - Unsaved \in 0..crashes
    /\ loop = "fatal" => Missing \in 0..(crashes + 1)
    /\ loop \notin {"finish", "fatal"} => Missing \in 0..crashes

\* It holds initially, when the log is empty.
LEMMA InitLogInv == LoopInit => LogInv
<1> SUFFICES ASSUME LoopInit PROVE LogInv
  OBVIOUS
<1>1. /\ loop = "down" /\ log = << >> /\ crashes = 0
      /\ daily = [d \in Dates |-> NoRow]
  BY DEF LoopInit
<1>2. RowDates(daily) = {}
  BY <1>1 DEF RowDates
<1>3. Total(daily) = 0
  BY <1>2, TotalIsSum, SumOfNothing
<1> QED
  BY <1>1, <1>3 DEF LogInv, Missing, SavedPlaces

\* What counts trades is left alone by all but seven kinds of step.
LogUntouched ==
    /\ UNCHANGED <<session, tradeDate, daily, log, crashes>>
    /\ loop' \in SavedPlaces => loop \in SavedPlaces
    /\ loop' = "log" => loop = "log"
    /\ loop' = "finish" => loop \in SavedPlaces \cup {"finish"}
    /\ loop = "finish" => loop' \in {"finish", "fatal"}
    /\ loop = "fatal" => loop' = "fatal"

\* The steps that touch the log, the rows or what is owed between them.
LEMMA LogSteps ==
    ASSUME LoopInv, [LoopNext]_vars
    PROVE  \/ LogUntouched
           \/ Restore \/ BeginTick
           \/ \E pl \in {-att.stake, att.gain} : PollSold(pl)
           \/ \E next \in {"finish", "fatal"} : LogTrade(next)
           \/ SaveDailyState \/ Crash
<1>1. ASSUME Quiet PROVE LogUntouched
  BY <1>1 DEF Quiet, Arc, LogUntouched, Starting, StartPlaces, SavedPlaces, history
<1>2. ASSUME Evaluate PROVE LogUntouched
  <2>1. /\ loop = "evaluate" /\ loop' \in {"attempt", "finish"}
        /\ UNCHANGED <<locals, database, history>>
    BY <1>2, EvaluateSteps
  <2> QED
    BY <2>1 DEF LogUntouched, SavedPlaces, locals, database, history
<1>3. ASSUME NEW d \in Delays, InTime(d), Await(d) PROVE LogUntouched
  <2>1. /\ loop = "attempt" /\ UNCHANGED <<gov, locals, database, dropped, crashes>>
        /\ Returns \/ \E gain \in Gains : Sends(gain)
    BY <1>3, AwaitSteps
  <2>2. ASSUME NEW gain \in Gains, Sends(gain) PROVE loop' = "attempt"
    BY <2>2, Zenon DEF Sends
  <2>3. loop' # "log"
    BY <2>1, <2>2 DEF Returns
  <2> QED
    BY <2>1, <2>3 DEF LogUntouched, SavedPlaces, locals, database
<1>4. ASSUME PollUnclear PROVE LogUntouched
  BY <1>4 DEF PollUnclear, Goes, LogUntouched, SavedPlaces, locals, database
<1>5. ASSUME (\E on \in BOOLEAN : SetRunning(on)) \/ BrokerActs \/ UNCHANGED vars
      PROVE  LogUntouched
  BY <1>5 DEF SetRunning, BrokerActs, BrokerFills, BrokerDrops, LogUntouched,
              vars, omVars, loopVars, locals, database, history
<1> QED
  BY <1>1, <1>2, <1>3, <1>4, <1>5, LoopSteps

\* Every step keeps it.
LEMMA NextLogInv ==
    ASSUME LoopInv, RowInv, LogInv, [LoopNext]_vars PROVE LogInv'
<1>1. /\ session \in Sessions /\ tradeDate \in Dates /\ tradeDate <= Date(now)
      /\ daily \in [Dates -> Rows \cup {NoRow}] /\ log \in Seq(Int)
      /\ crashes \in Nat /\ gov \in Governors
      /\ \A d \in Dates : d > tradeDate => daily[d] = NoRow
  BY LoopAssumption DEF LoopInv, LoopTypeOK, TypeOK, RowInv
<1>2. Len(log) \in Nat /\ session.trades \in Int /\ Row \in Rows
      /\ Row.session = session
  BY <1>1, SnapshotFields DEF Sessions, Row, Rows
<1>3. Total(daily) \in Int /\ TradesOf(daily, tradeDate) \in Int
  BY <1>1, <1>2, TotalChanges
<1>4. Missing \in Int /\ Unsaved \in Int
  BY <1>2, <1>3 DEF Missing, Unsaved
<1>5. CASE LogUntouched
  <2>1. Missing' = Missing /\ Unsaved' = Unsaved /\ crashes' = crashes
    BY <1>5 DEF LogUntouched, Missing, Unsaved
  <2>2. loop' \in {"fatal"} /\ loop = "finish" => Missing \in 0..(crashes + 1)
    BY <1>1, <1>4 DEF LogInv
  <2>3. Missing \in 0..crashes => Missing \in 0..(crashes + 1)
    BY <1>1, <1>4
  <2>4. loop' = "finish" /\ loop # "finish"
          => Unsaved \in {0, 1} /\ Missing - Unsaved \in 0..crashes
    BY <1>4, <1>5 DEF LogUntouched, LogInv, SavedPlaces
  <2> QED
    BY <1>5, <2>1, <2>2, <2>3, <2>4 DEF LogUntouched, LogInv
<1>6. CASE Restore
  <2>1. /\ tradeDate' = Date(now) /\ UNCHANGED <<daily, log, crashes>>
        /\ Restored(daily[Date(now)]) /\ loop = "restore" /\ loop' = "top"
    BY <1>6 DEF Restore, Goes, database, history
  <2>2. session = NewSession
    BY <2>1 DEF LoopInv, PlaceInv, Starting
  <2>3. session'.trades = TradesOf(daily, Date(now))
    BY <2>1, <2>2 DEF Restored, NewSession, TradesOf
  <2>4. Missing' = Missing /\ Missing \in 0..crashes
    BY <2>1 DEF Missing, LogInv
  <2>5. session'.trades \in Int
    BY NextLoopInv DEF LoopInv, LoopTypeOK, Sessions
  <2>6. Unsaved' = 0
    BY <2>1, <2>3, <2>5 DEF Unsaved
  <2> QED
    BY <2>1, <2>4, <2>6 DEF LogInv
<1>7. CASE BeginTick
  <2>1. /\ loop = "top" /\ loop' = "fetch" /\ Rollover
        /\ UNCHANGED <<daily, log, crashes>>
    BY <1>7 DEF BeginTick, Goes, database, history
  <2>2. Missing' = Missing /\ Missing \in 0..crashes
    BY <2>1 DEF Missing, LogInv
  <2>3. Unsaved' = 0
    <3>1. CASE Date(now) = tradeDate
      BY <2>1, <3>1 DEF Rollover, Unsaved, LogInv, SavedPlaces
    <3>2. CASE Date(now) # tradeDate
      <4>1. tradeDate' = Date(now) /\ session' = NewSession
        BY <2>1, <3>2 DEF Rollover
      <4>2. Date(now) \in Dates /\ Date(now) > tradeDate
        BY <1>1, <3>2, <4>1, NextLoopInv DEF LoopInv, LoopTypeOK, Dates
      <4>3. daily[Date(now)] = NoRow
        BY <1>1, <4>2
      <4> QED
        BY <2>1, <4>1, <4>3 DEF Unsaved, TradesOf, NewSession
    <3> QED
      BY <3>1, <3>2
  <2> QED
    BY <2>1, <2>2, <2>3 DEF LogInv
<1>8. ASSUME NEW pl, PollSold(pl) PROVE LogInv'
  <2>1. /\ loop = "polling" /\ loop' = "log" /\ session'.trades = session.trades + 1
        /\ UNCHANGED <<tradeDate, daily, log, crashes>>
    BY <1>8 DEF PollSold, WithSettlement, Goes, database, history
  <2>2. Unsaved = 0 /\ Missing \in 0..crashes
    BY <2>1 DEF LogInv, SavedPlaces
  <2>3. Unsaved' = 1 /\ Missing' = Missing
    BY <1>2, <1>3, <2>1, <2>2 DEF Unsaved, Missing
  <2> QED
    BY <2>1, <2>2, <2>3 DEF LogInv, SavedPlaces
<1>9. ASSUME NEW next \in {"finish", "fatal"}, LogTrade(next) PROVE LogInv'
  <2>1. /\ loop = "log" /\ loop' = next /\ Len(log') = Len(log) + 1
        /\ UNCHANGED <<session, tradeDate, daily, crashes>>
    BY <1>1, <1>9 DEF LogTrade, Goes, locals, history
  <2>2. Unsaved = 1 /\ Missing \in 0..crashes
    BY <2>1 DEF LogInv
  <2>3. Unsaved' = 1 /\ Missing' = Missing + 1
    BY <1>2, <1>3, <2>1, <2>2 DEF Unsaved, Missing
  <2>4. Missing' - Unsaved' \in 0..crashes /\ Missing' \in 0..(crashes + 1)
    BY <1>1, <2>2, <2>3
  <2> QED
    BY <2>1, <2>3, <2>4 DEF LogInv, SavedPlaces
<1>10. CASE SaveDailyState
  <2>1. /\ loop = "finish" /\ loop' = "alerts"
        /\ daily' = [daily EXCEPT ![tradeDate] = Row]
        /\ UNCHANGED <<session, tradeDate, log, crashes>>
    BY <1>10 DEF SaveDailyState, Goes, locals, history
  <2>2. Total(daily') = Total(daily) + (session.trades - TradesOf(daily, tradeDate))
    BY <1>1, <1>2, <2>1, TotalChanges
  <2>3. Missing' = Missing - Unsaved /\ Missing - Unsaved \in 0..crashes
    BY <1>2, <1>3, <2>1, <2>2 DEF Missing, Unsaved, LogInv
  <2>4. TradesOf(daily, tradeDate)' = session.trades
    BY <1>1, <1>2, <2>1, RowAssumption DEF TradesOf
  <2>5. Unsaved' = 0
    BY <1>2, <2>1, <2>4 DEF Unsaved
  <2> QED
    BY <2>1, <2>3, <2>5 DEF LogInv, SavedPlaces
<1>11. CASE Crash
  <2>1. loop' = "down" /\ crashes' = crashes + 1 /\ UNCHANGED <<daily, log>>
    BY <1>11 DEF Crash, database
  <2>2. Missing' = Missing
    BY <2>1 DEF Missing
  <2>3. Missing \in 0..(crashes + 1)
    BY <1>1, <1>4 DEF LogInv
  <2> QED
    BY <2>1, <2>2, <2>3 DEF LogInv, SavedPlaces
<1> QED
  BY <1>5, <1>6, <1>7, <1>8, <1>9, <1>10, <1>11, LogSteps

\* The trade log holds what was saved of trades, and beyond it one row at most
\* for each process that died or stopped before it saved.
THEOREM LogAndRowsAgree == LoopSpec => []LogAgreesWithRows
<1>1. LoopInit => LoopInv /\ RowInv /\ LogInv
  BY InitLoopInv, InitRowInv, InitLogInv
<1>2. LoopInv /\ RowInv /\ LogInv /\ [LoopNext]_vars => LoopInv' /\ RowInv' /\ LogInv'
  BY NextLoopInv, NextRowInv, NextLogInv
<1>3. LoopInv /\ LogInv => LogAgreesWithRows
  <2> SUFFICES ASSUME LoopInv, LogInv PROVE LogAgreesWithRows
    OBVIOUS
  <2>1. SavedTrades = Total(daily)
    BY Zenon DEF SavedTrades, Total, RowDates, MapThenSumSet, MapThenFoldSet
  <2>2. crashes \in Nat /\ Len(log) \in Nat /\ Total(daily) \in Int
    <3>1. /\ daily \in [Dates -> Rows \cup {NoRow}] /\ log \in Seq(Int)
          /\ tradeDate \in Dates /\ crashes \in Nat
          /\ gov \in Governors /\ session \in Sessions
      BY LoopAssumption DEF LoopInv, LoopTypeOK, TypeOK
    <3>2. Row \in Rows
      BY <3>1, SnapshotFields DEF Row, Rows
    <3>3. Total(daily) \in Int
      BY <3>1, <3>2, TotalChanges
    <3> QED
      BY <3>1, <3>3
  <2>3. /\ Total(daily) <= Len(log)
        /\ Len(log) <= Total(daily) + crashes
                         + (IF loop \in {"finish", "fatal"} THEN 1 ELSE 0)
    <3>1. CASE loop = "finish"
      BY <2>2, <3>1 DEF LogInv, Missing
    <3>2. CASE loop = "fatal"
      BY <2>2, <3>2 DEF LogInv, Missing
    <3>3. CASE loop \notin {"finish", "fatal"}
      BY <2>2, <3>3 DEF LogInv, Missing
    <3> QED
      BY <3>1, <3>2, <3>3
  <2> QED
    BY <2>1, <2>3 DEF LogAgreesWithRows
<1> QED
  BY <1>1, <1>2, <1>3, PTL DEF LoopSpec
=============================================================================
