------------------------ MODULE RiskGovernorProofs -------------------------
(***************************************************************************)
(* Proofs about the risk governor, for every choice of its limits, of the  *)
(* profits and losses trades may make and of the snapshots restored, and   *)
(* about the alerts the trading loop makes of its events.                  *)
(***************************************************************************)
EXTENDS GovernorAlerts, GovernorLemmas, CollectionLemmas, SequenceTheorems

-----------------------------------------------------------------------------
(* Type correctness and the inductive invariant.                           *)

EventTypes == {"DAILY_LIMIT_REACHED", "EMERGENCY_STOP",
               "CONSECUTIVE_LOSS_LIMIT", "MANUAL_RESET"}

\* What a settled trade logs are events.
LEMMA EventsOfType ==
    ASSUME NEW g
    PROVE  EventsOf(g) \in Seq(EventTypes)
<1>1. \A e \in EventTypes : <<e>> \in Seq(EventTypes)
  OBVIOUS
<1>2. \A s, t \in Seq(EventTypes) : s \o t \in Seq(EventTypes)
  OBVIOUS
<1>3. << >> \in Seq(EventTypes)
  OBVIOUS
<1> QED
  BY <1>1, <1>2, <1>3, Zenon DEF EventsOf, EventTypes

\* The invariant a step needs: types, the dominance of the peak, and that a
\* governor no one has called yet is as it was built.
IInv == TypeOK /\ PeakDominates /\ (fresh => gov = NewGovernor)

\* It holds of a governor just built.
LEMMA InitIInv == Init => IInv
BY GovernorAssumption
   DEF Init, IInv, TypeOK, PeakDominates, NewGovernor, Governors

\* Every call keeps it.
LEMMA NextIInv == IInv /\ [Next]_vars => IInv'
<1> SUFFICES ASSUME IInv, [Next]_vars PROVE IInv'
  OBVIOUS
<1> USE SavedStatesAssumption, GovernorAssumption DEF IInv
<1>0. gov \in Governors /\ events \in Seq(EventTypes)
  BY DEF TypeOK, EventTypes
<1>1. CASE LoadState
  <2>1. PICK s \in SavedStates : gov' = Loaded(gov, s)
    BY <1>1 DEF LoadState
  <2>2. /\ s \in Snapshots
        /\ s.current <= s.peak /\ StartingBalance <= s.peak
    BY DEF IInv
  <2>3. gov.starting = StartingBalance
    BY <1>1 DEF LoadState, NewGovernor
  <2>4. /\ gov' = [starting |-> StartingBalance, peak |-> s.peak,
                   current |-> s.current, losses |-> s.losses,
                   stopped |-> s.stopped]
        /\ events' = events /\ fresh' = FALSE
    BY <1>1, <2>1, <2>3 DEF Loaded, LoadState
  <2>5. gov' \in Governors
    BY <2>2, <2>4 DEF Governors, Snapshots
  <2>6. PeakDominates'
    BY <2>2, <2>4 DEF PeakDominates
  <2> QED
    BY <1>0, <2>4, <2>5, <2>6 DEF TypeOK, EventTypes
<1>2. ASSUME NEW pl \in Moves, RecordTradeResult(pl)
      PROVE  IInv'
  <2>1. pl \in Int /\ gov' = AfterResult(gov, pl)
    BY <1>2 DEF RecordTradeResult
  <2>2. gov' \in Governors
    BY <2>1, AfterResultFields DEF TypeOK
  <2>3. events' \in Seq(EventTypes)
    BY <1>2, EventsOfType DEF RecordTradeResult, TypeOK, EventTypes
  <2>4. /\ gov'.starting = gov.starting
        /\ gov'.current = gov.current + pl
        /\ gov'.peak = Larger(gov.peak, gov.current + pl)
    BY <1>0, <2>1, AfterResultFields
  <2>5. PeakDominates'
    BY <1>0, <2>1, <2>4 DEF PeakDominates, Governors, Larger
  <2> QED
    BY <1>2, <2>2, <2>3, <2>5 DEF RecordTradeResult, TypeOK, EventTypes
<1>3. CASE ManualReset
  <2>1. gov' = [gov EXCEPT !.stopped = FALSE] /\ fresh' = FALSE
    BY <1>3 DEF ManualReset, AfterReset
  <2>2. gov' \in Governors /\ PeakDominates'
    BY <1>0, <2>1 DEF PeakDominates, Governors
  <2>3. events' \in Seq(EventTypes)
    BY <1>0, <1>3 DEF ManualReset, EventTypes
  <2> QED
    BY <2>1, <2>2, <2>3 DEF TypeOK, EventTypes
<1>4. CASE StartNewDay
  <2>1. /\ gov' = [gov EXCEPT !.starting = gov.current]
        /\ fresh' = FALSE /\ events' = events
    BY <1>4 DEF StartNewDay, NextDay
  <2>2. gov' \in Governors /\ PeakDominates'
    BY <1>0, <2>1 DEF PeakDominates, Governors
  <2> QED
    BY <1>0, <2>1, <2>2 DEF TypeOK, EventTypes
<1>5. CASE UNCHANGED vars
  BY <1>5 DEF vars, TypeOK, PeakDominates
<1> QED
  BY <1>1, <1>2, <1>3, <1>4, <1>5 DEF Next

\* Every reachable governor and event log has its type.
THEOREM TypeCorrect == Spec => []TypeOK
<1>1. IInv => TypeOK
  BY DEF IInv
<1> QED
  BY InitIInv, NextIInv, <1>1, PTL DEF Spec

\* The all-time peak bounds the balance, the day's start and the balance the
\* governor was built with.
THEOREM PeakDominance == Spec => []PeakDominates
<1>1. IInv => PeakDominates
  BY DEF IInv
<1> QED
  BY InitIInv, NextIInv, <1>1, PTL DEF Spec
-----------------------------------------------------------------------------
(* The action properties.                                                  *)

\* What the governor looks like before and after a settled trade.
LEMMA ResultStep ==
    ASSUME IInv, NEW pl \in Moves, RecordTradeResult(pl)
    PROVE  /\ gov \in Governors /\ gov' \in Governors /\ pl \in Int
           /\ gov'.starting = gov.starting
           /\ gov'.current = gov.current + pl
           /\ gov'.peak = Larger(gov.peak, gov.current + pl)
           /\ gov'.losses = IF pl < 0 THEN gov.losses + 1 ELSE 0
           /\ gov'.stopped = (gov.stopped \/ DrawdownAtLimit(gov'))
<1>1. gov \in Governors /\ pl \in Int /\ gov' = AfterResult(gov, pl)
  BY SavedStatesAssumption DEF IInv, TypeOK, RecordTradeResult
<1> QED
  BY <1>1, AfterResultFields

\* A loss leaves the governor with no larger a multiplier.
LEMMA LossLowersMultiplier ==
    ASSUME IInv, NEW pl \in Moves, RecordTradeResult(pl), pl < 0
    PROVE  RiskMultiplier(gov') <= RiskMultiplier(gov)
<1>1. gov.current <= gov.peak
  BY DEF IInv, PeakDominates
<1>2. /\ gov'.starting = gov.starting /\ gov'.peak = gov.peak
      /\ gov'.current <= gov.current /\ gov'.losses >= gov.losses
      /\ gov.stopped => gov'.stopped
  BY <1>1, ResultStep DEF Larger, Governors
<1> QED
  BY <1>2, ResultStep, MultiplierMonotone

\* Restored from a snapshot, a governor that was never used has no larger a
\* multiplier than a new one.
LEMMA LoadLowersMultiplier ==
    ASSUME IInv, LoadState
    PROVE  RiskMultiplier(gov') <= RiskMultiplier(gov)
<1>1. PICK s \in SavedStates : gov' = Loaded(gov, s)
  BY DEF LoadState
<1>2. s \in Snapshots /\ s.current <= s.peak /\ StartingBalance <= s.peak
  BY SavedStatesAssumption
<1>3. gov = NewGovernor
  BY DEF IInv, LoadState
<1>4. /\ gov'.starting = StartingBalance /\ gov'.current = s.current
      /\ gov'.peak = s.peak /\ gov'.losses = s.losses
      /\ gov'.stopped = s.stopped
      /\ gov.starting = StartingBalance /\ gov.current = StartingBalance
      /\ gov.peak = StartingBalance /\ gov.losses = 0 /\ gov.stopped = FALSE
  BY <1>1, <1>3 DEF Loaded, NewGovernor
<1>5. /\ DailyLoss(gov) = 0 /\ DailyLoss(gov') >= 0
      /\ DailyLoss(gov') \in Nat
  BY <1>2, <1>4, GovernorAssumption DEF DailyLoss, Larger, Snapshots
<1>6. ASSUME DrawdownAtWarning(gov) PROVE DrawdownAtWarning(gov')
  <2> DEFINE w == MaxDrawdownPct * WarningPct
  <2>1. w \in Nat
    BY GovernorAssumption
  <2>2. 0 * 10000 >= w * StartingBalance
    BY <1>4, <1>6, GovernorAssumption
       DEF DrawdownAtWarning, DrawdownReaches, Larger
  <2> HIDE DEF w
  <2>3. w = 0
    <3>1. \A a \in Nat, b \in Nat \ {0} : a # 0 => a * b > 0
      OBVIOUS
    <3> QED
      BY <2>1, <2>2, <3>1, GovernorAssumption
  <2>4. (IF gov'.peak <= 0 THEN 0 ELSE Larger(0, gov'.peak - gov'.current)) \in Nat
    BY <1>2, <1>4 DEF Larger, Snapshots
  <2>5. \A a \in Nat, b \in Int : a * 10000 >= 0 * b
    OBVIOUS
  <2>6. Larger(1, gov'.peak) \in Int
    BY <1>2, <1>4 DEF Larger, Snapshots
  <2>7. DrawdownReaches(gov', 0, 10000)
    BY <2>4, <2>5, <2>6 DEF DrawdownReaches
  <2> QED
    BY <2>3, <2>7 DEF DrawdownAtWarning, w
<1>7. /\ DailyLoss(gov) >= MaxDailyLoss => DailyLoss(gov') >= MaxDailyLoss
      /\ gov.losses >= MaxConsecutiveLosses => gov'.losses >= MaxConsecutiveLosses
      /\ gov'.losses \in Nat
  BY <1>2, <1>4, <1>5, GovernorAssumption DEF Snapshots
<1>8. ~(gov.losses >= Larger(1, MaxConsecutiveLosses \div 2))
  BY <1>4, GovernorAssumption DEF Larger
<1> QED
  BY <1>4, <1>6, <1>7, <1>8 DEF RiskMultiplier, RiskState, Quarters

\* No recorded loss, and nothing else that lengthens the streak of losses,
\* ever increases the risk multiplier.
THEOREM RiskNeverGrowsFromLoss == Spec => NeverMoreRiskAfterLoss
<1>1. ASSUME IInv, [Next]_vars, gov'.losses > gov.losses
      PROVE  RiskMultiplier(gov') <= RiskMultiplier(gov)
  <2>1. CASE LoadState
    BY <1>1, <2>1, LoadLowersMultiplier
  <2>2. ASSUME NEW pl \in Moves, RecordTradeResult(pl)
        PROVE  RiskMultiplier(gov') <= RiskMultiplier(gov)
    <3>1. pl < 0
      BY <1>1, <2>2, ResultStep DEF Governors
    <3> QED
      BY <1>1, <2>2, <3>1, LossLowersMultiplier
  <2>3. ASSUME ManualReset \/ StartNewDay \/ UNCHANGED vars
        PROVE  FALSE
    <3>1. gov'.losses = gov.losses
      BY <1>1, <2>3 DEF ManualReset, StartNewDay, AfterReset, NextDay, vars,
                        IInv, TypeOK, Governors
    <3> QED
      BY <1>1, <3>1 DEF IInv, TypeOK, Governors
  <2> QED
    BY <1>1, <2>1, <2>2, <2>3 DEF Next
<1>2. IInv /\ [Next]_vars
        => [gov'.losses > gov.losses
              => RiskMultiplier(gov') <= RiskMultiplier(gov)]_vars
  BY <1>1
<1> QED
  BY InitIInv, NextIInv, <1>2, PTL DEF Spec, NeverMoreRiskAfterLoss

\* In use, a governor leaves the emergency stop by a manual reset only.
THEOREM StopPersists == Spec => StopOnlyLiftedByReset
<1>1. ASSUME IInv, [Next]_vars, gov.stopped, ~gov'.stopped, ~fresh
      PROVE  events' = Append(events, "MANUAL_RESET")
  <2>1. CASE LoadState
    BY <1>1, <2>1 DEF LoadState
  <2>2. ASSUME NEW pl \in Moves, RecordTradeResult(pl)
        PROVE  FALSE
    BY <1>1, <2>2, ResultStep
  <2>3. CASE ManualReset
    BY <2>3 DEF ManualReset
  <2>4. ASSUME StartNewDay \/ UNCHANGED vars
        PROVE  FALSE
    BY <1>1, <2>4 DEF StartNewDay, NextDay, vars, IInv, TypeOK, Governors
  <2> QED
    BY <1>1, <2>1, <2>2, <2>3, <2>4 DEF Next
<1>2. IInv /\ [Next]_vars
        => [gov.stopped /\ ~gov'.stopped /\ ~fresh
              => events' = Append(events, "MANUAL_RESET")]_vars
  BY <1>1
<1> QED
  BY InitIInv, NextIInv, <1>2, PTL DEF Spec, StopOnlyLiftedByReset

-----------------------------------------------------------------------------
(* The drawdown limit, and the ways back to more risk.                     *)

\* Stopped at the limit, with what makes it inductive: nothing is logged
\* before the first call.
StopInv == IInv /\ (fresh => events = <<>>) /\ StoppedAtDrawdownLimit

\* Every call keeps it.
LEMMA NextStopInv == StopInv /\ [Next]_vars => StopInv'
<1> SUFFICES ASSUME StopInv, [Next]_vars
             PROVE  (fresh => events = <<>>)' /\ StoppedAtDrawdownLimit'
  BY NextIInv DEF StopInv
<1>0. IInv /\ gov \in Governors /\ events \in Seq(EventTypes)
  BY DEF StopInv, IInv, TypeOK, EventTypes
<1>1. CASE LoadState
  <2>1. events' = <<>> /\ fresh' = FALSE
    BY <1>1 DEF LoadState, StopInv
  <2> QED
    BY <2>1 DEF StoppedAtDrawdownLimit
<1>2. ASSUME NEW pl \in Moves, RecordTradeResult(pl)
      PROVE  (fresh => events = <<>>)' /\ StoppedAtDrawdownLimit'
  <2>1. DrawdownAtLimit(gov') => gov'.stopped
    BY <1>0, <1>2, ResultStep
  <2>2. fresh' = FALSE
    BY <1>2 DEF RecordTradeResult
  <2> QED
    BY <2>1, <2>2 DEF StoppedAtDrawdownLimit
<1>3. CASE ManualReset
  <2>1. fresh' = FALSE /\ events' = Append(events, "MANUAL_RESET")
    BY <1>3 DEF ManualReset
  <2>2. events'[Len(events')] = "MANUAL_RESET"
    BY <1>0, <2>1
  <2> QED
    BY <2>1, <2>2 DEF StoppedAtDrawdownLimit
<1>4. CASE StartNewDay
  <2>1. /\ gov' = [gov EXCEPT !.starting = gov.current]
        /\ fresh' = FALSE /\ events' = events
    BY <1>4 DEF StartNewDay, NextDay
  <2>2. /\ gov'.stopped = gov.stopped /\ gov'.peak = gov.peak
        /\ gov'.current = gov.current
    BY <1>0, <2>1 DEF Governors
  <2>3. DrawdownAtLimit(gov') => DrawdownAtLimit(gov)
    BY <2>2 DEF DrawdownAtLimit, DrawdownReaches
  <2> QED
    BY <2>1, <2>2, <2>3 DEF StoppedAtDrawdownLimit, StopInv
<1>5. CASE UNCHANGED vars
  BY <1>5 DEF vars, StoppedAtDrawdownLimit, StopInv
<1> QED
  BY <1>1, <1>2, <1>3, <1>4, <1>5 DEF Next

\* No mix of results, days and restarts leaves a governor trading at its
\* drawdown limit; only a manual reset does.
THEOREM StoppedAtLimit == Spec => []StoppedAtDrawdownLimit
<1>1. Init => StopInv
  BY InitIInv DEF Init, StopInv, StoppedAtDrawdownLimit
<1>2. StopInv => StoppedAtDrawdownLimit
  BY DEF StopInv
<1> QED
  BY <1>1, NextStopInv, <1>2, PTL DEF Spec

\* A new day gives back what the day's loss had taken, and nothing else.
LEMMA NewDayRegains ==
    ASSUME IInv, StartNewDay, RiskMultiplier(gov') > RiskMultiplier(gov)
    PROVE  gov'.starting # gov.starting /\ DailyLoss(gov) >= MaxDailyLoss
<1>1. /\ gov \in Governors /\ gov' \in Governors
      /\ gov' = [gov EXCEPT !.starting = gov.current]
  BY NextIInv DEF IInv, TypeOK, StartNewDay, NextDay, Next
<1>2. /\ gov'.stopped = gov.stopped /\ gov'.peak = gov.peak
      /\ gov'.current = gov.current /\ gov'.losses = gov.losses
  BY <1>1 DEF Governors
<1>3. RiskMultiplier(gov) \in 0..4 /\ RiskMultiplier(gov') \in 0..4
  BY <1>1, MultiplierRange
<1>4. DrawdownAtWarning(gov') = DrawdownAtWarning(gov)
  BY <1>2 DEF DrawdownAtWarning, DrawdownReaches
<1>5. CASE DailyLoss(gov) >= MaxDailyLoss
  <2>1. gov'.starting # gov.starting
    <3>1. SUFFICES ASSUME gov'.starting = gov.starting PROVE FALSE
      OBVIOUS
    <3>2. gov' = gov
      BY <1>1, <3>1 DEF Governors
    <3> QED
      BY <1>3, <3>2
  <2> QED
    BY <1>5, <2>1
<1>6. CASE ~(DailyLoss(gov) >= MaxDailyLoss)
  <2>1. CASE DailyLoss(gov') >= MaxDailyLoss
    <3>1. RiskMultiplier(gov') = 0
      BY <2>1 DEF RiskMultiplier, RiskState, Quarters
    <3> QED
      BY <1>3, <3>1
  <2>2. CASE ~(DailyLoss(gov') >= MaxDailyLoss)
    <3>1. RiskState(gov') = RiskState(gov)
      BY <1>2, <1>4, <1>6, <2>2 DEF RiskState
    <3> QED
      BY <1>3, <3>1 DEF RiskMultiplier
  <2> QED
    BY <2>1, <2>2
<1> QED
  BY <1>5, <1>6

\* The multiplier grows by a gain, by the end of a streak of losses, by a
\* manual reset or by a new day after a day halted for its loss: by nothing
\* else.
THEOREM RiskRegained == Spec => RiskRegainedOnlyBy
<1> DEFINE Ways == \/ gov'.current > gov.current
                   \/ gov.losses > 0 /\ gov'.losses = 0
                   \/ gov.stopped /\ ~gov'.stopped
                   \/ gov'.starting # gov.starting /\ DailyLoss(gov) >= MaxDailyLoss
<1>1. ASSUME IInv, [Next]_vars, RiskMultiplier(gov') > RiskMultiplier(gov)
      PROVE  Ways
  <2>0. gov \in Governors /\ gov' \in Governors
    BY <1>1, NextIInv DEF IInv, TypeOK
  <2>1. RiskMultiplier(gov) \in 0..4 /\ RiskMultiplier(gov') \in 0..4
    BY <2>0, MultiplierRange
  <2>2. ~(RiskMultiplier(gov') <= RiskMultiplier(gov))
    BY <1>1, <2>1
  <2>3. ~LoadState
    BY <1>1, <2>2, LoadLowersMultiplier
  <2>4. ASSUME NEW pl \in Moves, RecordTradeResult(pl)
        PROVE  Ways
    <3>1. CASE pl < 0
      BY <1>1, <2>2, <2>4, <3>1, LossLowersMultiplier
    <3>2. CASE pl > 0
      BY <1>1, <2>0, <2>4, <3>2, ResultStep DEF Governors
    <3>3. CASE pl = 0 /\ gov.losses > 0
      BY <1>1, <2>4, <3>3, ResultStep
    <3>4. CASE pl = 0 /\ gov.losses = 0
      <4>1. gov.current <= gov.peak
        BY <1>1 DEF IInv, PeakDominates
      <4>2. /\ gov'.starting = gov.starting /\ gov'.peak = gov.peak
            /\ gov'.current <= gov.current /\ gov'.losses >= gov.losses
            /\ gov.stopped => gov'.stopped
        BY <1>1, <2>0, <2>4, <3>4, <4>1, ResultStep DEF Larger, Governors
      <4> QED
        BY <2>0, <2>2, <4>2, MultiplierMonotone
    <3>5. pl \in Int /\ gov.losses \in Nat
      BY <2>0, SavedStatesAssumption DEF Governors
    <3> QED
      BY <3>1, <3>2, <3>3, <3>4, <3>5
  <2>5. CASE ManualReset
    <3>1. gov' = [gov EXCEPT !.stopped = FALSE]
      BY <2>5 DEF ManualReset, AfterReset
    <3>2. gov.stopped
      <4>1. SUFFICES ASSUME ~gov.stopped PROVE FALSE
        OBVIOUS
      <4>2. gov' = gov
        BY <2>0, <3>1, <4>1 DEF Governors
      <4> QED
        BY <2>1, <2>2, <4>2
    <3> QED
      BY <2>0, <3>1, <3>2 DEF Governors
  <2>6. CASE StartNewDay
    BY <1>1, <2>6, NewDayRegains
  <2>7. ~UNCHANGED vars
    BY <2>1, <2>2 DEF vars
  <2> QED
    BY <1>1, <2>3, <2>4, <2>5, <2>6, <2>7 DEF Next
<1>2. IInv /\ [Next]_vars
        => [RiskMultiplier(gov') > RiskMultiplier(gov) => Ways]_vars
  BY <1>1
<1> QED
  BY InitIInv, NextIInv, <1>2, PTL DEF Spec, RiskRegainedOnlyBy

-----------------------------------------------------------------------------
(* The alerts.                                                             *)

\* What the trading loop does to the governor is what its users may do.
LEMMA AlertsFollow == AlertSpec => Spec
<1>1. AlertInit => Init
  BY DEF AlertInit
<1>2. [AlertNext]_alertVars => [Next]_vars
  BY DEF AlertNext, alertVars, Next, Restore, StartLoop, TickTrades, TickIdles, NewDayTick,
         OperatorResets, ForwardAlerts, ForwardRaises
<1> QED
  BY <1>1, <1>2, PTL DEF AlertSpec, Spec

\* One element more.
Kept(S, kept, x) == IF x \in S THEN Append(kept, x) ELSE kept

\* It is of the same kind.
LEMMA KeptStays ==
    ASSUME NEW S, NEW U, NEW kept \in Seq(U \cap S), NEW x \in U
    PROVE  Kept(S, kept, x) \in Seq(U \cap S)
BY DEF Kept

\* The pass over a list, from element to element.
LEMMA ThosePass ==
    ASSUME NEW S, NEW U, NEW list \in Seq(U)
    PROVE  \E g \in [0..Len(list) -> Seq(U \cap S)] :
              /\ g[0] = <<>>
              /\ \A i \in 1..Len(list) : g[i] = Kept(S, g[i - 1], list[i])
              /\ Those(S, list) = g[Len(list)]
<1> DEFINE T == DOMAIN list
           next(a, x) == Kept(S, a, list[x])
           step == [p \in Seq(U \cap S) \X T |-> next(p[1], p[2])]
           E(h) == h = [s \in SUBSET T |->
                          IF s = {} THEN <<>> ELSE next(h[s \ {Max(s)}], Max(s))]
           iter == CHOOSE h : E(h)
<1>1. Len(list) \in Nat /\ T = 1..Len(list) /\ IsFiniteSet(T) /\ T \subseteq Int
  <2>1. Len(list) \in Nat /\ T = 1..Len(list)
    OBVIOUS
  <2>2. IsFiniteSet(1..Len(list))
    BY <2>1, FS_Interval
  <2> QED
    BY <2>1, <2>2
<1>2. <<>> \in Seq(U \cap S)
  OBVIOUS
<1>3. \A a \in Seq(U \cap S), i \in T :
         next(a, i) \in Seq(U \cap S) /\ step[<<a, i>>] = next(a, i)
  <2>1. \A a \in Seq(U \cap S), x \in U : Kept(S, a, x) \in Seq(U \cap S)
    BY KeptStays
  <2>2. \A i \in T : list[i] \in U
    OBVIOUS
  <2> QED
    BY <2>1, <2>2
<1>4. Those(S, list) = iter[T]
  BY Zenon DEF Those, FoldLeft, MapThenFoldSet, Kept
<1> HIDE DEF T, next, step
<1>5. E(iter)
  <2>1. PICK k : FoldTable(k, <<>>, step, T)
    BY <1>1, FoldsExist
  <2>2. k \in [SUBSET T -> Seq(U \cap S)]
    <3>1. step \in [Seq(U \cap S) \X T -> Seq(U \cap S)]
      BY <1>3 DEF step
    <3> QED
      BY <1>1, <1>2, <2>1, <3>1, FoldsKeep
  <2>3. \A s \in SUBSET T : s # {} => Max(s) \in T /\ k[s \ {Max(s)}] \in Seq(U \cap S)
    <3> TAKE s \in SUBSET T
    <3> HAVE s # {}
    <3>1. Max(s) \in s
      BY <1>1, MaxIsElement
    <3> QED
      BY <2>2, <3>1
  <2>4. E(k)
    BY <1>3, <2>1, <2>3 DEF FoldTable
  <2> QED
    BY <2>4, Zenon
<1> HIDE DEF iter
<1> DEFINE g == [i \in 0..Len(list) |-> iter[1..i]]
<1>6. g[0] = <<>>
  <2>1. 1..0 = {} /\ {} \in SUBSET T /\ 0 \in 0..Len(list)
    BY <1>1
  <2> QED
    BY <1>5, <2>1
<1>7. ASSUME NEW i \in 1..Len(list) PROVE g[i] = Kept(S, g[i - 1], list[i])
  <2>1. /\ Max(1..i) = i /\ (1..i) \ {i} = 1..(i - 1) /\ 1..i # {}
        /\ 1..i \in SUBSET T /\ i \in 0..Len(list) /\ i - 1 \in 0..Len(list)
    BY <1>1, LastNumber
  <2>2. iter[1..i] = next(iter[1..(i - 1)], i)
    BY <1>5, <2>1
  <2> QED
    BY <2>1, <2>2 DEF next
<1>8. g[Len(list)] = iter[T]
  BY <1>1
<1> HIDE DEF g
<1>9. \A i \in 0..Len(list) : g[i] \in Seq(U \cap S)
  <2> DEFINE B == {i \in 0..Len(list) : g[i] \notin Seq(U \cap S)}
  <2> SUFFICES ASSUME B # {} PROVE FALSE
    OBVIOUS
  <2>1. PICK m \in B : \A j \in B : m <= j
    <3>1. B \subseteq 0..Len(list)
      OBVIOUS
    <3> HIDE DEF B
    <3> QED
      BY <1>1, <3>1, FirstNumber
  <2>2. m \in 1..Len(list) /\ m - 1 \in 0..Len(list) /\ m - 1 < m
    <3>1. m # 0
      BY <1>2, <1>6
    <3> QED
      BY <1>1, <3>1
  <2>3. g[m - 1] \in Seq(U \cap S)
    BY <2>1, <2>2
  <2>4. g[m] \in Seq(U \cap S)
    BY <1>1, <1>7, <2>2, <2>3, KeptStays
  <2> QED
    BY <2>4
<1>10. g \in [0..Len(list) -> Seq(U \cap S)]
  <2>1. g = [i \in 0..Len(list) |-> g[i]]
    BY DEF g
  <2> QED
    BY <1>9, <2>1
<1> QED
  BY <1>4, <1>6, <1>7, <1>8, <1>10

\* An element more after two lists joined is one more after the second.
KeptLast(S, x, y, e) == Kept(S, x \o y, e) = x \o Kept(S, y, e)

\* It always is.
LEMMA KeptJoined ==
    ASSUME NEW S, NEW K, NEW x \in Seq(K), NEW y \in Seq(K), NEW e, e \in S => e \in K
    PROVE  KeptLast(S, x, y, e)
<1> DEFINE u == Append(x \o y, e)
           v == x \o Append(y, e)
           n == Len(x) + Len(y) + 1
<1>1. ASSUME e \in S PROVE u = v
  <2>1. x \in Seq(K) /\ y \in Seq(K) /\ e \in K
    BY <1>1
  <2>2. /\ x \o y \in Seq(K) /\ Len(x \o y) = Len(x) + Len(y)
        /\ Append(y, e) \in Seq(K) /\ Len(Append(y, e)) = Len(y) + 1
        /\ Len(x) \in Nat /\ Len(y) \in Nat
    BY <2>1
  <2>3. u \in Seq(K) /\ Len(u) = n /\ v \in Seq(K) /\ Len(v) = n
    BY <2>1, <2>2
  <2>4. \A i \in 1..n : u[i] = v[i]
    <3> TAKE i \in 1..n
    <3>1. CASE i <= Len(x)
      BY <2>1, <2>2, <3>1
    <3>2. CASE i > Len(x) /\ i < n
      BY <2>1, <2>2, <3>2
    <3>3. CASE i = n
      BY <2>1, <2>2, <3>3
    <3> QED
      BY <2>2, <3>1, <3>2, <3>3
  <2> HIDE DEF u, v
  <2> QED
    BY <2>2, <2>3, <2>4
<1>2. CASE e \in S
  BY <1>1, <1>2 DEF Kept, KeptLast
<1>3. CASE e \notin S
  BY <1>3 DEF Kept, KeptLast
<1> QED
  BY <1>2, <1>3

\* What is kept of two lists is what is kept of each.
LEMMA ThoseJoined ==
    ASSUME NEW S, NEW U, NEW s \in Seq(U), NEW t \in Seq(U)
    PROVE  Those(S, s \o t) = Those(S, s) \o Those(S, t)
<1> DEFINE st == s \o t
           m  == Len(s)
           n  == Len(t)
           K  == Seq(U \cap S)
<1>1. /\ m \in Nat /\ n \in Nat /\ st \in Seq(U) /\ Len(st) = m + n
      /\ \A i \in 1..m : st[i] = s[i] /\ s[i] \in U
      /\ \A i \in 1..n : st[m + i] = t[i] /\ t[i] \in U
  OBVIOUS
<1>2. PICK g \in [0..m -> K] :
         /\ g[0] = <<>>
         /\ \A i \in 1..m : g[i] = Kept(S, g[i - 1], s[i])
         /\ Those(S, s) = g[m]
  BY ThosePass
<1>3. PICK h \in [0..n -> K] :
         /\ h[0] = <<>>
         /\ \A i \in 1..n : h[i] = Kept(S, h[i - 1], t[i])
         /\ Those(S, t) = h[n]
  BY ThosePass
<1> HIDE DEF st, m, n
<1>4. PICK k \in [0..(m + n) -> K] :
         /\ k[0] = <<>>
         /\ \A i \in 1..(m + n) : k[i] = Kept(S, k[i - 1], st[i])
         /\ Those(S, st) = k[m + n]
  <2>1. st \in Seq(U)
    BY <1>1
  <2>2. PICK k \in [0..Len(st) -> K] :
           /\ k[0] = <<>>
           /\ \A i \in 1..Len(st) : k[i] = Kept(S, k[i - 1], st[i])
           /\ Those(S, st) = k[Len(st)]
    BY <2>1, ThosePass
  <2> QED
    BY <1>1, <2>2
<1>5. \A i \in 0..m : k[i] = g[i]
  <2> DEFINE B == {i \in 0..m : k[i] # g[i]}
  <2> SUFFICES ASSUME B # {} PROVE FALSE
    OBVIOUS
  <2>1. PICK b \in B : \A j \in B : b <= j
    <3>1. B \subseteq 0..m
      OBVIOUS
    <3> HIDE DEF B
    <3> QED
      BY <1>1, <3>1, FirstNumber
  <2>2. b # 0
    BY <1>2, <1>4
  <2>3. b \in 1..m /\ b \in 1..(m + n) /\ b - 1 \in 0..m /\ b - 1 < b
    BY <1>1, <2>2
  <2>4. k[b - 1] = g[b - 1]
    BY <2>1, <2>3
  <2>5. k[b] = Kept(S, k[b - 1], st[b]) /\ g[b] = Kept(S, g[b - 1], s[b]) /\ st[b] = s[b]
    BY <1>1, <1>2, <1>4, <2>3
  <2> QED
    BY <2>4, <2>5
<1> DEFINE Agrees(i) == k[m + i] = g[m] \o h[i]
<1>6. g[m] \in K
  BY <1>1, <1>2
<1>7. Agrees(0)
  <2>1. m + 0 = m /\ m \in 0..m
    BY <1>1
  <2>2. g[m] \o <<>> = g[m]
    BY <1>6, ConcatEmptySeq
  <2> QED
    BY <1>3, <1>5, <2>1, <2>2
<1>8. ASSUME NEW b \in 1..n, Agrees(b - 1) PROVE Agrees(b)
  <2>1. m + b \in 1..(m + n) /\ (m + b) - 1 = m + (b - 1) /\ b - 1 \in 0..n
    BY <1>1
  <2>2. st[m + b] = t[b] /\ t[b] \in U
    BY <1>1
  <2>3. k[m + b] = Kept(S, k[m + (b - 1)], t[b])
    <3>1. k[m + b] = Kept(S, k[(m + b) - 1], st[m + b])
      BY <1>4, <2>1
    <3> QED
      BY <2>1, <2>2, <3>1
  <2>4. h[b] = Kept(S, h[b - 1], t[b]) /\ h[b - 1] \in K
    BY <1>3, <2>1
  <2>5. k[m + (b - 1)] = g[m] \o h[b - 1]
    BY <1>8
  <2>6. g[m] \in Seq(U \cap S) /\ h[b - 1] \in Seq(U \cap S)
    BY <1>6, <2>4
  <2>7. Kept(S, g[m] \o h[b - 1], t[b]) = g[m] \o Kept(S, h[b - 1], t[b])
    <3> DEFINE K2 == U \cap S
    <3>1. g[m] \in Seq(K2) /\ h[b - 1] \in Seq(K2) /\ (t[b] \in S => t[b] \in K2)
      BY <2>2, <2>6
    <3> HIDE DEF K2
    <3>2. KeptLast(S, g[m], h[b - 1], t[b])
      BY <3>1, KeptJoined, Zenon
    <3> QED
      BY <3>2 DEF KeptLast
  <2> QED
    BY <2>3, <2>4, <2>5, <2>7
<1> HIDE DEF Agrees
<1>9. \A i \in 0..n : Agrees(i)
  <2> DEFINE B == {i \in 0..n : ~Agrees(i)}
  <2> SUFFICES ASSUME B # {} PROVE FALSE
    OBVIOUS
  <2>1. PICK b \in B : \A j \in B : b <= j
    <3>1. B \subseteq 0..n
      OBVIOUS
    <3> HIDE DEF B
    <3> QED
      BY <1>1, <3>1, FirstNumber
  <2>2. b \in 1..n /\ b - 1 \in 0..n /\ b - 1 < b
    BY <1>1, <1>7, <2>1
  <2>3. Agrees(b - 1)
    BY <2>1, <2>2
  <2> QED
    BY <1>8, <2>2, <2>3
<1>10. k[m + n] = g[m] \o h[n]
  <2>1. Agrees(n)
    BY <1>1, <1>9
  <2> QED
    BY <2>1 DEF Agrees
<1> QED
  BY <1>2, <1>3, <1>4, <1>10 DEF st

\* Of a list in which all are to be kept all are kept, and of one in which none
\* is nothing is.
LEMMA ThoseAllOrNone ==
    ASSUME NEW S, NEW U, NEW s \in Seq(U)
    PROVE  /\ Those(S, s) \in Seq(U \cap S)
           /\ (\A i \in 1..Len(s) : s[i] \in S) => Those(S, s) = s
           /\ (\A i \in 1..Len(s) : s[i] \notin S) => Those(S, s) = <<>>
<1> DEFINE n == Len(s)
<1>1. n \in Nat /\ \A i \in 1..n : s[i] \in U
  OBVIOUS
<1>2. PICK g \in [0..n -> Seq(U \cap S)] :
         /\ g[0] = <<>>
         /\ \A i \in 1..n : g[i] = Kept(S, g[i - 1], s[i])
         /\ Those(S, s) = g[n]
  BY ThosePass
<1>3. g[n] \in Seq(U \cap S)
  BY <1>1, <1>2
<1>4. ASSUME \A i \in 1..n : s[i] \in S PROVE g[n] = s
  <2> DEFINE B == {i \in 0..n : g[i] # SubSeq(s, 1, i)}
  <2>1. SubSeq(s, 1, n) = s
    OBVIOUS
  <2> SUFFICES ASSUME B # {} PROVE FALSE
    BY <1>1, <2>1
  <2>2. PICK b \in B : \A j \in B : b <= j
    <3>1. B \subseteq 0..n
      OBVIOUS
    <3> HIDE DEF B
    <3> QED
      BY <1>1, <3>1, FirstNumber
  <2>3. b # 0
    <3>1. SubSeq(s, 1, 0) = <<>>
      OBVIOUS
    <3> QED
      BY <1>2, <3>1
  <2>4. b \in 1..n /\ b - 1 \in 0..n /\ b - 1 < b
    BY <1>1, <2>3
  <2>5. g[b - 1] = SubSeq(s, 1, b - 1)
    BY <2>2, <2>4
  <2>6. g[b] = Append(SubSeq(s, 1, b - 1), s[b])
    BY <1>2, <1>4, <2>4, <2>5 DEF Kept
  <2>7. SubSeq(s, 1, b) = Append(SubSeq(s, 1, b - 1), s[b])
    BY <2>4
  <2> QED
    BY <2>6, <2>7
<1>5. ASSUME \A i \in 1..n : s[i] \notin S PROVE g[n] = <<>>
  <2> DEFINE B == {i \in 0..n : g[i] # <<>>}
  <2> SUFFICES ASSUME B # {} PROVE FALSE
    BY <1>1
  <2>2. PICK b \in B : \A j \in B : b <= j
    <3>1. B \subseteq 0..n
      OBVIOUS
    <3> HIDE DEF B
    <3> QED
      BY <1>1, <3>1, FirstNumber
  <2>3. b # 0
    BY <1>2
  <2>4. b \in 1..n /\ b - 1 \in 0..n /\ b - 1 < b
    BY <1>1, <2>3
  <2>5. g[b - 1] = <<>>
    BY <2>2, <2>4
  <2> QED
    BY <1>2, <1>5, <2>4, <2>5 DEF Kept
<1> QED
  BY <1>2, <1>3, <1>4, <1>5

\* Of nothing nothing is kept.
LEMMA NothingKept == ASSUME NEW S PROVE Those(S, <<>>) = <<>>
<1> DEFINE e == << >>
<1>1. e \in Seq(S) /\ Len(e) = 0
  OBVIOUS
<1> HIDE DEF e
<1>2. \A i \in 1..Len(e) : e[i] \notin S
  BY <1>1
<1>3. Those(S, e) = <<>>
  BY <1>1, <1>2, ThoseAllOrNone
<1> QED
  BY <1>3 DEF e

\* The alerts of two lists of events are those of each.
LEMMA AlertsJoined ==
    ASSUME NEW s \in Seq(EventTypes), NEW t \in Seq(EventTypes)
    PROVE  /\ AlertsOf(s \o t) = AlertsOf(s) \o AlertsOf(t)
           /\ AlertsOf(s) \in Seq((EventTypes \cap Alerted) \X {"event"})
<1> DEFINE K == EventTypes \cap Alerted
           Tagged(x) == [i \in DOMAIN x |-> <<x[i], "event">>]
           a == Those(Alerted, s)
           b == Those(Alerted, t)
<1>1. a \in Seq(K) /\ b \in Seq(K)
  BY ThoseAllOrNone
<1>2. Those(Alerted, s \o t) = a \o b
  BY ThoseJoined
<1>3. AlertsOf(s) = Tagged(a) /\ AlertsOf(t) = Tagged(b) /\ AlertsOf(s \o t) = Tagged(a \o b)
  BY <1>2 DEF AlertsOf
<1> HIDE DEF a, b, K
<1>4. \A x \in Seq(K) : /\ Tagged(x) \in Seq(K \X {"event"}) /\ Len(Tagged(x)) = Len(x)
                          /\ \A i \in 1..Len(x) : Tagged(x)[i] = <<x[i], "event">>
  OBVIOUS
<1> HIDE DEF Tagged
<1>5. Tagged(a \o b) = Tagged(a) \o Tagged(b)
  <2>1. /\ a \o b \in Seq(K) /\ Len(a \o b) = Len(a) + Len(b) /\ Len(a) \in Nat /\ Len(b) \in Nat
        /\ \A i \in 1..Len(a) : (a \o b)[i] = a[i]
        /\ \A i \in (Len(a) + 1)..(Len(a) + Len(b)) : (a \o b)[i] = b[i - Len(a)]
    BY <1>1
  <2> DEFINE c == a \o b
             ta == Tagged(a)
             tb == Tagged(b)
             u == Tagged(c)
             v == ta \o tb
             n == Len(a) + Len(b)
  <2>2. /\ ta \in Seq(K \X {"event"}) /\ Len(ta) = Len(a)
        /\ tb \in Seq(K \X {"event"}) /\ Len(tb) = Len(b)
        /\ u \in Seq(K \X {"event"}) /\ Len(u) = n
        /\ \A i \in 1..Len(a) : ta[i] = <<a[i], "event">>
        /\ \A i \in 1..Len(b) : tb[i] = <<b[i], "event">>
        /\ \A i \in 1..n : u[i] = <<c[i], "event">>
    BY <1>1, <1>4, <2>1
  <2> HIDE DEF ta, tb, u
  <2>3. /\ v \in Seq(K \X {"event"}) /\ Len(v) = n
        /\ \A i \in 1..Len(a) : v[i] = ta[i]
        /\ \A i \in (Len(a) + 1)..n : v[i] = tb[i - Len(a)]
    BY <2>1, <2>2
  <2> HIDE DEF v
  <2>4. \A i \in 1..n : u[i] = v[i]
    <3> TAKE i \in 1..n
    <3>1. CASE i \in 1..Len(a)
      BY <2>1, <2>2, <2>3, <3>1
    <3>2. CASE i \in (Len(a) + 1)..n
      <4>1. i - Len(a) \in 1..Len(b)
        BY <2>1, <3>2
      <4> QED
        BY <2>1, <2>2, <2>3, <3>2, <4>1
    <3> QED
      BY <2>1, <3>1, <3>2
  <2> HIDE DEF c
  <2>5. u = v
    BY <2>1, <2>2, <2>3, <2>4
  <2> QED
    BY <2>5 DEF u, v, c, ta, tb
<1> QED
  BY <1>1, <1>3, <1>4, <1>5 DEF K

\* Up to the event seen last the alerts sent for events are those due, and
\* between two ticks no event with an alert comes after it.
AlertInv ==
    /\ seen \in 0..Len(events)
    /\ alerts \in Seq(EventTypes \X {"event", "transition"})
    /\ phase = "start" => events = <<>> /\ alerts = <<>>
    /\ phase \in {"tick", "forward"} =>
          Those(Alerted \X {"event"}, alerts) = AlertsOf(SubSeq(events, 1, seen))
    /\ phase = "tick" => \A i \in (seen + 1)..Len(events) : events[i] \notin Alerted

\* The events up to the one seen last and those after it are all events.
LEMMA SplitAtSeen ==
    ASSUME NEW s \in Seq(EventTypes), NEW n \in 0..Len(s)
    PROVE  /\ SubSeq(s, 1, n) \in Seq(EventTypes) /\ SubSeq(s, n + 1, Len(s)) \in Seq(EventTypes)
           /\ s = SubSeq(s, 1, n) \o SubSeq(s, n + 1, Len(s))
           /\ Len(SubSeq(s, n + 1, Len(s))) = Len(s) - n
           /\ \A i \in 1..(Len(s) - n) : SubSeq(s, n + 1, Len(s))[i] = s[n + i]
<1>1. SubSeq(s, 1, n) \o SubSeq(s, n + 1, Len(s)) = SubSeq(s, 1, Len(s))
  <2>1. 1 \in 1..(Len(s) + 1) /\ n \in (1 - 1)..Len(s) /\ Len(s) \in n..Len(s)
    OBVIOUS
  <2> QED
    BY <2>1, ConcatAdjacentSubSeq
<1>2. SubSeq(s, 1, Len(s)) = s
  BY SubSeqFull
<1>3. /\ SubSeq(s, 1, n) \in Seq(EventTypes) /\ SubSeq(s, n + 1, Len(s)) \in Seq(EventTypes)
      /\ Len(SubSeq(s, n + 1, Len(s))) = Len(s) - n
      /\ \A i \in 1..(Len(s) - n) : SubSeq(s, n + 1, Len(s))[i] = s[n + i]
  OBVIOUS
<1> QED
  BY <1>1, <1>2, <1>3, Zenon

\* What the alerts sent and those due come to.
LEMMA AlertsCaughtUp ==
    ASSUME IInv, AlertInv, phase = "tick"
    PROVE  Those(Alerted \X {"event"}, alerts) = AlertsOf(events)
<1> DEFINE head == SubSeq(events, 1, seen)
           tail == SubSeq(events, seen + 1, Len(events))
<1>1. events \in Seq(EventTypes) /\ seen \in 0..Len(events)
  BY DEF IInv, TypeOK, AlertInv, EventTypes
<1>2. /\ head \in Seq(EventTypes) /\ tail \in Seq(EventTypes) /\ events = head \o tail
      /\ Len(tail) = Len(events) - seen
      /\ \A i \in 1..(Len(events) - seen) : tail[i] = events[seen + i]
  BY <1>1, SplitAtSeen
<1>3. Those(Alerted \X {"event"}, alerts) = AlertsOf(head)
  BY DEF AlertInv
<1> HIDE DEF head, tail
<1>4. \A i \in 1..Len(tail) : tail[i] \notin Alerted
  <2> TAKE i \in 1..Len(tail)
  <2>1. seen + i \in (seen + 1)..Len(events) /\ tail[i] = events[seen + i]
    BY <1>1, <1>2
  <2> QED
    BY <2>1 DEF AlertInv
<1>5. Those(Alerted, tail) = <<>>
  BY <1>2, <1>4, ThoseAllOrNone
<1>6. Those(Alerted, head) \in Seq(EventTypes \cap Alerted)
  BY <1>2, ThoseAllOrNone
<1>7. Those(Alerted, events) = Those(Alerted, head) \o Those(Alerted, tail)
  BY <1>2, ThoseJoined
<1>8. Those(Alerted, events) = Those(Alerted, head)
  BY <1>5, <1>6, <1>7, ConcatEmptySeq
<1> QED
  BY <1>3, <1>8 DEF AlertsOf

\* What is sent for the events logged since the last tick are their alerts: the
\* one for the step into the stop is of another kind.
LEMMA DueAre ==
    ASSUME IInv, AlertInv
    PROVE  /\ Due \in Seq(EventTypes \X {"event", "transition"})
           /\ Those(Alerted \X {"event"}, Due)
                = AlertsOf(SubSeq(events, seen + 1, Len(events)))
<1> DEFINE U == EventTypes \X {"event", "transition"}
           A == Alerted \X {"event"}
           a == AlertsOf(SubSeq(events, seen + 1, Len(events)))
           x == IF gov.stopped /\ ~wasStopped THEN <<<<"EMERGENCY_STOP", "transition">>>> ELSE <<>>
<1>1. SubSeq(events, seen + 1, Len(events)) \in Seq(EventTypes)
  BY SplitAtSeen DEF IInv, TypeOK, AlertInv, EventTypes
<1>2. a \in Seq((EventTypes \cap Alerted) \X {"event"})
  BY <1>1, AlertsJoined
<1> HIDE DEF a
<1>3. a \in Seq(U) /\ \A i \in 1..Len(a) : a[i] \in A
  BY <1>2
<1>4. x \in Seq(U) /\ \A i \in 1..Len(x) : x[i] \notin A
  <2>1. <<"EMERGENCY_STOP", "transition">> \in U
    BY DEF EventTypes
  <2>2. <<"EMERGENCY_STOP", "transition">> \notin A
    OBVIOUS
  <2>3. CASE gov.stopped /\ ~wasStopped
    BY <2>1, <2>2, <2>3
  <2>4. CASE ~(gov.stopped /\ ~wasStopped)
    BY <2>4
  <2> QED
    BY <2>3, <2>4
<1>5. Due = a \o x
  BY DEF Due, a
<1> HIDE DEF x, U, A
<1>6. Those(A, a) = a /\ Those(A, x) = <<>>
  BY <1>3, <1>4, ThoseAllOrNone
<1>7. Those(A, a \o x) = Those(A, a) \o Those(A, x)
  BY <1>3, <1>4, ThoseJoined
<1>8. a \o <<>> = a /\ a \o x \in Seq(U)
  BY <1>3, <1>4
<1> QED
  BY <1>5, <1>6, <1>7, <1>8 DEF U, A, a

\* Every action of the loop keeps the invariant.
LEMMA AlertInvStays == IInv /\ AlertInv /\ [AlertNext]_alertVars => AlertInv'
<1> DEFINE A == Alerted \X {"event"}
           U == EventTypes \X {"event", "transition"}
<1> SUFFICES ASSUME IInv, AlertInv, [AlertNext]_alertVars PROVE AlertInv'
  OBVIOUS
<1>1. /\ events \in Seq(EventTypes) /\ seen \in 0..Len(events) /\ Len(events) \in Nat
      /\ alerts \in Seq(U)
  BY DEF IInv, TypeOK, AlertInv, EventTypes
<1>2. CASE Restore
  BY <1>2 DEF Restore, LoadState, AlertInv
<1>3. CASE StartLoop
  <2>1. /\ phase' = "tick" /\ seen' = Len(events) /\ events' = events /\ alerts' = alerts
        /\ events = <<>> /\ alerts = <<>>
    BY <1>3 DEF StartLoop, vars, AlertInv
  <2>2. Those(A, <<>>) = <<>> /\ AlertsOf(SubSeq(events, 1, 0)) = <<>>
    <3>1. Those(A, <<>>) = <<>> /\ Those(Alerted, <<>>) = <<>>
      BY NothingKept
    <3>2. SubSeq(events, 1, 0) = <<>>
      BY <1>1
    <3>3. \A x : x = <<>> => [i \in DOMAIN x |-> <<x[i], "event">>] = <<>>
      OBVIOUS
    <3> QED
      BY <3>1, <3>2, <3>3 DEF AlertsOf
  <2>3. Len(events) = 0
    BY <2>1
  <2> QED
    BY <1>1, <2>1, <2>2, <2>3 DEF AlertInv
<1>4. ASSUME NEW e \in Seq(EventTypes), events' = events \o e, UNCHANGED <<seen, alerts>>,
             phase \in {"tick", "forward"},
             \/ phase' = "forward"
             \/ phase' = phase /\ \A i \in 1..Len(e) : e[i] \notin Alerted
      PROVE  AlertInv'
  <2>1. /\ Len(events') = Len(events) + Len(e) /\ Len(e) \in Nat
        /\ \A i \in 1..Len(events) : events'[i] = events[i]
        /\ \A i \in (Len(events) + 1)..Len(events') : events'[i] = e[i - Len(events)]
    BY <1>1, <1>4
  <2>2. SubSeq(events', 1, seen) = SubSeq(events, 1, seen)
    <3>1. \A i \in 1..seen : events'[i] = events[i]
      BY <1>1, <2>1
    <3> QED
      BY <1>1, <2>1, <3>1
  <2>3. Those(A, alerts) = AlertsOf(SubSeq(events, 1, seen))
    BY <1>4 DEF AlertInv
  <2>4. phase' \in {"tick", "forward"}
    BY <1>4
  <2>5. ASSUME phase' = "tick", NEW i \in (seen + 1)..Len(events') PROVE events'[i] \notin Alerted
    <3>1. phase = "tick" /\ \A j \in 1..Len(e) : e[j] \notin Alerted
      BY <1>4, <2>5
    <3>2. CASE i <= Len(events)
      BY <1>1, <2>1, <2>5, <3>1, <3>2 DEF AlertInv
    <3>3. CASE i > Len(events)
      BY <1>1, <2>1, <2>5, <3>1, <3>3
    <3> QED
      BY <1>1, <2>1, <3>2, <3>3
  <2>6. seen' \in 0..Len(events')
    BY <1>1, <1>4, <2>1
  <2> QED
    BY <1>1, <1>4, <2>2, <2>3, <2>4, <2>5, <2>6 DEF AlertInv
<1>5. CASE TickTrades
  <2>1. PICK pl \in Moves : RecordTradeResult(pl)
    BY <1>5 DEF TickTrades
  <2>2. EventsOf(gov') \in Seq(EventTypes)
    BY EventsOfType
  <2> QED
    BY <1>4, <1>5, <2>1, <2>2 DEF TickTrades, RecordTradeResult
<1>6. CASE OperatorResets
  <2>1. /\ <<"MANUAL_RESET">> \in Seq(EventTypes)
        /\ \A i \in 1..Len(<<"MANUAL_RESET">>) : <<"MANUAL_RESET">>[i] \notin Alerted
    BY DEF EventTypes, Alerted
  <2>2. events' = events \o <<"MANUAL_RESET">>
    BY <1>1, <1>6, AppendIsConcat DEF OperatorResets, ManualReset, EventTypes
  <2> QED
    BY <1>4, <1>6, <2>1, <2>2 DEF OperatorResets
<1>7. CASE TickIdles
  BY <1>7 DEF TickIdles, vars, AlertInv
<1>8. CASE NewDayTick
  BY <1>8 DEF NewDayTick, StartNewDay, AlertInv
<1>9. CASE ForwardAlerts
  <2> DEFINE head == SubSeq(events, 1, seen)
             tail == SubSeq(events, seen + 1, Len(events))
  <2>1. /\ alerts' = alerts \o Due /\ seen' = Len(events) /\ phase' = "tick"
        /\ events' = events /\ phase = "forward"
    BY <1>9 DEF ForwardAlerts, vars
  <2>2. Due \in Seq(U) /\ Those(A, Due) = AlertsOf(tail)
    BY DueAre
  <2>3. Those(A, alerts) = AlertsOf(head)
    BY <2>1 DEF AlertInv
  <2>4. head \in Seq(EventTypes) /\ tail \in Seq(EventTypes) /\ events = head \o tail
    BY <1>1, SplitAtSeen
  <2>5. SubSeq(events, 1, Len(events)) = events
    BY <1>1, SubSeqFull
  <2> HIDE DEF head, tail, A, U
  <2>6. Those(A, alerts \o Due) = Those(A, alerts) \o Those(A, Due)
    BY <1>1, <2>2, ThoseJoined
  <2>7. AlertsOf(head \o tail) = AlertsOf(head) \o AlertsOf(tail)
    BY <2>4, AlertsJoined
  <2>8. Those(A, alerts') = AlertsOf(SubSeq(events', 1, seen'))
    BY <2>1, <2>2, <2>3, <2>4, <2>5, <2>6, <2>7
  <2>9. alerts' \in Seq(U)
    BY <1>1, <2>1, <2>2
  <2>10. seen' \in 0..Len(events') /\ (seen' + 1)..Len(events') = {}
    BY <1>1, <2>1
  <2> QED
    BY <2>1, <2>8, <2>9, <2>10 DEF AlertInv, A, U
<1>10. CASE ForwardRaises
  <2>1. PICK k \in DOMAIN Due : alerts' = alerts \o SubSeq(Due, 1, k)
    BY <1>10 DEF ForwardRaises
  <2>2. Due \in Seq(U)
    BY DueAre
  <2> HIDE DEF U
  <2>3. SubSeq(Due, 1, k) \in Seq(U)
    BY <2>1, <2>2
  <2>4. alerts' \in Seq(U)
    BY <1>1, <2>1, <2>3
  <2> QED
    BY <1>10, <2>4 DEF ForwardRaises, vars, AlertInv, U
<1>11. CASE UNCHANGED alertVars
  BY <1>11 DEF alertVars, vars, AlertInv
<1> QED
  BY <1>2, <1>3, <1>5, <1>6, <1>7, <1>8, <1>9, <1>10, <1>11 DEF AlertNext

\* The trading loop forwards each event once and in its order: whenever a tick
\* is over, the alerts sent for events are those of the whole event log.
THEOREM AlertedOnce == AlertSpec => []EveryEventAlertedOnce
<1>1. AlertInit => AlertInv
  <2> HAVE AlertInit
  <2> QED
    BY DEF AlertInit, Init, AlertInv
<1>2. AlertSpec => []IInv
  BY AlertsFollow, InitIInv, NextIInv, PTL DEF Spec
<1>3. IInv /\ AlertInv => EveryEventAlertedOnce
  BY AlertsCaughtUp DEF EveryEventAlertedOnce
<1> QED
  BY <1>1, <1>2, <1>3, AlertInvStays, PTL DEF AlertSpec
=============================================================================
