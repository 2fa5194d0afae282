------------------------- MODULE CapitalRampProofs -------------------------
(***************************************************************************)
(* Proofs about the capital ramp: its types, that no trade is evidence for *)
(* two advances, and that every advance takes new trades.                  *)
(***************************************************************************)
EXTENDS CapitalRamp, FiniteSetTheorems, TLAPS

\* The stage began with the trade logged last when it last changed, and what
\* earlier advances were granted for lies at or before it.
StageInv == /\ RampTypeOK
            /\ entryId = changedAt
            /\ advances \in Seq(SUBSET Int)
            /\ \A i \in DOMAIN advances : \A t \in advances[i] : t <= entryId
            /\ EvidenceUsedOnce

\* The invariant holds initially.
LEMMA StageInvInit == Init => StageInv
  BY DEF Init, StageInv, RampTypeOK, EvidenceUsedOnce, Stages

\* The trades since the stage began are those logged since it last changed.
LEMMA SinceCounts ==
    ASSUME StageInv
    PROVE  Cardinality(Since(entryId)) = Len(log) - changedAt
<1>1. log \in Seq(Int) /\ entryId \in Nat /\ Len(log) \in Nat /\ entryId <= Len(log)
  BY DEF StageInv, RampTypeOK
<1>2. Since(entryId) = entryId + 1 .. Len(log)
  BY <1>1 DEF Since
<1>3. Cardinality(entryId + 1 .. Len(log)) = Len(log) - entryId
  <2>1. entryId + 1 \in Int /\ Len(log) \in Int
    BY <1>1
  <2>2. Cardinality(entryId + 1 .. Len(log))
          = IF entryId + 1 > Len(log) THEN 0 ELSE Len(log) - (entryId + 1) + 1
    BY <2>1, FS_Interval
  <2> QED
    BY <1>1, <2>2
<1> QED
  BY <1>1, <1>2, <1>3 DEF StageInv

-----------------------------------------------------------------------------
\* Every operation preserves the invariant.
LEMMA StageInvNext == StageInv /\ [Next]_vars => StageInv'
<1> SUFFICES ASSUME StageInv, [Next]_vars
             PROVE  StageInv'
  OBVIOUS
<1> USE DEF StageInv, RampTypeOK
<1>1. ASSUME NEW pl \in Results, TradeLogged(pl)
      PROVE  StageInv'
  <2>1. pl \in Int
    BY <1>1, RampAssumption
  <2>2. log' \in Seq(Int) /\ Len(log') = Len(log) + 1
    BY <1>1, <2>1 DEF TradeLogged
  <2> QED
    BY <1>1, <2>2 DEF TradeLogged, EvidenceUsedOnce
<1>2. CASE Advance
  <2> DEFINE new == entryId + 1 .. LatestId
  <2>1. LatestId \in Nat /\ LatestId = Len(log) /\ entryId \in Nat /\ entryId <= LatestId
    BY DEF LatestId
  <2>2. rank' \in 1..Len(Stages)
    BY <1>2 DEF Advance, Eligible, Stages
  <2>0. Since(entryId) = new
    BY <2>1 DEF Since, LatestId
  <2>3. /\ advances' \in Seq(SUBSET Int)
        /\ Len(advances') = Len(advances) + 1
        /\ \A i \in DOMAIN advances' :
              advances'[i] = IF i = Len(advances) + 1 THEN new ELSE advances[i]
    BY <1>2, <2>0, <2>1 DEF Advance
  <2>4. \A i \in DOMAIN advances' : \A t \in advances'[i] : t <= LatestId
    <3> SUFFICES ASSUME NEW i \in DOMAIN advances', NEW t \in advances'[i]
                 PROVE  t <= LatestId
      OBVIOUS
    <3>1. CASE i = Len(advances) + 1
      BY <2>1, <2>3, <3>1
    <3>2. CASE i # Len(advances) + 1
      <4>1. i \in DOMAIN advances /\ t \in advances[i] /\ t \in Int
        BY <2>3, <3>2
      <4> QED
        BY <2>1, <4>1
    <3> QED
      BY <3>1, <3>2
  <2>5. EvidenceUsedOnce'
    <3> SUFFICES ASSUME NEW i \in DOMAIN advances', NEW j \in DOMAIN advances',
                        i # j, NEW t \in advances'[i], t \in advances'[j]
                 PROVE  FALSE
      BY DEF EvidenceUsedOnce
    <3>1. \A k \in DOMAIN advances' : k # Len(advances) + 1 => k \in DOMAIN advances
      BY <2>3
    <3>2. CASE i = Len(advances) + 1
      <4>1. j \in DOMAIN advances /\ t \in advances[j] /\ t \in new
        BY <2>3, <3>1, <3>2
      <4> QED
        BY <2>1, <4>1
    <3>3. CASE j = Len(advances) + 1
      <4>1. i \in DOMAIN advances /\ t \in advances[i] /\ t \in new
        BY <2>3, <3>1, <3>3
      <4> QED
        BY <2>1, <4>1
    <3>4. CASE i # Len(advances) + 1 /\ j # Len(advances) + 1
      BY <2>3, <3>1, <3>4 DEF EvidenceUsedOnce
    <3> QED
      BY <3>2, <3>3, <3>4
  <2>6. entryId' = LatestId /\ changedAt' = LatestId /\ log' = log
    BY <1>2 DEF Advance
  <2> QED
    BY <2>1, <2>2, <2>3, <2>4, <2>5, <2>6
<1>3. CASE Demote
  <2>1. LatestId \in Nat /\ LatestId = Len(log) /\ entryId \in Nat /\ entryId <= LatestId
    BY DEF LatestId
  <2>2. /\ entryId' = LatestId /\ changedAt' = LatestId
        /\ log' = log /\ advances' = advances
    BY <1>3 DEF Demote
  <2>3. rank' \in 1..Len(Stages)
    BY <1>3 DEF Demote, Stages
  <2>4. \A i \in DOMAIN advances : \A t \in advances[i] : t \in Int /\ t <= LatestId
    BY <2>1
  <2> QED
    BY <2>1, <2>2, <2>3, <2>4 DEF EvidenceUsedOnce
<1>4. CASE Restart
  BY <1>4 DEF Restart, EvidenceUsedOnce, Stages
<1>5. CASE UNCHANGED vars
  BY <1>5 DEF vars, EvidenceUsedOnce
<1> QED
  BY <1>1, <1>2, <1>3, <1>4, <1>5 DEF Next

\* The invariant holds throughout.
THEOREM StageInvariant == Spec => []StageInv
<1>1. Init => StageInv
  BY StageInvInit
<1>2. StageInv /\ [Next]_vars => StageInv'
  BY StageInvNext
<1> QED
  BY <1>1, <1>2, PTL DEF Spec

\* No trade of the log is evidence for two advances of a process, whatever
\* the bar, the results and the mixture of advances and demotions.
THEOREM EvidenceOnce == Spec => []EvidenceUsedOnce
<1>1. StageInv => EvidenceUsedOnce
  BY DEF StageInv
<1> QED
  BY <1>1, StageInvariant, PTL

\* An advance comes at least min_trades_to_advance trades after the stage
\* last changed, upwards or downwards.
THEOREM NewTradesNeeded == Spec => AdvanceNeedsNewTrades
<1>1. ASSUME StageInv, [Next]_vars
      PROVE  [rank' > rank => Len(log) - changedAt >= MinTrades]_vars
  <2> SUFFICES ASSUME Next, rank' > rank
               PROVE  Len(log) - changedAt >= MinTrades
    BY <1>1
  <2>1. rank \in Nat
    BY <1>1 DEF StageInv, RampTypeOK, Stages
  <2>2. Advance
    BY <1>1, <2>1 DEF Next, TradeLogged, Demote, Restart, StageInv, RampTypeOK, Stages
  <2>3. Cardinality(Since(entryId)) >= MinTrades
    BY <2>2 DEF Advance, Eligible
  <2>4. Cardinality(Since(entryId)) = Len(log) - changedAt
    BY <1>1, SinceCounts
  <2> QED
    BY <2>3, <2>4
<1> QED
  BY <1>1, StageInvariant, PTL DEF Spec, AdvanceNeedsNewTrades
=============================================================================
