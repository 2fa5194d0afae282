CONSTANTS
  StartingBalance = 20
  MaxDailyLoss = 4
  MaxDrawdownPct = 30
  WarningPct = 50
  MaxConsecutiveLosses = 3
  Moves <- MCMoves
  SavedStates <- MCSavedStates
  MaxEvents = 4
  Balances <- MCBalances
SPECIFICATION AlertSpec
CHECK_DEADLOCK FALSE
INVARIANTS
  PeakDominates
  StoppedAtDrawdownLimit
  EveryEventAlertedOnce
PROPERTIES
  NeverMoreRiskAfterLoss
  StopOnlyLiftedByReset
  RiskRegainedOnlyBy
