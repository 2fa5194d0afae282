CONSTANTS
  MinEdgePct = 0
  MinExpectedValue = 0
  CriticalPermille = 1000
  Prices = {1, 2}
  Warmup = 1
  Duration = 1
  NWindows = 2
  TrainTenths = 6
  Stake = 5
  WinProfit = 4
  MinSample = 2
  MinExamples = 3
  MinPerClass = 1
  Baselines <- MCBaselines
  Reported = "simple_trend"
  Signal <- MCSignal
  RegimeOf <- MCRegimeOf
  MaxCandles = 9
  MaxStored = 10
  Bankroll = 10
  DrawdownPct = 90
  StabilityPct = 50
  StreakLength = 2
  MinLifetimeTrades = 3
  MaxErrors = 3
  TradeLogs <- MCTradeLogs
  ErrorCounts = {0, 4}
SPECIFICATION ChecklistSpec
CHECK_DEADLOCK FALSE
INVARIANTS
  ChecklistTypeOK
  EveryCandleCounted
  NoLookAhead
  WindowsAgree
  HeldOut
  DrawdownIsWorstFall
  VerdictsAreEarned
  StressNeverEasier
