\* The loss of the day and a restart within it.
CONSTANTS
  StartingBalance = 20
  MaxDailyLoss = 2
  MaxDrawdownPct = 60
  WarningPct = 80
  MaxConsecutiveLosses = 4
  Symbols <- MCSymbols
  Currencies <- MCCurrencies
  Pair <- MCPair
  MaxExposure = 9
  Cooldown = 1
  HourSpan = 2
  DaySpan = 4
  MaxPerHour = 2
  MaxPerDay = 3
  RiskPermille = 200
  MaxStake = 2
  MinEdgePct = 3
  MinExpectedValue = 0
  MaxLatency = 1
  Signals <- MCSignals
  Probabilities = {60}
  Candidates = {"CALL"}
  ClosesPositions = FALSE
  Gains = {2}
  Delays = {0}
  MaxTime = 7
  MaxOrders = 3
  NoAttempt = NoAttempt
  PollInterval = 2
  FirstBackoff = 1
  MaxBackoff = 2
  MaxPolls = 1
  MaxTicks = 3
  MaxCrashes = 1
  NoRow = NoRow
SPECIFICATION LoopSpec
INVARIANTS
  TodaysLossBounded
