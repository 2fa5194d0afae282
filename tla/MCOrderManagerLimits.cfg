\* Cooldown, hour and day: four trades over seven units of time, positions closed.
CONSTANTS
  StartingBalance = 20
  MaxDailyLoss = 6
  MaxDrawdownPct = 30
  WarningPct = 50
  MaxConsecutiveLosses = 3
  Symbols <- MCOneSymbol
  Currencies <- MCCurrencies
  Pair <- MCOnePair
  MaxExposure = 4
  Cooldown = 1
  HourSpan = 3
  DaySpan = 5
  MaxPerHour = 2
  MaxPerDay = 3
  RiskPermille = 100
  MaxStake = 2
  MinEdgePct = 3
  MinExpectedValue = 0
  MaxLatency = 0
  Signals = {s1, s2, s3, s4}
  Candidates = {"CALL"}
  ClosesPositions = TRUE
  Probabilities = {60}
  Gains = {2}
  Delays = {0, 1}
  MaxTime = 6
  MaxOrders = 4
  NoAttempt = NoAttempt
SYMMETRY MCSignalSymmetry
SPECIFICATION Spec
INVARIANTS
  CooldownSpacing
  RateLimitsHold
