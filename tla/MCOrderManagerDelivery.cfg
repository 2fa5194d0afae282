\* Lost, late and repeated attempts for few signals, in pairs that share a currency.
CONSTANTS
  StartingBalance = 20
  MaxDailyLoss = 6
  MaxDrawdownPct = 30
  WarningPct = 50
  MaxConsecutiveLosses = 3
  Symbols <- MCSymbols
  Currencies <- MCCurrencies
  Pair <- MCPair
  MaxExposure = 1
  Cooldown = 0
  HourSpan = 3
  DaySpan = 5
  MaxPerHour = 3
  MaxPerDay = 3
  RiskPermille = 100
  MaxStake = 3
  MinEdgePct = 3
  MinExpectedValue = 0
  MaxLatency = 0
  Signals = {s1, s2, s3}
  Candidates = {"CALL", "PUT", "NO_TRADE"}
  ClosesPositions = FALSE
  Probabilities = {60}
  Gains = {0, 1, 11}
  Delays = {0, 1}
  MaxTime = 1
  MaxOrders = 3
  NoAttempt = NoAttempt
SYMMETRY MCSignalSymmetry
SPECIFICATION Spec
INVARIANTS
  TypeOK
  OneContractPerSignal
  OnlyPermittedOrders
  ExposureBounded
PROPERTIES
  ImplementsLedger
  NoMartingale
