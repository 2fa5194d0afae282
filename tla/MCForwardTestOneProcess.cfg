\* One process, never crashing, over three days.
CONSTANTS
  StartingBalance = 20
  MaxDailyLoss = 2
  MaxDrawdownPct = 15
  WarningPct = 80
  MaxConsecutiveLosses = 2
  Symbols <- MCSymbols
  Currencies <- MCCurrencies
  Pair <- MCPair
  MaxExposure = 9
  Cooldown = 1
  HourSpan = 2
  DaySpan = 3
  MaxPerHour = 2
  MaxPerDay = 3
  RiskPermille = 200
  MaxStake = 2
  MinEdgePct = 3
  MinExpectedValue = 0
  MaxLatency = 1
  Signals <- MCSignals
  Probabilities = {60}
  Candidates = {"CALL", "NO_TRADE"}
  ClosesPositions = FALSE
  Gains = {2}
  Delays = {0, 1}
  MaxTime = 6
  MaxOrders = 3
  NoAttempt = NoAttempt
  PollInterval = 2
  FirstBackoff = 1
  MaxBackoff = 2
  MaxPolls = 1
  MaxTicks = 4
  MaxCrashes = 0
  NoRow = NoRow
SPECIFICATION FairLoopSpec
INVARIANTS
  LoopTypeOK
  NothingLeftOpen
  StopLetsOneOut
  DailyLossIsTodaysLoss
  TodaysLossBounded
PROPERTIES
  TickEnds
  HaltedSendsNothing
  LossHaltIsFinal
