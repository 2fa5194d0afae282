CONSTANTS
  MinEdgePct = 3
  MinExpectedValue = 0
  Clients = {advisor, discoverer, storer, streamer}
  Advisor = advisor
  Discoverer = discoverer
  Durations <- MCDurations
  ModelProbs = {60}
  NoQuote = NoQuote
  Listings <- MCListings
  Listable <- MCListable
  MaxPasses = 1
  NoMarket = NoMarket
  Quotes <- MCQuotes
  Offers <- MCOffers
  Storer = storer
  Counts = {2, 3}
  MaxNow = 6
  MaxFetches = 3
  Streamer = streamer
  NoValue = NoValue
  StaleAfter = 1
  CandleLength = 2
  MaxClock = 3
  MaxTicks = 4
  Together <- MCTogether
  RawTicks <- MCRawTicks
SPECIFICATION FairSpec
CHECK_DEADLOCK FALSE
INVARIANTS
  TypeOK
  QuotesBelong
  ContractsBelong
  HolesAreWide
  GoodTicksInOrder
PROPERTIES
  AdviceEnds
