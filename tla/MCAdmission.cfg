SPECIFICATION FairSpec
CONSTANTS
  MaxU128 = 40
  MaxU64 = 30
  MultiplierScale = 2
  USD_SCALE = 1
  LegCap = 20
  GrossCap = 30
  LegNavDenominator = 4
  GrossNavDenominator = 2
  MaxOrderIndex = 7
  MinExpiry = 1
  MaxExpiry = 5
  Client = {c1, c2}
  Scenario <- MCScenario
  Quote <- MCQuote
  Config <- MCConfig
  BPS = 4
  Promoted <- MCPromoted
  FirstOperatorIndex = 5
  MaxTries = 2
INVARIANT OrdersDisjoint
PROPERTY AdmittedUnderAuthority
PROPERTY TransactionsEnd
INVARIANT EveryFillHedged
