SPECIFICATION FairSpec
CONSTANTS
  User = {"a", "b"}
  DefaultCap = 2
  DefaultWindow = 2
  Mandate <- MCMandate
  Notional = {1, 2}
  Confirmations = 1
  Tab <- MCTab
  UserOf <- MCUserOf
  BlockRange = 2
  Lookback = 2
  Scenarios <- MCScenarios
CHECK_DEADLOCK FALSE
 
 
 
PROPERTY IndexerCatchesUp
 
