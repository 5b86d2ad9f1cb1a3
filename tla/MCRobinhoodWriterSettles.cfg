SPECIFICATION FairSpec
CONSTANTS
  None = None
  Process = {p1}
  Request <- PairRequest
  Intent <- PairIntent
  Replaces <- PairReplaces
  MaxReplacementCount = 1
  Faults = {"crash", "lost answer", "dropped"}
  MaxFaults = 2
 
PROPERTY IntentSettles
