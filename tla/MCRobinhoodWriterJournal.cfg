SPECIFICATION Spec
CONSTANTS
  None = None
  Process = {p1}
  Request <- MCRequest
  Intent <- MCIntent
  Replaces <- MCReplaces
  MaxReplacementCount = 1
  Faults = {"crash", "lost answer", "dropped", "damaged", "reorg"}
  MaxFaults = 1
INVARIANT OneNoncePerIntent
INVARIANT FinalIsFinal
