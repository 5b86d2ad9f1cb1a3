CONSTANTS
    old = old
    new = new
    x = x
    Agent <- MCAgent
    Symbol <- MCSymbol
    MaxTicks <- MCMaxTicks
    MaxFaults = 1
SPECIFICATION Spec
CHECK_DEADLOCK FALSE
INVARIANT MarkMatchesEpisode
INVARIANT EvaluatedInOrder
INVARIANT TicksAccounted
PROPERTY TicksPassed
