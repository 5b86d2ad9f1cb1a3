CONSTANTS
    a = a
    b = b
    i1 = i1
    i2 = i2
    i3 = i3
    Token <- MCToken
    Id <- MCId
    Amount = {1, 2}
    Price = {1, 2}
    TokenUnit = 1
    SlippageBps = 100
    Bps = 10000
    Settings <- MCSettings
    Limits <- MCLimits
    OrderLimit = 2
    InventoryLimit = 2
    Funding = 2
    MaxFunding = 2
    MaxNow = 3
SPECIFICATION Spec
SYMMETRY Symmetry
INVARIANT ActiveListExact
INVARIANT BooksCovered
INVARIANT RollingTurnover
 
PROPERTY RouteMatchesLimits
