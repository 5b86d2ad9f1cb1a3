SPECIFICATION FairSpec
CONSTANT Message <- MCMessage
INVARIANT FrontierExact
PROPERTY DeliversInOrder
PROPERTY GapsHeal
