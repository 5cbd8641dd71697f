CONSTANTS
    k1 = k1
    k2 = k2
    NoK = NoK
    Tasks <- MCTasks
    NoTask <- NoK
    Margin = 2
    ExpiresIn = {2, 4}
    MaxTime = 7
    MaxTokens = 3

SPECIFICATION Spec
SYMMETRY MCSymmetry

INVARIANT RefreshSerialised
INVARIANT CachedExpiryWithinReal
PROPERTY TokenCacheRefinesSpec
