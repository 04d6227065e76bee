SPECIFICATION Spec
CONSTANTS
    Requests = {"a", "b"}
    Keys = {"page0", "page1"}
    KeyLists <- MCKeyLists
    TTL = 2
    Builds = {"memory", "hybrid"}
    Failures = TRUE
    MaxWrites = 2
INVARIANTS HitsWereCached MissesOnlyWhatExpired
PROPERTIES CallsAdvance CallsReturn ImplementsExpiringCache
