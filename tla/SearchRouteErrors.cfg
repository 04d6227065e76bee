SPECIFICATION Spec
CONSTANTS
    Requests = {"a"}
    PageParams = {1}
    UrlLevels <- MCUrlLevels
    CookieLevels = {0}
    ConfigLevels = {0, 3, 4}
    EngineLists <- MCNoneOrOne
    Aggregated <- MCAnyOutcome
    ListsFail = FALSE
    Expires = FALSE
    CacheFails = FALSE
    Overwrites = TRUE
INVARIANTS FailedEnginesAreReported
