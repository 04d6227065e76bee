SPECIFICATION Spec
CONSTANTS
    Requests = {"a", "b"}
    PageParams = {1, 2}
    UrlLevels <- MCNoLevel
    CookieLevels = {0}
    ConfigLevels = {0}
    EngineLists <- MCOneList
    Aggregated <- MCSomeHits
    ListsFail = FALSE
    Expires = TRUE
    CacheFails = FALSE
    Overwrites = TRUE
INVARIANTS RightResults NoNeedlessFetch
PROPERTIES PagesAroundGetCached
