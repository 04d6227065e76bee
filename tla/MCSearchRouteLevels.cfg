SPECIFICATION Spec
CONSTANTS
    Requests = {"a"}
    PageParams = {0}
    UrlLevels <- MCUrlOrNot
    CookieLevels = {4}
    ConfigLevels = {0, 4}
    EngineLists <- MCOneList
    Aggregated <- MCSomeHits
    ListsFail = TRUE
    Expires = TRUE
    CacheFails = TRUE
    Overwrites = FALSE
INVARIANTS TypeOK RightResults ConfigLevelBinds
PROPERTIES Answered
