SPECIFICATION Spec
CONSTANTS
    Reads <- MCReads
    Requests = {"r"}
    Envs <- MCEnvs
    ArgLists <- MCArgLists
    Urls <- MCUrls
    KnownEngines = {"bing", "duckduckgo"}
    Peers = {"a", "b"}
    Machines <- MCMachines
    MaxClock = 2
INVARIANTS ApiConfigInEffect AnswersMatchRequests ServedConfigIsSound WorkersLimitPeers
PROPERTIES RequestsAnswered
CHECK_DEADLOCK FALSE
