SPECIFICATION Spec
CONSTANTS
    Keys = {"page0", "page1"}
    TTL = 2
    Builds <- MCBuilds
    MaxProcesses = 3
    MaxCommands = 2
INVARIANTS ReadsAreThePage OwnEntriesReadBack ExistsIsReadable
PROPERTIES UndecodableEntriesEnd
