SPECIFICATION Spec
CONSTANTS
    Keys = {"page0"}
    TTL = 2
    Builds <- MCBuilds
    MaxProcesses = 1
    MaxCommands = 2
INVARIANTS StoredIsReadBack
