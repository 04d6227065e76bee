SPECIFICATION Spec
CONSTANTS
    Modulus = 64
    Pages <- MCPages
    Profiles = {"release", "dev"}
    MaxItems <- MCMaxItems
    Links <- MCLinks
INVARIANTS PagesTile StricterLevels OutcomesAreTruthful RedirectsAreUndone
CHECK_DEADLOCK FALSE
