SPECIFICATION MCFilterSpec
CONSTANTS
    Engines = {"searx"}
    Urls = {"u1", "u2", "u3"}
    Texts = {"t1", "t2"}
    MaxResults = 3
    MaxLines = 2
INVARIANTS FilterTypeOK NoEntryTwice NoMatchKept
PROPERTIES ScanAdvances FilterTerminates ImplementsPartition
CHECK_DEADLOCK FALSE
