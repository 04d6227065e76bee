SPECIFICATION MCSpec
CONSTANTS
    Engines = {"bing", "searx", "brave"}
    Urls = {"u1", "u2"}
    Texts = {"t1", "t2"}
    Answers <- MCAnswers
    Score <- MCScore
INVARIANT EnginesAreCombined
CHECK_DEADLOCK FALSE
