SPECIFICATION MCSpec
CONSTANTS
    Engines = {"bing", "searx", "brave"}
    Urls = {"u1", "u2"}
    Texts = {"t1", "t2"}
    Answers <- MCAnswers
    Score <- MCScore
INVARIANTS TypeOK ResultsDistinct NamesCoverTasks ErrorsCounted FirstArrivalKept SafeResults
PROPERTIES AggregateAdvances AggregateReturns
CHECK_DEADLOCK FALSE
