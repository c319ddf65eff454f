SPECIFICATION Spec
CONSTANTS
    here = here
    p = p
    q = q
    f = f
    g = g
    Choices <- SomeJobs
    MaxJobs = 2
    Mat2 = TRUE
INVARIANTS HistoryTells SentClean CopiesRemoved
PROPERTIES CancelStops
CHECK_DEADLOCK FALSE
