\* A caching slot that two commands share; anything may fail.
CONSTANTS
    p1 = p1
    p2 = p2
    Invocations = {p1, p2}
    Jobs = {"get", "unlock", "lock", "rename"}
    Strict = FALSE
    MaxWait = 1
    Forever = Forever
    Alone = FALSE
    Faults = TRUE
    Obliging = FALSE
SPECIFICATION LiveSpec
PROPERTIES TimedCommandEnds
