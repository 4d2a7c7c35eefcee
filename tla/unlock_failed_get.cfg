\* A strict slot: a read that fails once it is unlocked.
CONSTANTS
    p1 = p1
    p2 = p2
    Invocations = {p1}
    Jobs = {"get"}
    Strict = TRUE
    MaxWait = 0
    Forever = Forever
    Alone = TRUE
    Faults = TRUE
    Obliging = TRUE
SPECIFICATION Spec
PROPERTIES NextAccessAsks
