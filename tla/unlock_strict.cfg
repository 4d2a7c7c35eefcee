\* A strict slot, one command at a time, and a person who answers.
CONSTANTS
    p1 = p1
    p2 = p2
    Invocations = {p1, p2}
    Jobs = {"get", "unlock", "lock"}
    Strict = TRUE
    MaxWait = 2
    Forever = Forever
    Alone = TRUE
    Faults = FALSE
    Obliging = TRUE
SPECIFICATION AnsweredSpec
INVARIANTS TypeOK
PROPERTIES Confirmed WaitEnds
