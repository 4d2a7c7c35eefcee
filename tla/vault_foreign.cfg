\* A writer, another client that commits deltas, and a clock that may be set back.
CONSTANTS
    d1 = d1
    d2 = d2
    f1 = f1
    w1 = w1
    w2 = w2
    Devices = {d1, d2}
    Foreign = {f1}
    Writers = {w1}
    Ops = {"register", "tombstone"}
    SteadyClock = FALSE
    MaxCommits = 4
    MaxClock = 2
    Absent = Absent
SYMMETRY Interchangeable
SPECIFICATION Spec
PROPERTIES IsRegistry
