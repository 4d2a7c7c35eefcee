\* Two writers, one steady clock.  It stops when every commit, reading of the
\* clock and device of the bounds is used up.
CONSTANTS
    d1 = d1
    d2 = d2
    f1 = f1
    w1 = w1
    w2 = w2
    Devices = {d1, d2}
    Foreign = {}
    Writers = {w1, w2}
    Ops = {"register", "rename", "tombstone"}
    SteadyClock = TRUE
    MaxCommits = 4
    MaxClock = 2
    Absent = Absent
SYMMETRY Interchangeable
CHECK_DEADLOCK FALSE
SPECIFICATION Spec
INVARIANTS TypeOK
PROPERTIES IsRegistry EditTakesEffect
