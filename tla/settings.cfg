\* Two slots, a process, another client; any call of `list` may fail.
CONSTANTS
    own = own
    agent = agent
    Slots = {own, agent}
    p1 = p1
    Procs = {p1}
    m1 = m1
    m480 = m480
    Limits = {m1, m480}
    MinLimit = m1
    DefaultLimit = m480
    theirs = theirs
    OtherKeys = {theirs}
    Odd = Odd
    Bad = Bad
    Shared = {own}
SPECIFICATION Spec
INVARIANTS TypeOK 
PROPERTY ChangesOneSetting
