\* A named slot whose token is due for rotation.
CONSTANTS
    default = default
    agent = agent
    Slots = {default, agent}
    DefaultSlot = default
    p1 = p1
    p2 = p2
    Invocations = {p1}
    n1 = n1
    n2 = n2
    Sessions = {n1, n2}
    MaxRefresh = 1
    Rotating = {agent}
    Exclusive = TRUE
    FlakyReads = FALSE
    Absent = Absent
SPECIFICATION Spec
INVARIANTS ReadLeavesUsableToken
