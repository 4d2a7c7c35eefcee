\* Two slots, two invocations at once, never two on one slot; the
\* token of the default slot is rotated.
CONSTANTS
    default = default
    agent = agent
    Slots = {default, agent}
    DefaultSlot = default
    p1 = p1
    p2 = p2
    Invocations = {p1, p2}
    n1 = n1
    n2 = n2
    Sessions = {n1, n2}
    MaxRefresh = 1
    Rotating = {default}
    Exclusive = TRUE
    FlakyReads = FALSE
    Absent = Absent
SYMMETRY Interchangeable
SPECIFICATION Spec
INVARIANTS TypeOK WholeTriple RemoveReportsTruth CreateReportsTruth
    ReadLeavesUsableToken
PROPERTIES NoSilentOrphan DeletesOwnSession
