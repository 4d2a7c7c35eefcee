\* All logs of four commits over two ids and three times; numbers around every
\* bound of the widths; five days of half hours around a change of the clocks.
CONSTANTS
    Elements = {"a", "b"}
    Times = {0, 1, 2}
    MaxLen = 4
    MaxU64 = 500000
    MaxU32 = 138
    Numbers = {0, 1, 2, 3, 29, 59, 60, 61, 89, 90, 119, 120, 121, 138, 139, 140, 8280, 8339, 8340, 8333, 8334, 500000}
    Ids = {i1, i2}
    Absent = absent
    Junk = junk
    Types = {"Private"}
SPECIFICATION Spec
INVARIANTS FoldIsLatest OrderMattersOnlyInTies TimeoutIsHonoured GrantEndsTomorrowNight SnapshotIsWhole
CHECK_DEADLOCK FALSE
