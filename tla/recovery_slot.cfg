\* Recovery into a slot that holds a session already.
CONSTANTS
    priv = priv
    tmeta = tmeta
    team = team
    inbox = inbox
    admin = admin
    p1 = p1
    p2 = p2
    Profiles <- MCProfiles
    VaultList <- MCVaultList
    Kind <- MCKind
    Locker <- MCLocker
    Pair <- MCPair
    Log <- MCLog
    FreeName <- MCFreeName
    Flags <- MCFlags
    Faults <- MCFaults
    None = None
    Malformed = Malformed
    Ours = ours
    MaxRekeys = 1
    Authenticators = {code, phone, tablet}
    Backup = code
    Infos = {"readable", "empty", "malformed", "costly"}
    Codes = {"right", "wrong", "misspelt"}
    RightCode = "right"
    Misspelt = {"misspelt"}
    Slot0 = {"none", "old"}
    MaxPairings = 1
    Phones = {f1, f2, f3}
    New = {f2}
    Unsalted = {f3}
SPECIFICATION Spec
INVARIANT RecoveredSlotIsWhole
CHECK_DEADLOCK FALSE
