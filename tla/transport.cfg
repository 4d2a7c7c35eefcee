\* Three invocations of eight calls; up to four responses cut.
CONSTANTS
    Program <- MCProgram
    Reads = {"CreateChallenge", "Sync", "ListAuthenticators", "ListCommits"}
    Mutating = {"CreateTokens", "RefreshToken", "RequestSessionUnlock"}
    Open = {"CreateChallenge", "CreateTokens"}
    Declared = {"Sync"}
    Refusals <- MCRefusals
    READ_RETRIES = 3
    MaxPolls = 3
    MaxDrops = 4
    None = None
SPECIFICATION Spec
INVARIANTS RetriesOnlyDrops IdentityIsTaken ReplayAgrees CleanReplayIsComplete
CHECK_DEADLOCK FALSE
