SPECIFICATION MCSpec
CONSTANTS
    Imports = {j1, j2}
    Files = {f1}
    Contents = {c1}
    Hashed = {f1}
    Workers = {w1, w2}
    Attempts = 2
    Faults = {"folder", "file", "folderCrash", "fileCrash"}
    MaxFaults = 1
    CloudCalls = {x1, x2}
    STATE_TTL = 1
    TOKEN_TTL = 2
    TOKEN_EXPIRY_MARGIN = 1
    MaxGrants = 2
    MaxNow = 4
    Parties = {"A", "B"}
    Folders = {"r", "f", "g"}
    RootFolder = "r"
    ParentOf <- MCParentOf
    MaxTouches = 4
SYMMETRY MCSymmetry
INVARIANTS ResyncLosesNothing ReconnectHolds ImportsPageFits
CHECK_DEADLOCK FALSE
