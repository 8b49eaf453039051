SPECIFICATION FairSpec
CONSTANTS
    u1 = u1
    u2 = u2
    u3 = u3
    Uploads = {u1, u2, u3}
    Content <- TwoAlike
    Limit = 1
    Batch <- TwoTabs
    UPLOAD_CONCURRENCY = 1
    Slots = {w1, w2}
    MaxDeletes = 1
    MaxReruns = 1
    MaxFaults = 1
INVARIANTS LibraryInv
PROPERTIES ComesToRest
CHECK_DEADLOCK FALSE
