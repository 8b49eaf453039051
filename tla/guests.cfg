SPECIFICATION FairSpec
CONSTANTS
    Guests = {g1}
    Photos = {p1}
    Shows <- EveryoneOnAll
    SelfieSlots = {s1}
    MaxSelfies = 1
    EmailLimit = 2
    MaxFaults = 1
INVARIANTS  NoticesAskedFor
PROPERTIES GuestsAreServed
CHECK_DEADLOCK FALSE
