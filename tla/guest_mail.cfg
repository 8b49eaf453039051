SPECIFICATION Spec
CONSTANTS
    Photos = {p1, p2, p3}
    Matchers = {m1}
    MailSlots = {w1, w2}
    Throttle = 1
    MaxSubmissions = 2
    MaxResends = 1
    MaxTicks = 1
    MaxFaults = 1
SYMMETRY Interchangeable
INVARIANTS GalleryReachable
PROPERTIES DigestsApart
CHECK_DEADLOCK FALSE
