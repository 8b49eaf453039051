SPECIFICATION MCSpec
CONSTANTS
    a = a
    b = b
    c = c
    None = None
    Faces = {a, b}
    Near <- Pair
    Persons = {1, 2, 3}
    minFaces = 1
    MaxTime = 2
    MaxActs = 1
    MaxFaults = 1
    Galleries = {"A", "B"}
    Clusters = {"c1", "c2", "c4"}
    EventOf <- MCEventOf
    MaxMoves = 7
    PersonIds = {"p", "q"}
    Takes = {1, 2, 3}
    StartsWith <- MCStartsWith
    DayOf <- MCDayOf
    MaxGestures = 5
    Images = {1, 2}
    QUEUE_ALL_PAGE_SIZE = 1
    Servers = {x1, x2}
    MaxAttempts = 1
SYMMETRY MCSymmetry
INVARIANTS PeopleInv PeoplePagesFit SearchComplete
PROPERTIES NamesMoveForward
CHECK_DEADLOCK FALSE
