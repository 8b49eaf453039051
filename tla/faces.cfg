SPECIFICATION ChainSpec
CONSTANTS
    a = a
    b = b
    c = c
    None = None
    Faces = {a, b, c}
    Near <- Chain
    Persons = {1, 2, 3}
    minFaces = 3
    MaxTime = 1
    MaxActs = 1
    MaxFaults = 0
PROPERTIES FacesClustered
CHECK_DEADLOCK FALSE
