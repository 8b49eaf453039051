SPECIFICATION MCSpec
CONSTANTS
    Photos = {1, 2, 3, 4}
    Uploads = {3}
    Albums = {"A", "B"}
    AlbumOf <- MCAlbumOf
    PageLimit = 1
    CaptureDates = {1, 2}
    Asks = {x1, x2}
    MaxTurns = 3
    Wants = {x1, x2}
    Pictures = {"p1", "p2", "p3"}
    Clips = {"p3"}
    MAX_ZOOM = 1
    MaxClicks = 5
    Polls = {x1, x2}
    selfiesRunHere = FALSE
    TICKET_TTL = 1
    MaxClock = 2
    LIVE_MODE_MAX_PENDING = 0
    MaxPending = 1
    MaxTurnings = 3
    Memories = 3
    ReelLength <- MCReelLength
    LastStep = 1
    MaxVisits = 4
    Galas2 = {"e1", "e2"}
    Slugs = {"e1", "e2", "s3"}
    SlugOf <- MCSlugOf
    MaxEdits = 6
    Frame = 2
    MinSide = 1
    Shapes <- MCShapes
    Reach = 1
    Mails = {"l1"}
    Tickets = {x1, x2}
    TOLERANCE = 1
    MaxReports = 3
SYMMETRY MCSymmetry
INVARIANTS ScreensFit WaitsAreWatched CropInFrame MailLogTrue
CHECK_DEADLOCK FALSE
