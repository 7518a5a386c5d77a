\* Two creates at the same time.
SPECIFICATION MCSpec
CONSTANTS
    p1 = p1  p2 = p2
    Kinds <- MCOneKind
    Requests = {p1, p2}
    LimitValues <- MCFiniteLimits
    MaxDocs = 2
    Docs = {n1, n2, n3}
    Names = {x1, x2}
    NoName = NoName
    Clerks = {p1, p2}
    MaxPinned = 2
    Jobs = {c1}
    Events <- MCEvents
    Watched <- MCWatched
    Slips = {s1}
    Porters = {p1, p2}
    NoTime = NoTime
    Kept = Kept
    MaxTime = 1
    Cashiers = {p1, p2}
    Sums <- MCSums
    Entries = {d1, d2}
    MaxWrites = 2
    Codes = {o1, o2}
    Phones = {p1, p2}
    MaxAttempts = 2
    MaxAsked = 4
    NoCode = NoCode
    Stays = {r1, r2}
    Guests = {g1}
    NoStay = NoStay
    Clients = {p1, p2}
    MaxSession = 2
INVARIANTS LimitRespected
