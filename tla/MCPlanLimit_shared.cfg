\* Each component of the office with requests in flight: beds and rooms under
\* one limit, named records, notifications, gate passes, deposits, figures,
\* one-time codes and the logins of residents and staff.
SPECIFICATION MCSpec
CONSTANTS
    p1 = p1  p2 = p2
    Kinds <- MCSharedKinds
    Requests = {p1, p2}
    LimitValues <- MCAnyLimits
    MaxDocs = 2
    Docs = {n1, n2, n3}
    Names = {x1, x2}
    NoName = NoName
    Clerks = {p1, p2}
    MaxPinned = 2
    Jobs = {c1}
    Events <- MCEvents
    Watched <- MCWatched
    Slips = {s1}
    Porters = {p1, p2}
    NoTime = NoTime
    Kept = Kept
    MaxTime = 1
    Cashiers = {p1, p2}
    Sums <- MCSums
    Entries = {d1, d2}
    MaxWrites = 2
    Codes = {o1, o2}
    Phones = {p1, p2}
    MaxAttempts = 2
    MaxAsked = 4
    NoCode = NoCode
    Stays = {r1, r2}
    Guests = {g1}
    NoStay = NoStay
    Clients = {p1, p2}
    MaxSession = 2
SYMMETRY Symmetry
INVARIANTS
    OvershootBounded Inv
    NamesBounded SeedThorough
    SentWasAllowed OneOutcome
    PassJudged
    ReceiptStands RefundBacked MoneyAccounted
    PartsAddUp
    CodeUsesBounded LimitEnds
    GrantsBacked
    SessionBacked
