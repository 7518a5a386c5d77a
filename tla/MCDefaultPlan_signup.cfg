\* The password of an owner who has signed up.
SPECIFICATION MCSpec
CONSTANTS
    Plans = {v1, v2, p3}
    Requests = {j1, j2}
    NoPlan = NoPlan  NoRequest = NoRequest
    Ops <- AllOps
    Subscribers = {t1}
    Catalogue = {v1, v2}
    Features = {f1}
    NoPlanYet = NoPlanYet
    Calls = {j1, j2}
    EntOps <- AllEntOps
    Gated = {v1, v2}
    Askers = {j1, j2}
    Slugs = {s1}
    Emails = {v1, v2}
    Desks = {j1, j2}
    Elsewhere = Elsewhere  NoSlug = NoSlug  NoEmail = NoEmail
INVARIANTS OwnerCanLogin
CHECK_DEADLOCK FALSE
