\* Every endpoint of several calls, two requests in flight, failures.
SPECIFICATION Spec
CONSTANTS
    r1 = r1  r2 = r2  r3 = r3  b1 = b1  b2 = b2  m1 = m1  p1 = p1  p2 = p2
    Residents = {r1, r2, r3}
    Beds = {b1, b2}
    Rooms = {m1}
    RoomOf <- MCRoomOf
    Requests = {p1, p2}
    Tenant = Tenant
    NoRes = NoRes  NoBed = NoBed  NoRoom = NoRoom
    Ops <- MCRequestOps
    DepositInputs <- NoDeposit
    MaxOccupied = 1
SYMMETRY Symmetry
INVARIANTS NoDoubleBooking CollectionsAgree SettledHasLeft
