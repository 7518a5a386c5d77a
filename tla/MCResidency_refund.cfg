\* One request at a time: the deposit of a vacated resident.
SPECIFICATION Spec
CONSTANTS
    r1 = r1  r2 = r2  r3 = r3  b1 = b1  b2 = b2  m1 = m1  p1 = p1  p2 = p2
    Residents = {r1, r2}
    Beds = {b1}
    Rooms = {m1}
    RoomOf <- MCRoomOf
    Requests = {p1}
    Tenant = Tenant
    NoRes = NoRes  NoBed = NoBed  NoRoom = NoRoom
    Ops <- MCVacating
    DepositInputs <- AnyDeposit
    MaxOccupied = 2
CHECK_DEADLOCK FALSE
INVARIANTS DepositRefundedOnVacate
