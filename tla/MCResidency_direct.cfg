\* With the endpoints that write or delete beds, rooms and residents directly.
SPECIFICATION Spec
CONSTANTS
    r1 = r1  r2 = r2  r3 = r3  b1 = b1  b2 = b2  m1 = m1  p1 = p1  p2 = p2
    Residents = {r1, r2}
    Beds = {b1}
    Rooms = {m1}
    RoomOf <- MCRoomOf
    Requests = {p1, p2}
    Tenant = Tenant
    NoRes = NoRes  NoBed = NoBed  NoRoom = NoRoom
    Ops <- MCDirectOps
    DepositInputs <- NoDeposit
    MaxOccupied = 1
SYMMETRY Symmetry
INVARIANTS TypeOK Inv SettledHasLeft
PROPERTIES BedsInOrder
