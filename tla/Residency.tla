----------------------------- MODULE Residency -----------------------------
(***************************************************************************)
(* The residents, beds and rooms of one tenant, and the requests that      *)
(* change them: ResidentsService, BedsService, RoomsService and the bed    *)
(* and vacate loops of BulkActionsService.                                 *)
(*                                                                         *)
(* Nothing in the services runs in a database transaction, so every        *)
(* awaited database call is a step of its own and any other request may    *)
(* run between two of them.  A request in flight is a record: the endpoint *)
(* it serves (op), the call it makes next (pc) and what it has read so far *)
(* and still uses.  Any call may fail, which ends the request where it is. *)
(*                                                                         *)
(* The variable tainted belongs to the verification, not to the program:   *)
(* it collects the beds touched by something the services do not guard     *)
(* against (see Taint below), so that a property can say what holds of all *)
(* the other beds.                                                         *)
(***************************************************************************)
EXTENDS Integers, FiniteSets

CONSTANTS
    Residents,    \* ids of resident documents
    Beds,         \* ids of bed documents
    Rooms,        \* ids of room documents
    RoomOf,       \* the room each bed belongs to (bed.roomId)
    Requests,     \* slots for requests in flight
    Tenant,       \* the tenant's id
    NoRes, NoBed, NoRoom,    \* no resident, no bed, no room
    Ops,          \* the endpoints clients call
    DepositInputs,\* deposits a create request may ask for
    MaxOccupied   \* bound on a room's occupancy counter

AllOps == {"create", "remove", "checkOut", "vacate", "settle", "assign",
           "patchResident", "addBed", "patchBed", "removeBed",
           "addRoom", "patchRoom", "removeRoom", "fail"}

DepositStates == {"NONE", "DUE", "HELD", "REFUNDED"}

ASSUME ResidencyAssumption ==
    /\ RoomOf \in [Beds -> Rooms]
    /\ NoRes \notin Residents
    /\ NoBed \notin Beds
    /\ NoRoom \notin Rooms
    /\ Tenant \notin Residents
    /\ Ops \subseteq AllOps
    /\ DepositInputs \subseteq {"NONE", "DUE", "HELD"}
    /\ MaxOccupied \in Nat

VARIABLES
    resident,  \* the residents collection
    bed,       \* status of each bed document, "NONE" when there is no document
    room,      \* the rooms collection
    deposit,   \* the security deposit of each resident
    req,       \* the requests in flight
    tainted    \* history: beds touched by something the services do not guard

vars == <<resident, bed, room, deposit, req, tainted>>
-----------------------------------------------------------------------------
(* Documents and requests.  "LIVE" stands for ACTIVE, NOTICE_GIVEN and
   SUSPENDED, which no step below tells apart; "NONE" for no document.  The
   field revived is history: a PATCH has made a resident who had left live
   again.                                                                   *)

ResidentStatus == {"NONE", "LIVE", "VACATED"}
BedStatus      == {"NONE", "AVAILABLE", "OCCUPIED", "MAINTENANCE"}

NoDocument == [status |-> "NONE", bed |-> NoBed, room |-> NoRoom,
               settled |-> FALSE, revived |-> FALSE]

Idle == [op |-> "none", pc |-> "idle", res |-> NoRes, bed |-> NoBed,
         room |-> NoRoom, occ |-> 0, dep |-> "NONE"]

ResidentDocs == [status : ResidentStatus, bed : Beds \cup {NoBed},
                 room : Rooms \cup {NoRoom}, settled : BOOLEAN,
                 revived : BOOLEAN]

RequestOps == {"none", "create", "remove", "checkOut", "vacate", "settle",
               "assign"}
Calls      == {"idle", "save", "occupy", "readRoom", "writeRoom", "deposit",
               "leave", "free", "settle", "move"}

RequestStates == [op : RequestOps, pc : Calls, res : Residents \cup {NoRes},
                  bed : Beds \cup {NoBed}, room : Rooms \cup {NoRoom},
                  occ : Nat, dep : DepositStates]

TypeOK ==
    /\ resident \in [Residents -> ResidentDocs]
    /\ bed \in [Beds -> BedStatus]
    /\ room \in [Rooms -> [exists : BOOLEAN, occupied : Nat]]
    /\ deposit \in [Residents -> DepositStates]
    /\ req \in [Requests -> RequestStates]
    /\ tainted \subseteq Beds

Init ==
    /\ resident = [r \in Residents |-> NoDocument]
    /\ bed = [b \in Beds |-> "AVAILABLE"]
    /\ room = [m \in Rooms |-> [exists |-> TRUE, occupied |-> 0]]
    /\ deposit = [r \in Residents |-> "NONE"]
    /\ req = [p \in Requests |-> Idle]
    /\ tainted = {}

\* The residents who live in bed b.
Occupants(b) == {r \in Residents : /\ resident[r].status = "LIVE"
                                   /\ resident[r].bed = b}

\* Request p has read bed b, or a resident in it, and has yet to write b.
On(p, b) == req[p].pc # "idle" /\ req[p].bed = b

\* Request p is in flight for resident r.
For(p, r) == req[p].pc # "idle" /\ req[p].res = r

Busy(b) == \E p \in Requests : On(p, b)

\* The status of bed b says what the residents say.  A bed that is deleted has
\* nobody; one in maintenance may.
StatusFits(b) ==
    /\ bed[b] = "OCCUPIED" => Occupants(b) # {}
    /\ bed[b] \in {"AVAILABLE", "NONE"} => Occupants(b) = {}

\* .populate('bedId') and .populate('roomId'): the reference, unless the
\* document it names has been deleted.
PopulatedBed(r) ==
    IF /\ resident[r].bed \in Beds
       /\ bed[resident[r].bed] # "NONE"
    THEN resident[r].bed ELSE NoBed

PopulatedRoom(r) ==
    IF /\ resident[r].room \in Rooms
       /\ room[resident[r].room].exists
    THEN resident[r].room ELSE NoRoom

(* Taint: the beds for which an action leaves what the services guard.
     raced    - two requests in flight use the bed at once
     stale    - a request frees the bed of a resident who had already left
     moved    - a resident is moved away from the bed, or is moved to it
                while leaving or after having left
     patched  - a PATCH of the resident, a PATCH of the bed that contradicts
                who uses it, or its DELETE while somebody does
     torn     - a request dies between its resident write and its bed write *)
Raced(p, b) == IF \E q \in Requests \ {p} : On(q, b) THEN {b} ELSE {}

Torn(p) == IF req[p].pc \in {"occupy", "free"} THEN {req[p].bed} \cap Beds
                                               ELSE {}

Finish(p) == req' = [req EXCEPT ![p] = Idle]

(* What the handlers below test and write.  A name
   that ends in a quality the code does not have (Unchecked, Forgotten...) is
   a mutant: a plausible mistake, used to show that a property notices it.  *)

IsAvailableUnchecked(b)  == bed[b] # "NONE"
IsAvailableNotTaken(b)   == bed[b] \in {"AVAILABLE", "MAINTENANCE"}
IsAvailable(b)           == bed[b] = "AVAILABLE"

HasLeftUnchecked(r)      == resident[r].status # "NONE"
HasLeft(r)               == resident[r].status = "VACATED"

MarkedOccupiedForgotten(b)  == bed
MarkedOccupied(b)           == [bed EXCEPT ![b] = "OCCUPIED"]

MarkedAvailableForgotten(b) == bed
MarkedAvailable(b)          == [bed EXCEPT ![b] = "AVAILABLE"]

\* Math.max(0, room.occupied - 1)
OneLessUnbounded(n) == n - 1
OneLess(n)          == IF n > 0 THEN n - 1 ELSE 0
-----------------------------------------------------------------------------
(* POST /residents: ResidentsService.create *)

\* A bound of the model: a create starts only while the counter and the
\* values in flight are below MaxOccupied, which bounds both.
BelowBound(m) == /\ room[m].occupied < MaxOccupied
                 /\ \A q \in Requests : req[q].occ < MaxOccupied

\* beds.findOne and the checks on it; r is the id the new document will get.
\* The plan limit and the phone lookup before and after it write nothing.
CreateCheck(p, b, r, d) ==
    /\ "create" \in Ops
    /\ req[p].pc = "idle"
    /\ resident[r].status = "NONE" /\ deposit[r] = "NONE"
    /\ \A q \in Requests : ~For(q, r)
    /\ IsAvailable(b)
    /\ room[RoomOf[b]].exists
    /\ BelowBound(RoomOf[b])
    /\ req' = [req EXCEPT ![p] = [op |-> "create", pc |-> "save",
                                  res |-> r, bed |-> b,
                                  room |-> RoomOf[b], occ |-> 0, dep |-> d]]
    /\ tainted' = tainted \cup Raced(p, b)
    /\ UNCHANGED <<resident, bed, room, deposit>>

\* resident.save()
CreateSave(p) ==
    /\ req[p].pc = "save"
    /\ resident' = [resident EXCEPT ![req[p].res] =
                      [status |-> "LIVE", bed |-> req[p].bed,
                       room |-> req[p].room, settled |-> FALSE,
                       revived |-> FALSE]]
    /\ req' = [req EXCEPT ![p].pc = "occupy"]
    /\ UNCHANGED <<bed, room, deposit, tainted>>

\* beds.update(bedId, { status: 'OCCUPIED' }), the last step of an assignment
\* and the third of a create.  It throws when the bed has been deleted.
OccupyBed(p) ==
    /\ req[p].pc = "occupy"
    /\ IF bed[req[p].bed] # "NONE"
       THEN /\ bed' = MarkedOccupied(req[p].bed)
            /\ IF req[p].op = "create"
               THEN req' = [req EXCEPT ![p].pc = "readRoom", ![p].bed = NoBed]
               ELSE Finish(p)
       ELSE Finish(p) /\ UNCHANGED bed
    /\ UNCHANGED <<resident, room, deposit, tainted>>

\* rooms.findOne, before the counter is written; shared by create and by the
\* legacy branch of the three ways to leave.
ReadRoom(p) ==
    /\ req[p].pc = "readRoom"
    /\ IF room[req[p].room].exists
       THEN req' = [req EXCEPT ![p].pc = "writeRoom",
                               ![p].occ = room[req[p].room].occupied]
       ELSE Finish(p)
    /\ UNCHANGED <<resident, bed, room, deposit, tainted>>

\* securityDepositService.findByResident(tenantId, residentId)
FindByResident(tenantId, residentId) ==
    IF tenantId = Tenant /\ residentId \in Residents
    THEN deposit[residentId] ELSE "NONE"

\* Whether the end of the request refunds the deposit that it read:
\* processRefund throws for a deposit that was never received.
Refunded(p) ==
    IF req[p].op = "vacate" /\ req[p].dep = "HELD"
    THEN [deposit EXCEPT ![req[p].res] = "REFUNDED"] ELSE deposit

\* rooms.update(roomId, { occupied }) from the value read.
WriteRoom(p) ==
    /\ req[p].pc = "writeRoom"
    /\ LET m   == req[p].room
           new == IF req[p].op = "create" THEN req[p].occ + 1
                                          ELSE OneLess(req[p].occ)
       IN  IF room[m].exists
           THEN /\ room' = [room EXCEPT ![m].occupied = new]
                /\ IF req[p].op = "create" /\ req[p].dep # "NONE"
                   THEN req' = [req EXCEPT ![p].pc = "deposit"]
                   ELSE Finish(p)
                /\ deposit' = Refunded(p)
           ELSE Finish(p) /\ UNCHANGED <<room, deposit>>
    /\ UNCHANGED <<resident, bed, tainted>>

\* securityDepositService.createOrUpdate for the resident just created.
CreateDeposit(p) ==
    /\ req[p].pc = "deposit"
    /\ deposit' = [deposit EXCEPT ![req[p].res] = req[p].dep]
    /\ Finish(p)
    /\ UNCHANGED <<resident, bed, room, tainted>>
-----------------------------------------------------------------------------
(* DELETE /residents/:id, POST /residents/:id/checkout and
   POST /residents/:id/vacate (also the loop of bulkVacateResidents).       *)

LeaveOps == {"remove", "checkOut", "vacate"}

\* this.findOne(id).  Only vacate looks at the status; only vacate reads the
\* payments and the deposit, and it passes the two ids the wrong way round.
LeaveRead(p, r, op) ==
    /\ op \in Ops
    /\ req[p].pc = "idle"
    /\ resident[r].status # "NONE"
    /\ op = "vacate" => ~HasLeft(r)
    /\ LET b     == PopulatedBed(r)
           stale == resident[r].status = "VACATED"
       IN  /\ req' = [req EXCEPT ![p] =
                        [op |-> op, pc |-> "leave", res |-> r, bed |-> b,
                         room |-> PopulatedRoom(r), occ |-> 0,
                         dep |-> IF op = "vacate"
                                 THEN FindByResident(r, Tenant)
                                 ELSE "NONE"]]
           /\ tainted' = IF b = NoBed THEN tainted
                         ELSE tainted \cup Raced(p, b)
                                      \cup (IF stale THEN {b} ELSE {})
    /\ UNCHANGED <<resident, bed, room, deposit>>

\* Departed as a bug would have it: the status is left as it is.
DepartedForgotten(r, op) ==
    [resident[r] EXCEPT !.settled = IF op = "vacate" THEN FALSE ELSE @,
                        !.revived = FALSE]

\* The document after checkOut or vacate; vacate also reopens the settlement.
Departed(r, op) ==
    [resident[r] EXCEPT !.status = "VACATED",
                        !.settled = IF op = "vacate" THEN FALSE ELSE @,
                        !.revived = FALSE]

\* findOneAndDelete, or findOneAndUpdate to VACATED; it throws when the
\* document is gone.  Then either the bed is freed or, when the resident read
\* had no bed, the room counter is decremented - unless the room is gone too
\* and roomId.toString() throws.
LeaveWrite(p) ==
    /\ req[p].pc = "leave"
    /\ LET r == req[p].res
       IN  IF resident[r].status = "NONE"
           THEN Finish(p) /\ UNCHANGED resident
           ELSE /\ resident' =
                     IF req[p].op = "remove"
                     THEN [resident EXCEPT ![r] = NoDocument]
                     ELSE [resident EXCEPT ![r] = Departed(r, req[p].op)]
                /\ \/ /\ req[p].bed # NoBed
                      /\ req' = [req EXCEPT ![p].pc = "free"]
                   \/ /\ req[p].bed = NoBed
                      /\ req[p].room # NoRoom
                      /\ req' = [req EXCEPT ![p].pc = "readRoom"]
                   \/ /\ req[p].bed = NoBed
                      /\ req[p].room = NoRoom
                      /\ Finish(p)
    /\ UNCHANGED <<bed, room, deposit, tainted>>

\* beds.update(bedId, { status: 'AVAILABLE' }) and, in vacate, the refund of
\* the deposit found, if any.
FreeBed(p) ==
    /\ req[p].pc = "free"
    /\ IF bed[req[p].bed] # "NONE"
       THEN /\ bed' = MarkedAvailable(req[p].bed)
            /\ deposit' = Refunded(p)
       ELSE UNCHANGED <<bed, deposit>>
    /\ Finish(p)
    /\ UNCHANGED <<resident, room, tainted>>
-----------------------------------------------------------------------------
(* POST /residents/:id/complete-settlement *)

SettleRead(p, r) ==
    /\ "settle" \in Ops
    /\ req[p].pc = "idle"
    /\ HasLeft(r)
    /\ req' = [req EXCEPT ![p] = [Idle EXCEPT !.op = "settle",
                                              !.pc = "settle", !.res = r]]
    /\ UNCHANGED <<resident, bed, room, deposit, tainted>>

SettleWrite(p) ==
    /\ req[p].pc = "settle"
    /\ resident' = IF resident[req[p].res].status = "NONE" THEN resident
                   ELSE [resident EXCEPT ![req[p].res].settled = TRUE]
    /\ Finish(p)
    /\ UNCHANGED <<bed, room, deposit, tainted>>
-----------------------------------------------------------------------------
(* bulkAssignBeds, one assignment of the list *)

AssignCheck(p, b, r) ==
    /\ "assign" \in Ops
    /\ req[p].pc = "idle"
    /\ IsAvailable(b)
    /\ resident[r].status # "NONE"
    /\ req' = [req EXCEPT ![p] = [Idle EXCEPT !.op = "assign", !.pc = "move",
                                              !.res = r, !.bed = b]]
    /\ tainted' = tainted \cup Raced(p, b)
    /\ UNCHANGED <<resident, bed, room, deposit>>

\* residents.update(residentId, { bedId }): only the resident's bedId.  The
\* bed moved away from keeps its status, and the resident may have left.
AssignMove(p) ==
    /\ req[p].pc = "move"
    /\ LET r       == req[p].res
           leaving == \/ resident[r].status = "VACATED"
                      \/ \E q \in Requests \ {p} : For(q, r)
       IN  IF resident[r].status = "NONE"
           THEN Finish(p) /\ UNCHANGED <<resident, tainted>>
           ELSE /\ resident' = [resident EXCEPT ![r].bed = req[p].bed]
                /\ req' = [req EXCEPT ![p].pc = "occupy"]
                /\ tainted' = tainted
                     \cup ({resident[r].bed} \cap Beds)
                     \cup (IF leaving THEN {req[p].bed} ELSE {})
    /\ UNCHANGED <<bed, room, deposit>>
-----------------------------------------------------------------------------
(* The endpoints that write one document and look at no other. *)

\* PATCH /residents/:id { status, bedId, roomId }
Patched(r, s, b, m) ==
    [resident[r] EXCEPT !.status = s, !.bed = b, !.room = m,
        !.revived = s = "LIVE" /\ (resident[r].revived \/ HasLeft(r))]

PatchResident(r, s, b, m) ==
    /\ "patchResident" \in Ops
    /\ resident[r].status # "NONE"
    /\ resident' = [resident EXCEPT ![r] = Patched(r, s, b, m)]
    /\ tainted' = tainted \cup ({b, resident[r].bed} \cap Beds)
    /\ UNCHANGED <<bed, room, deposit, req>>

\* POST /beds: a bed with an id that nothing refers to.
AddBed(b) ==
    /\ "addBed" \in Ops
    /\ bed[b] = "NONE"
    /\ room[RoomOf[b]].exists
    /\ ~Busy(b)
    /\ \A r \in Residents : resident[r].bed # b
    /\ bed' = [bed EXCEPT ![b] = "AVAILABLE"]
    /\ UNCHANGED <<resident, room, deposit, req, tainted>>

\* PATCH /beds/:id.  MAINTENANCE may come at any time, also while a request is
\* under way that will write over it, and an unused bed may be put back; any
\* other status contradicts who lives there or is about to.
PatchBed(b, s) ==
    /\ "patchBed" \in Ops
    /\ bed[b] # "NONE"
    /\ bed' = [bed EXCEPT ![b] = s]
    /\ tainted' = IF \/ s = "MAINTENANCE"
                     \/ s = "AVAILABLE" /\ ~Busy(b) /\ Occupants(b) = {}
                  THEN tainted ELSE tainted \cup {b}
    /\ UNCHANGED <<resident, room, deposit, req>>

\* DELETE /beds/:id, whoever lives there.
RemoveBed(b) ==
    /\ "removeBed" \in Ops
    /\ bed[b] # "NONE"
    /\ bed' = [bed EXCEPT ![b] = "NONE"]
    /\ tainted' = IF ~Busy(b) /\ Occupants(b) = {}
                  THEN tainted ELSE tainted \cup {b}
    /\ UNCHANGED <<resident, room, deposit, req>>

\* POST /rooms: a room with an id that nothing refers to.
AddRoom(m) ==
    /\ "addRoom" \in Ops
    /\ ~room[m].exists
    /\ \A b \in Beds : RoomOf[b] = m => bed[b] = "NONE"
    /\ \A r \in Residents : resident[r].room # m
    /\ \A p \in Requests : req[p].room # m
    /\ room' = [room EXCEPT ![m] = [exists |-> TRUE, occupied |-> 0]]
    /\ UNCHANGED <<resident, bed, deposit, req, tainted>>

\* PATCH /rooms/:id { occupied }
PatchRoom(m, n) ==
    /\ "patchRoom" \in Ops
    /\ room[m].exists
    /\ room' = [room EXCEPT ![m].occupied = n]
    /\ UNCHANGED <<resident, bed, deposit, req, tainted>>

\* DELETE /rooms/:id, whoever lives there.
RemoveRoom(m) ==
    /\ "removeRoom" \in Ops
    /\ room[m].exists
    /\ room' = [room EXCEPT ![m].exists = FALSE]
    /\ UNCHANGED <<resident, bed, deposit, req, tainted>>

\* A database call is rejected, or the process stops: the request ends
\* between two of its writes and nothing undoes the ones it has made.
Fail(p) ==
    /\ "fail" \in Ops
    /\ req[p].pc # "idle"
    /\ tainted' = tainted \cup Torn(p)
    /\ Finish(p)
    /\ UNCHANGED <<resident, bed, room, deposit>>
-----------------------------------------------------------------------------
\* The next awaited call of request p.
Continue(p) ==
    \/ CreateSave(p)
    \/ OccupyBed(p)
    \/ ReadRoom(p)
    \/ WriteRoom(p)
    \/ CreateDeposit(p)
    \/ LeaveWrite(p)
    \/ FreeBed(p)
    \/ SettleWrite(p)
    \/ AssignMove(p)

Start(p) ==
    \/ \E b \in Beds, r \in Residents, d \in DepositInputs :
          CreateCheck(p, b, r, d)
    \/ \E r \in Residents, op \in LeaveOps : LeaveRead(p, r, op)
    \/ \E r \in Residents : SettleRead(p, r)
    \/ \E b \in Beds, r \in Residents : AssignCheck(p, b, r)

Direct ==
    \/ \E r \in Residents, s \in {"LIVE", "VACATED"},
          b \in Beds \cup {NoBed}, m \in Rooms : PatchResident(r, s, b, m)
    \/ \E b \in Beds : AddBed(b)
    \/ \E b \in Beds, s \in BedStatus \ {"NONE"} : PatchBed(b, s)
    \/ \E b \in Beds : RemoveBed(b)
    \/ \E m \in Rooms : AddRoom(m)
    \/ \E m \in Rooms, n \in 0..MaxOccupied : PatchRoom(m, n)
    \/ \E m \in Rooms : RemoveRoom(m)

Next ==
    \/ \E p \in Requests : Start(p) \/ Continue(p) \/ Fail(p)
    \/ Direct

Spec == Init /\ [][Next]_vars

\* The event loop runs every continuation whose database call has answered.
FairSpec == Spec /\ \A p \in Requests : WF_vars(Continue(p))
-----------------------------------------------------------------------------
(* Properties *)

\* A bed that no unguarded operation has touched is never lived in by two
\* residents: the status check of create and bulkAssignBeds, made one or more
\* awaits before the writes that depend on it, keeps it so.
NoDoubleBooking ==
    \A b \in Beds \ tainted : \A r, s \in Occupants(b) : r = s

\* The two collections agree: once no request is under way for an untouched
\* bed, somebody lives in it if its status is OCCUPIED and nobody if it is
\* AVAILABLE; so a bed that is offered is empty and an empty one is not taken
\* for occupied.  A bed in MAINTENANCE may be either.
CollectionsAgree ==
    \A b \in Beds \ tainted :
        ~Busy(b) => StatusFits(b)

\* settlementCompleted is only ever true of a resident who has left, or whom
\* PATCH /residents/:id has brought back since, although completeSettlement
\* reads the status one await before it writes the flag and other requests
\* change or delete the resident meanwhile.
SettledHasLeft ==
    \A r \in Residents : resident[r].settled =>
        resident[r].status = "VACATED" \/ resident[r].revived

\* A bed whose resident has left does not stay OCCUPIED: remove, checkOut and
\* vacate free it two calls after they read the resident, unless they die
\* in between, which taints the bed.
BedFreedEventually ==
    \A b \in Beds :
        (b \notin tainted /\ bed[b] = "OCCUPIED" /\ Occupants(b) = {})
            ~> (b \in tainted \/ bed[b] # "OCCUPIED")

\* Every bed that no unguarded operation has touched is a cell of BedRegister:
\* it is promised to a resident only while it is vacant and AVAILABLE, and goes
\* through the stages of a stay in order, although each of them is a call of
\* its own and the maintenance of a bed may be set, and written over, between
\* any two.
Reached(b, calls) == \E p \in Requests : On(p, b) /\ req[p].pc \in calls

StageOf(b) ==
    IF Reached(b, {"save", "move"}) THEN "promised"
    ELSE IF Reached(b, {"occupy"}) THEN "arriving"
    ELSE IF Reached(b, {"free"}) THEN "vacated"
    ELSE IF Occupants(b) # {} THEN "living" ELSE "vacant"

GuestOf(S) == IF S = {} THEN NoRes ELSE CHOOSE r \in S : TRUE

CellOf(b) ==
    IF b \in tainted
    THEN [stage |-> "untended", status |-> "NONE", guest |-> NoRes]
    ELSE [stage |-> StageOf(b), status |-> bed[b], guest |-> GuestOf(Occupants(b))]

Register == INSTANCE BedRegister WITH
    Nobody <- NoRes,
    cell   <- [b \in Beds |-> CellOf(b)]
BedsInOrder == Register!Spec
-----------------------------------------------------------------------------
(* The inductive invariant behind NoDoubleBooking and CollectionsAgree: what
   a request under way for an untouched bed may still rely on.              *)

\* One request at a time, and at most one occupant.
Exclusive(b) ==
    /\ \A p, q \in Requests : On(p, b) /\ On(q, b) => p = q
    /\ \A r, s \in Occupants(b) : r = s

\* What request p, the one under way for bed b, finds at each of its calls:
\* the status it read, unless the bed went into maintenance since.
Expects(p, b) ==
    /\ req[p].pc \in {"save", "move"} =>
          bed[b] \in {"AVAILABLE", "MAINTENANCE"} /\ Occupants(b) = {}
    /\ req[p].pc = "occupy" =>
          bed[b] \in {"AVAILABLE", "MAINTENANCE"} /\ Occupants(b) = {req[p].res}
    /\ req[p].pc = "leave" =>
          bed[b] \in {"OCCUPIED", "MAINTENANCE"} /\ Occupants(b) = {req[p].res}
    /\ req[p].pc = "free" =>
          bed[b] \in {"OCCUPIED", "MAINTENANCE"} /\ Occupants(b) = {}

\* A request that is making the occupant of bed b leave will free bed b.
LeavesFrom(b) ==
    \A r \in Occupants(b), p \in Requests :
        req[p].pc = "leave" /\ req[p].res = r => req[p].bed = b

\* Which fields of a request are set at each call.
WellFormed(p) ==
    /\ req[p].pc \in {"save", "occupy", "move", "free"} => req[p].bed \in Beds
    /\ req[p].pc \in {"idle", "readRoom", "writeRoom", "deposit", "settle"} =>
          req[p].bed = NoBed
    /\ req[p].op = "create" \/ req[p].pc \in {"save", "readRoom", "writeRoom"}
          => req[p].room \in Rooms
    /\ req[p].pc # "idle" => req[p].res \in Residents
    /\ req[p].pc = "save" =>
          /\ resident[req[p].res].status = "NONE"
          /\ \A q \in Requests \ {p} : ~For(q, req[p].res)

BedOK(b) ==
    /\ Exclusive(b)
    /\ ~Busy(b) => StatusFits(b)
    /\ \A p \in Requests : On(p, b) => Expects(p, b)
    /\ LeavesFrom(b)

Inv ==
    /\ TypeOK
    /\ \A p \in Requests : WellFormed(p)
    /\ \A b \in Beds \ tainted : BedOK(b)
-----------------------------------------------------------------------------
(* What comments of the services say, which the code does not achieve.      *)

\* residents.service.ts:39, "Check bed availability": no bed has two live
\* residents, whichever requests run at the same time.
NoDoubleBookingAtAll ==
    \A b \in Beds : \A r, s \in Occupants(b) : r = s

\* residents.service.ts:88, "Update room occupancy count": with no request in
\* flight, a room's counter is the number of its residents.
RoomCountAccurate ==
    (\A p \in Requests : req[p].pc = "idle") =>
        \A m \in Rooms : room[m].exists =>
            room[m].occupied =
                Cardinality({r \in Residents : /\ resident[r].status = "LIVE"
                                               /\ resident[r].room = m})

\* residents.service.ts:466, "Process security deposit refund if applicable":
\* a received deposit has been refunded once its resident has been vacated.
DepositRefundedOnVacate ==
    \A r \in Residents :
        /\ resident[r].status = "VACATED"
        /\ \A p \in Requests : ~For(p, r)
        => deposit[r] # "HELD"
=============================================================================
