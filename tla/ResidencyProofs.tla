-------------------------- MODULE ResidencyProofs --------------------------
(* Proofs about Residency, for every set of residents, beds, rooms and
   requests, every choice of endpoints and every bound.                     *)
EXTENDS Residency, TLAPS

-----------------------------------------------------------------------------
(* Records: the values that the actions store are of the right type.        *)

LEMMA IdleType == Idle \in RequestStates
BY DEF Idle, RequestStates, RequestOps, Calls, DepositStates

LEMMA NoDocumentType == NoDocument \in ResidentDocs
BY DEF NoDocument, ResidentDocs, ResidentStatus

LEMMA CallType ==
    ASSUME req \in [Requests -> RequestStates], NEW p \in Requests,
           NEW c \in Calls, NEW b \in Beds \cup {NoBed}, NEW n \in Nat
    PROVE  /\ [req EXCEPT ![p].pc = c] \in [Requests -> RequestStates]
           /\ [req EXCEPT ![p].pc = c, ![p].bed = b]
                 \in [Requests -> RequestStates]
           /\ [req EXCEPT ![p].pc = c, ![p].occ = n]
                 \in [Requests -> RequestStates]
<1>1. /\ [req[p] EXCEPT !.pc = c] \in RequestStates
      /\ [req[p] EXCEPT !.pc = c, !.bed = b] \in RequestStates
      /\ [req[p] EXCEPT !.pc = c, !.occ = n] \in RequestStates
  <2>1. req[p] \in RequestStates
    OBVIOUS
  <2>. QED  BY <2>1 DEF RequestStates
<1>. QED  BY <1>1

LEMMA FinishType ==
    ASSUME req \in [Requests -> RequestStates], NEW p \in Requests, Finish(p)
    PROVE  req' \in [Requests -> RequestStates]
BY IdleType DEF Finish
-----------------------------------------------------------------------------
(* Type correctness, one action at a time *)

LEMMA CreateSaveType ==
    ASSUME TypeOK, NEW p \in Requests, WellFormed(p), CreateSave(p)
    PROVE  TypeOK'
<1>1. req[p].res \in Residents /\ req[p].bed \in Beds /\ req[p].room \in Rooms
  BY DEF WellFormed, CreateSave
<1>2. [status |-> "LIVE", bed |-> req[p].bed, room |-> req[p].room,
       settled |-> FALSE, revived |-> FALSE] \in ResidentDocs
  BY <1>1 DEF ResidentDocs, ResidentStatus
<1>3. resident' \in [Residents -> ResidentDocs]
  BY <1>2 DEF TypeOK, CreateSave
<1>4. req' \in [Requests -> RequestStates]
  BY CallType DEF TypeOK, CreateSave, Calls
<1>. QED  BY <1>3, <1>4 DEF TypeOK, CreateSave

LEMMA OccupyBedType ==
    ASSUME TypeOK, NEW p \in Requests, OccupyBed(p)
    PROVE  TypeOK'
<1>1. req' \in [Requests -> RequestStates]
  <2>1. CASE Finish(p)
    BY <2>1, FinishType DEF TypeOK
  <2>2. CASE req' = [req EXCEPT ![p].pc = "readRoom", ![p].bed = NoBed]
    BY <2>2, CallType DEF TypeOK, Calls
  <2>. QED  BY <2>1, <2>2 DEF OccupyBed
<1>2. bed' \in [Beds -> BedStatus]
  BY DEF TypeOK, OccupyBed, MarkedOccupied, BedStatus
<1>. QED  BY <1>1, <1>2 DEF TypeOK, OccupyBed

LEMMA ReadRoomType ==
    ASSUME TypeOK, NEW p \in Requests, WellFormed(p), ReadRoom(p)
    PROVE  TypeOK'
<1>1. room[req[p].room].occupied \in Nat
  BY DEF TypeOK, WellFormed, ReadRoom
<1>2. req' \in [Requests -> RequestStates]
  <2>1. CASE Finish(p)
    BY <2>1, FinishType DEF TypeOK
  <2>2. CASE req' = [req EXCEPT ![p].pc = "writeRoom",
                                ![p].occ = room[req[p].room].occupied]
    BY <1>1, <2>2, CallType DEF TypeOK, Calls
  <2>. QED  BY <2>1, <2>2 DEF ReadRoom
<1>. QED  BY <1>2 DEF TypeOK, ReadRoom

LEMMA RefundedType ==
    ASSUME TypeOK, NEW p \in Requests
    PROVE  Refunded(p) \in [Residents -> DepositStates]
BY DEF TypeOK, Refunded, DepositStates

LEMMA WriteRoomType ==
    ASSUME TypeOK, NEW p \in Requests, WriteRoom(p)
    PROVE  TypeOK'
<1>1. req' \in [Requests -> RequestStates]
  <2>1. CASE Finish(p)
    BY <2>1, FinishType DEF TypeOK
  <2>2. CASE req' = [req EXCEPT ![p].pc = "deposit"]
    BY <2>2, CallType DEF TypeOK, Calls
  <2>. QED  BY <2>1, <2>2 DEF WriteRoom
<1>2. deposit' \in [Residents -> DepositStates]
  BY RefundedType DEF TypeOK, WriteRoom
<1>3. room' \in [Rooms -> [exists : BOOLEAN, occupied : Nat]]
  <2>1. req[p].occ \in Nat
    BY DEF TypeOK, RequestStates
  <2>2. req[p].occ + 1 \in Nat /\ OneLess(req[p].occ) \in Nat
    BY <2>1 DEF OneLess
  <2>. QED  BY <2>2 DEF TypeOK, WriteRoom
<1>. QED  BY <1>1, <1>2, <1>3 DEF TypeOK, WriteRoom

LEMMA CreateDepositType ==
    ASSUME TypeOK, NEW p \in Requests, CreateDeposit(p)
    PROVE  TypeOK'
<1>1. req[p].dep \in DepositStates
  BY DEF TypeOK, RequestStates
<1>2. req' \in [Requests -> RequestStates]
  BY FinishType DEF TypeOK, CreateDeposit
<1>. QED  BY <1>1, <1>2 DEF TypeOK, CreateDeposit

LEMMA LeaveWriteType ==
    ASSUME TypeOK, NEW p \in Requests, LeaveWrite(p)
    PROVE  TypeOK'
<1>1. req' \in [Requests -> RequestStates]
  <2>1. CASE Finish(p)
    BY <2>1, FinishType DEF TypeOK
  <2>2. CASE req' = [req EXCEPT ![p].pc = "free"]
    BY <2>2, CallType DEF TypeOK, Calls
  <2>3. CASE req' = [req EXCEPT ![p].pc = "readRoom"]
    BY <2>3, CallType DEF TypeOK, Calls
  <2>. QED  BY <2>1, <2>2, <2>3 DEF LeaveWrite
<1>2. resident' \in [Residents -> ResidentDocs]
  <2>1. ASSUME NEW r \in Residents, NEW op
        PROVE  Departed(r, op) \in ResidentDocs
    BY DEF TypeOK, Departed, ResidentDocs, ResidentStatus
  <2>. QED  BY <2>1, NoDocumentType DEF TypeOK, LeaveWrite
<1>. QED  BY <1>1, <1>2 DEF TypeOK, LeaveWrite

LEMMA FreeBedType ==
    ASSUME TypeOK, NEW p \in Requests, FreeBed(p)
    PROVE  TypeOK'
<1>1. req' \in [Requests -> RequestStates]
  BY FinishType DEF TypeOK, FreeBed
<1>2. deposit' \in [Residents -> DepositStates]
  BY RefundedType DEF TypeOK, FreeBed
<1>3. bed' \in [Beds -> BedStatus]
  BY DEF TypeOK, FreeBed, MarkedAvailable, BedStatus
<1>. QED  BY <1>1, <1>2, <1>3 DEF TypeOK, FreeBed

LEMMA SettleWriteType ==
    ASSUME TypeOK, NEW p \in Requests, SettleWrite(p)
    PROVE  TypeOK'
<1>1. req' \in [Requests -> RequestStates]
  BY FinishType DEF TypeOK, SettleWrite
<1>2. resident' \in [Residents -> ResidentDocs]
  BY DEF TypeOK, SettleWrite, ResidentDocs
<1>. QED  BY <1>1, <1>2 DEF TypeOK, SettleWrite

LEMMA AssignMoveType ==
    ASSUME TypeOK, NEW p \in Requests, WellFormed(p), AssignMove(p)
    PROVE  TypeOK'
<1>1. req' \in [Requests -> RequestStates]
  <2>1. CASE Finish(p)
    BY <2>1, FinishType DEF TypeOK
  <2>2. CASE req' = [req EXCEPT ![p].pc = "occupy"]
    BY <2>2, CallType DEF TypeOK, Calls
  <2>. QED  BY <2>1, <2>2 DEF AssignMove
<1>2. req[p].bed \in Beds
  BY DEF WellFormed, AssignMove
<1>3. resident' \in [Residents -> ResidentDocs]
  BY <1>2 DEF TypeOK, AssignMove, ResidentDocs
<1>4. tainted' \subseteq Beds
  BY <1>2 DEF TypeOK, AssignMove
<1>. QED  BY <1>1, <1>3, <1>4 DEF TypeOK, AssignMove

LEMMA StartType ==
    ASSUME TypeOK, NEW p \in Requests, Start(p)
    PROVE  TypeOK'
<1>1. ASSUME NEW b \in Beds, NEW r \in Residents, NEW d \in DepositInputs,
             CreateCheck(p, b, r, d)
      PROVE  TypeOK'
  <2>1. [op |-> "create", pc |-> "save", res |-> r, bed |-> b,
         room |-> RoomOf[b], occ |-> 0, dep |-> d] \in RequestStates
    BY ResidencyAssumption
       DEF RequestStates, RequestOps, Calls, DepositStates
  <2>. QED  BY <1>1, <2>1 DEF TypeOK, CreateCheck, Raced
<1>2. ASSUME NEW r \in Residents, NEW op \in LeaveOps, LeaveRead(p, r, op)
      PROVE  TypeOK'
  <2>1. /\ PopulatedBed(r) \in Beds \cup {NoBed}
        /\ PopulatedRoom(r) \in Rooms \cup {NoRoom}
        /\ FindByResident(r, Tenant) \in DepositStates
    BY DEF PopulatedBed, PopulatedRoom, FindByResident, TypeOK, DepositStates
  <2>2. [op |-> op, pc |-> "leave", res |-> r, bed |-> PopulatedBed(r),
         room |-> PopulatedRoom(r), occ |-> 0,
         dep |-> IF op = "vacate" THEN FindByResident(r, Tenant) ELSE "NONE"]
           \in RequestStates
    BY <2>1 DEF RequestStates, RequestOps, Calls, LeaveOps, DepositStates
  <2>3. tainted' \subseteq Beds
    BY <1>2, <2>1 DEF TypeOK, LeaveRead, Raced
  <2>4. req' \in [Requests -> RequestStates]
    BY <1>2, <2>2 DEF TypeOK, LeaveRead
  <2>. QED  BY <1>2, <2>3, <2>4 DEF TypeOK, LeaveRead
<1>3. ASSUME NEW r \in Residents, SettleRead(p, r)
      PROVE  TypeOK'
  <2>1. [Idle EXCEPT !.op = "settle", !.pc = "settle", !.res = r]
           \in RequestStates
    BY DEF Idle, RequestStates, RequestOps, Calls, DepositStates
  <2>. QED  BY <1>3, <2>1 DEF TypeOK, SettleRead
<1>4. ASSUME NEW b \in Beds, NEW r \in Residents, AssignCheck(p, b, r)
      PROVE  TypeOK'
  <2>1. [Idle EXCEPT !.op = "assign", !.pc = "move", !.res = r, !.bed = b]
           \in RequestStates
    BY DEF Idle, RequestStates, RequestOps, Calls, DepositStates
  <2>. QED  BY <1>4, <2>1 DEF TypeOK, AssignCheck, Raced
<1>. QED  BY <1>1, <1>2, <1>3, <1>4 DEF Start

LEMMA DirectType ==
    ASSUME TypeOK, Direct
    PROVE  TypeOK'
<1>1. ASSUME NEW r \in Residents, NEW s \in {"LIVE", "VACATED"},
             NEW b \in Beds \cup {NoBed}, NEW m \in Rooms,
             PatchResident(r, s, b, m)
      PROVE  TypeOK'
  <2>1. Patched(r, s, b, m) \in ResidentDocs
    BY DEF Patched, TypeOK, ResidentDocs, ResidentStatus
  <2>2. resident' \in [Residents -> ResidentDocs]
    BY <1>1, <2>1 DEF TypeOK, PatchResident
  <2>. QED  BY <1>1, <2>2 DEF TypeOK, PatchResident
<1>2. ASSUME NEW b \in Beds, AddBed(b)
      PROVE  TypeOK'
  BY <1>2 DEF TypeOK, AddBed, BedStatus
<1>3. ASSUME NEW b \in Beds, NEW s \in BedStatus \ {"NONE"}, PatchBed(b, s)
      PROVE  TypeOK'
  BY <1>3 DEF TypeOK, PatchBed
<1>4. ASSUME NEW b \in Beds, RemoveBed(b)
      PROVE  TypeOK'
  BY <1>4 DEF TypeOK, RemoveBed, BedStatus
<1>5. ASSUME NEW m \in Rooms, AddRoom(m)
      PROVE  TypeOK'
  BY <1>5 DEF TypeOK, AddRoom
<1>6. ASSUME NEW m \in Rooms, NEW n \in 0..MaxOccupied, PatchRoom(m, n)
      PROVE  TypeOK'
  BY <1>6, ResidencyAssumption DEF TypeOK, PatchRoom
<1>7. ASSUME NEW m \in Rooms, RemoveRoom(m)
      PROVE  TypeOK'
  BY <1>7 DEF TypeOK, RemoveRoom
<1>. QED  BY <1>1, <1>2, <1>3, <1>4, <1>5, <1>6, <1>7 DEF Direct

LEMMA FailType ==
    ASSUME TypeOK, NEW p \in Requests, Fail(p)
    PROVE  TypeOK'
BY FinishType DEF TypeOK, Fail, Torn

-----------------------------------------------------------------------------
(* The invariant, one action at a time *)

LEMMA InitInv == Init => Inv
BY IdleType, NoDocumentType, ResidencyAssumption
   DEF Init, Inv, TypeOK, WellFormed, BedOK, Exclusive, Expects, LeavesFrom,
       StatusFits, On, For, Busy, Occupants, Idle, NoDocument, BedStatus, DepositStates

\* A step leaves bed b alone: its status, its occupants and the requests
\* under way for it are as before, and no new request leaves one of them.
Untouched(b) ==
    /\ bed'[b] = bed[b]
    /\ Occupants(b)' = Occupants(b)
    /\ \A q \in Requests : On(q, b)' <=> On(q, b)
    /\ \A q \in Requests : On(q, b) => /\ req'[q].pc = req[q].pc
                                       /\ req'[q].res = req[q].res
    /\ \A q \in Requests : req'[q].pc = "leave" =>
          \/ req'[q] = req[q]
          \/ req'[q].bed = b
          \/ req'[q].res \notin Occupants(b)

LEMMA Frame ==
    ASSUME NEW b \in Beds, BedOK(b), Untouched(b)
    PROVE  BedOK(b)'
<1>1. Exclusive(b)'
  BY DEF BedOK, Untouched, Exclusive
<1>2. (~Busy(b) => StatusFits(b))'
  BY DEF BedOK, Untouched, Busy, StatusFits
<1>3. ASSUME NEW q \in Requests, On(q, b)'
      PROVE  Expects(q, b)'
  BY <1>3 DEF BedOK, Untouched, Expects
<1>4. LeavesFrom(b)'
  BY DEF BedOK, Untouched, LeavesFrom
<1>. QED  BY <1>1, <1>2, <1>3, <1>4 DEF BedOK

LEMMA CreateSaveBeds ==
    ASSUME Inv, NEW p \in Requests, CreateSave(p), NEW b \in Beds \ tainted
    PROVE  BedOK(b)'
<1> DEFINE r == req[p].res
<1>1. /\ r \in Residents
      /\ resident[r].status = "NONE"
      /\ \A q \in Requests \ {p} : ~For(q, r)
      /\ req[p].pc = "save"
  BY DEF Inv, WellFormed, CreateSave
<1>2. /\ \A q \in Requests \ {p} : req'[q] = req[q]
      /\ req'[p].pc = "occupy"
      /\ req'[p].res = r
      /\ req'[p].bed = req[p].bed
  BY DEF Inv, TypeOK, RequestStates, CreateSave
<1>3. /\ \A s \in Residents \ {r} : resident'[s] = resident[s]
      /\ resident'[r].status = "LIVE"
      /\ resident'[r].bed = req[p].bed
      /\ bed' = bed
  BY <1>1 DEF Inv, TypeOK, CreateSave
<1> HIDE DEF r
<1>4. BedOK(b)
  BY DEF Inv
<1>5. CASE req[p].bed = b
  <2>1. Occupants(b) = {} /\ bed[b] \in {"AVAILABLE", "MAINTENANCE"}
    BY <1>1, <1>4, <1>5 DEF BedOK, On, Expects
  <2>2. Occupants(b)' = {r}
    BY <1>1, <1>3, <1>5, <2>1 DEF Occupants
  <2>3. \A q \in Requests : On(q, b)' <=> q = p
    BY <1>1, <1>2, <1>4, <1>5 DEF BedOK, Exclusive, On
  <2>4. LeavesFrom(b)'
    BY <1>1, <1>2, <2>2 DEF LeavesFrom, For
  <2>. QED  BY <1>2, <1>3, <2>1, <2>2, <2>3, <2>4
               DEF BedOK, Exclusive, Expects, Busy
<1>6. CASE req[p].bed # b
  <2>1. Occupants(b)' = Occupants(b)
    BY <1>1, <1>3, <1>6 DEF Occupants
  <2>2. Untouched(b)
    BY <1>2, <1>3, <1>6, <2>1 DEF Untouched, On
  <2>. QED  BY <1>4, <2>2, Frame
<1>. QED  BY <1>5, <1>6
-----------------------------------------------------------------------------

\* A bed named by a request is a bed for which that request is under way.
LEMMA OnCalls ==
    ASSUME Inv, NEW q \in Requests, NEW b \in Beds, On(q, b)
    PROVE  req[q].pc \in {"save", "move", "occupy", "leave", "free"}
BY ResidencyAssumption DEF Inv, TypeOK, RequestStates, Calls, WellFormed, On

\* An untouched bed that somebody lives in has not been deleted.
LEMMA OccupiedExists ==
    ASSUME Inv, NEW b \in Beds \ tainted, NEW r \in Occupants(b)
    PROVE  bed[b] # "NONE"
<1>1. BedOK(b)
  BY DEF Inv
<1>2. CASE Busy(b)
  <2>1. PICK q \in Requests : On(q, b)
    BY <1>2 DEF Busy
  <2>. QED  BY <1>1, <2>1, OnCalls DEF BedOK, Expects
<1>. QED  BY <1>1, <1>2 DEF BedOK, StatusFits

\* Steps that write no bed and no resident's bed, made by a request that has
\* no bed: reading and writing the room counter, the deposit, the settlement.
LEMMA BedlessBeds ==
    ASSUME Inv, NEW p \in Requests, req[p].bed = NoBed,
           \A q \in Requests \ {p} : req'[q] = req[q],
           req'[p].bed = NoBed, req'[p].pc # "leave",
           bed' = bed,
           \A r \in Residents : /\ resident'[r].status = resident[r].status
                                /\ resident'[r].bed = resident[r].bed,
           NEW b \in Beds \ tainted
    PROVE  BedOK(b)'
<1>1. Occupants(b)' = Occupants(b)
  BY DEF Occupants
<1>2. Untouched(b)
  BY <1>1, ResidencyAssumption DEF Untouched, On
<1>. QED  BY <1>2, Frame DEF Inv

LEMMA OccupyBedBeds ==
    ASSUME Inv, NEW p \in Requests, OccupyBed(p), NEW b \in Beds \ tainted
    PROVE  BedOK(b)'
<1>1. /\ req[p].pc = "occupy"
      /\ req[p].bed \in Beds
      /\ \A q \in Requests \ {p} : req'[q] = req[q]
      /\ req'[p].bed = NoBed
      /\ req'[p].pc \in {"idle", "readRoom"}
      /\ resident' = resident
  BY DEF Inv, TypeOK, RequestStates, WellFormed, OccupyBed, Finish, Idle
<1>2. BedOK(b)
  BY DEF Inv
<1>3. Occupants(b)' = Occupants(b)
  BY <1>1 DEF Occupants
<1>4. CASE req[p].bed = b
  <2>1. /\ bed[b] \in {"AVAILABLE", "MAINTENANCE"}
        /\ Occupants(b) = {req[p].res}
    BY <1>1, <1>2, <1>4 DEF BedOK, On, Expects
  <2>2. bed'[b] = "OCCUPIED"
    BY <1>4, <2>1 DEF Inv, TypeOK, OccupyBed, MarkedOccupied
  <2>3. \A q \in Requests : ~On(q, b)'
    BY <1>1, <1>2, <1>4, ResidencyAssumption DEF BedOK, Exclusive, On
  <2>4. LeavesFrom(b)'
    BY <1>1, <1>2, <1>3 DEF BedOK, LeavesFrom
  <2>. QED  BY <1>2, <1>3, <2>1, <2>2, <2>3, <2>4
               DEF BedOK, Exclusive, Busy, StatusFits
<1>5. CASE req[p].bed # b
  <2>1. bed'[b] = bed[b]
    BY <1>5 DEF Inv, TypeOK, OccupyBed, MarkedOccupied
  <2>2. Untouched(b)
    BY <1>1, <1>3, <1>5, <2>1, ResidencyAssumption DEF Untouched, On
  <2>. QED  BY <1>2, <2>2, Frame
<1>. QED  BY <1>4, <1>5

LEMMA LeaveWriteBeds ==
    ASSUME Inv, NEW p \in Requests, LeaveWrite(p), NEW b \in Beds \ tainted
    PROVE  BedOK(b)'
<1> DEFINE r == req[p].res
<1>1. /\ req[p].pc = "leave"
      /\ r \in Residents
      /\ \A q \in Requests \ {p} : req'[q] = req[q]
      /\ bed' = bed
  BY DEF Inv, WellFormed, LeaveWrite, Finish, TypeOK
<1>2. /\ \A s \in Residents \ {r} : resident'[s] = resident[s]
      /\ resident[r].status = "NONE" => resident' = resident
      /\ resident[r].status # "NONE" => resident'[r].status # "LIVE"
  <2>1. /\ resident \in [Residents -> ResidentDocs]
        /\ Departed(r, req[p].op).status = "VACATED"
        /\ NoDocument.status = "NONE"
    BY <1>1 DEF Inv, TypeOK, Departed, ResidentDocs, NoDocument
  <2>2. \/ resident[r].status = "NONE" /\ resident' = resident
        \/ /\ resident[r].status # "NONE"
           /\ \/ resident' = [resident EXCEPT ![r] = NoDocument]
              \/ resident' = [resident EXCEPT ![r] = Departed(r, req[p].op)]
    BY DEF LeaveWrite
  <2> HIDE DEF r
  <2>. QED  BY <1>1, <2>1, <2>2
<1>3. BedOK(b)
  BY DEF Inv
<1>4. CASE req[p].bed = b
  <2>1. bed[b] \in {"OCCUPIED", "MAINTENANCE"} /\ Occupants(b) = {r}
    BY <1>1, <1>3, <1>4 DEF BedOK, On, Expects
  <2>2. resident[r].status = "LIVE"
    BY <2>1 DEF Occupants
  <2>3. resident'[r].status # "LIVE"
    BY <1>2, <2>2
  <2>4. req'[p].pc = "free" /\ req'[p].bed = b
    BY <1>4, <2>2, ResidencyAssumption
       DEF Inv, TypeOK, RequestStates, LeaveWrite
  <2>5. Occupants(b)' = {}
    BY <1>2, <2>1, <2>3 DEF Occupants
  <2>6. \A q \in Requests : On(q, b)' <=> q = p
    BY <1>1, <1>3, <1>4, <2>4 DEF BedOK, Exclusive, On
  <2>. QED  BY <1>1, <2>1, <2>4, <2>5, <2>6
               DEF BedOK, Exclusive, Expects, Busy, LeavesFrom
<1>5. CASE req[p].bed # b
  <2>1. r \notin Occupants(b)
    BY <1>1, <1>3, <1>5 DEF BedOK, LeavesFrom
  <2>2. Occupants(b)' = Occupants(b)
    BY <1>1, <1>2, <2>1 DEF Occupants
  <2>3. req'[p].pc # "leave" /\ req'[p].bed # b
    BY <1>5, ResidencyAssumption
       DEF Inv, TypeOK, RequestStates, LeaveWrite, Finish, Idle
  <2>4. Untouched(b)
    BY <1>1, <1>5, <2>2, <2>3 DEF Untouched, On
  <2>. QED  BY <1>3, <2>4, Frame
<1>. QED  BY <1>4, <1>5

LEMMA FreeBedBeds ==
    ASSUME Inv, NEW p \in Requests, FreeBed(p), NEW b \in Beds \ tainted
    PROVE  BedOK(b)'
<1>1. /\ req[p].pc = "free"
      /\ req[p].bed \in Beds
      /\ \A q \in Requests \ {p} : req'[q] = req[q]
      /\ req'[p].bed = NoBed
      /\ req'[p].pc = "idle"
      /\ resident' = resident
  BY DEF Inv, TypeOK, RequestStates, WellFormed, FreeBed, Finish, Idle
<1>2. BedOK(b)
  BY DEF Inv
<1>3. Occupants(b)' = Occupants(b)
  BY <1>1 DEF Occupants
<1>4. CASE req[p].bed = b
  <2>1. bed[b] \in {"OCCUPIED", "MAINTENANCE"} /\ Occupants(b) = {}
    BY <1>1, <1>2, <1>4 DEF BedOK, On, Expects
  <2>2. bed'[b] = "AVAILABLE"
    BY <1>4, <2>1 DEF Inv, TypeOK, FreeBed, MarkedAvailable
  <2>3. \A q \in Requests : ~On(q, b)'
    BY <1>1, <1>2, <1>4, ResidencyAssumption DEF BedOK, Exclusive, On
  <2>. QED  BY <1>3, <2>1, <2>2, <2>3
               DEF BedOK, Exclusive, Busy, LeavesFrom, StatusFits
<1>5. CASE req[p].bed # b
  <2>1. bed'[b] = bed[b]
    BY <1>5 DEF Inv, TypeOK, FreeBed, MarkedAvailable
  <2>2. Untouched(b)
    BY <1>1, <1>3, <1>5, <2>1, ResidencyAssumption DEF Untouched, On
  <2>. QED  BY <1>2, <2>2, Frame
<1>. QED  BY <1>4, <1>5

LEMMA AssignMoveBeds ==
    ASSUME Inv, NEW p \in Requests, AssignMove(p), NEW b \in Beds \ tainted'
    PROVE  BedOK(b)'
<1> DEFINE r == req[p].res
<1>1. /\ req[p].pc = "move"
      /\ req[p].bed \in Beds
      /\ r \in Residents
      /\ \A q \in Requests \ {p} : req'[q] = req[q]
      /\ bed' = bed
  BY DEF Inv, WellFormed, AssignMove, Finish, TypeOK
<1>2. b \in Beds \ tainted /\ BedOK(b)
  BY DEF Inv, AssignMove
<1>3. CASE resident[r].status = "NONE"
  <2>1. /\ resident' = resident
        /\ req'[p].pc = "idle"
        /\ req'[p].bed = NoBed
    BY <1>3 DEF AssignMove, Finish, Idle, Inv, TypeOK
  <2>2. Occupants(b)' = Occupants(b)
    BY <2>1 DEF Occupants
  <2>3. CASE req[p].bed = b
    <3>1. bed[b] \in {"AVAILABLE", "MAINTENANCE"} /\ Occupants(b) = {}
      BY <1>1, <1>2, <2>3 DEF BedOK, On, Expects
    <3>2. \A q \in Requests : ~On(q, b)'
      BY <1>1, <1>2, <2>1, <2>3, ResidencyAssumption
         DEF BedOK, Exclusive, On
    <3>. QED  BY <1>1, <2>2, <3>1, <3>2
                 DEF BedOK, Exclusive, Busy, LeavesFrom, StatusFits
  <2>4. CASE req[p].bed # b
    <3>1. Untouched(b)
      BY <1>1, <2>1, <2>2, <2>4, ResidencyAssumption DEF Untouched, On
    <3>. QED  BY <1>2, <3>1, Frame
  <2>. QED  BY <2>3, <2>4
<1>4. CASE resident[r].status # "NONE"
  <2>1. /\ \A s \in Residents \ {r} : resident'[s] = resident[s]
        /\ resident'[r].status = resident[r].status
        /\ resident'[r].bed = req[p].bed
        /\ req'[p].pc = "occupy"
        /\ req'[p].res = r
        /\ req'[p].bed = req[p].bed
        /\ resident[r].bed # b
    BY <1>1, <1>2, <1>4
       DEF AssignMove, Inv, TypeOK, ResidentDocs, RequestStates
  <2>2. CASE req[p].bed = b
    <3>1. bed[b] \in {"AVAILABLE", "MAINTENANCE"} /\ Occupants(b) = {}
      BY <1>1, <1>2, <2>2 DEF BedOK, On, Expects
    <3>2. /\ resident[r].status # "VACATED"
          /\ \A q \in Requests \ {p} : ~For(q, r)
      BY <1>2, <1>4, <2>2 DEF AssignMove
    <3>3. resident'[r].status = "LIVE"
      BY <1>1, <1>4, <2>1, <3>2
         DEF Inv, TypeOK, ResidentDocs, ResidentStatus
    <3>4. Occupants(b)' = {r}
      BY <1>1, <2>1, <2>2, <3>1, <3>3 DEF Occupants
    <3>5. \A q \in Requests : On(q, b)' <=> q = p
      BY <1>1, <1>2, <2>1, <2>2 DEF BedOK, Exclusive, On
    <3>6. LeavesFrom(b)'
      BY <1>1, <2>1, <3>2, <3>4 DEF LeavesFrom, For
    <3>. QED  BY <1>1, <2>1, <3>1, <3>4, <3>5, <3>6
                 DEF BedOK, Exclusive, Expects, Busy
  <2>3. CASE req[p].bed # b
    <3>1. Occupants(b)' = Occupants(b)
      BY <1>1, <2>1, <2>3 DEF Occupants
    <3>2. Untouched(b)
      BY <1>1, <2>1, <2>3, <3>1 DEF Untouched, On
    <3>. QED  BY <1>2, <3>2, Frame
  <2>. QED  BY <2>2, <2>3
<1>. QED  BY <1>3, <1>4

\* A request that has found bed c AVAILABLE has it to itself, unless c is
\* tainted; shared by create and bulkAssignBeds.
LEMMA OfferBeds ==
    ASSUME Inv, NEW p \in Requests, NEW c \in Beds, IsAvailable(c),
           req[p].pc = "idle",
           \A q \in Requests \ {p} : req'[q] = req[q],
           req'[p].bed = c, req'[p].pc \in {"save", "move"},
           resident' = resident, bed' = bed,
           NEW b \in Beds \ tainted, b \notin Raced(p, c)
    PROVE  BedOK(b)'
<1>1. BedOK(b)
  BY DEF Inv
<1>2. Occupants(b)' = Occupants(b)
  BY DEF Occupants
<1>3. CASE b = c
  <2>1. ~Busy(b)
    BY <1>3 DEF Raced, Busy, On
  <2>2. bed[b] = "AVAILABLE" /\ Occupants(b) = {}
    BY <1>1, <1>3, <2>1 DEF BedOK, IsAvailable, StatusFits
  <2>3. \A q \in Requests : On(q, b)' <=> q = p
    BY <1>3, <2>1 DEF Busy, On
  <2>. QED  BY <1>2, <2>2, <2>3
               DEF BedOK, Exclusive, Busy, Expects, LeavesFrom
<1>4. CASE b # c
  <2>1. Untouched(b)
    BY <1>2, <1>4 DEF Untouched, On
  <2>. QED  BY <1>1, <2>1, Frame
<1>. QED  BY <1>3, <1>4

LEMMA LeaveReadBeds ==
    ASSUME Inv, NEW p \in Requests, NEW r \in Residents, NEW op \in LeaveOps,
           LeaveRead(p, r, op), NEW b \in Beds \ tainted'
    PROVE  BedOK(b)'
<1>1. /\ req[p].pc = "idle"
      /\ \A q \in Requests \ {p} : req'[q] = req[q]
      /\ req'[p].pc = "leave"
      /\ req'[p].res = r
      /\ req'[p].bed = PopulatedBed(r)
      /\ resident' = resident
      /\ bed' = bed
  BY DEF LeaveRead, Inv, TypeOK
<1>2. b \in Beds \ tainted /\ BedOK(b)
  BY DEF LeaveRead, Inv
<1>3. Occupants(b)' = Occupants(b)
  BY <1>1 DEF Occupants
<1>4. CASE PopulatedBed(r) = b
  <2>1. resident[r].status \notin {"NONE", "VACATED"} /\ b \notin Raced(p, b)
    BY <1>4, ResidencyAssumption DEF LeaveRead
  <2>2. r \in Occupants(b)
    BY <1>4, <2>1, ResidencyAssumption
       DEF Occupants, PopulatedBed, Inv, TypeOK, ResidentDocs, ResidentStatus
  <2>3. ~Busy(b)
    BY <1>1, <2>1 DEF Raced, Busy, On
  <2>4. bed[b] \in {"OCCUPIED", "MAINTENANCE"} /\ Occupants(b) = {r}
    BY <1>2, <2>2, <2>3 DEF BedOK, Exclusive, StatusFits, Inv, TypeOK, BedStatus
  <2>5. \A q \in Requests : On(q, b)' <=> q = p
    BY <1>1, <1>4, <2>3 DEF Busy, On
  <2>6. LeavesFrom(b)'
    BY <1>1, <1>2, <1>3, <1>4 DEF BedOK, LeavesFrom
  <2>. QED  BY <1>1, <1>3, <2>4, <2>5, <2>6
               DEF BedOK, Exclusive, Busy, Expects
<1>5. CASE PopulatedBed(r) # b
  <2>1. r \notin Occupants(b)
    BY <1>2, <1>5, OccupiedExists DEF PopulatedBed, Occupants
  <2>2. Untouched(b)
    BY <1>1, <1>3, <1>5, <2>1 DEF Untouched, On
  <2>. QED  BY <1>2, <2>2, Frame
<1>. QED  BY <1>4, <1>5

\* A bed that nobody lives in and no request is under way for may be given
\* any status but OCCUPIED: POST, PATCH and DELETE of beds.
LEMMA EmptyBedBeds ==
    ASSUME Inv, NEW c \in Beds, NEW s \in BedStatus \ {"OCCUPIED"},
           bed' = [bed EXCEPT ![c] = s], resident' = resident, req' = req,
           NEW b \in Beds \ tainted,
           b = c => ~Busy(b) /\ Occupants(b) = {}
    PROVE  BedOK(b)'
<1>1. BedOK(b)
  BY DEF Inv
<1>2. Occupants(b)' = Occupants(b)
  BY DEF Occupants
<1>3. \A q \in Requests : On(q, b)' <=> On(q, b)
  BY DEF On
<1>4. CASE b = c
  <2>1. bed'[b] # "OCCUPIED"
    BY <1>4 DEF Inv, TypeOK
  <2>. QED  BY <1>2, <1>3, <1>4, <2>1
               DEF BedOK, Exclusive, Busy, LeavesFrom, StatusFits
<1>5. CASE b # c
  <2>1. bed'[b] = bed[b]
    BY <1>5 DEF Inv, TypeOK
  <2>2. Untouched(b)
    BY <1>2, <1>3, <2>1 DEF Untouched
  <2>. QED  BY <1>1, <2>2, Frame
<1>. QED  BY <1>4, <1>5

\* Maintenance of a bed, whoever lives there and whatever is under way.
LEMMA ClosedBeds ==
    ASSUME Inv, NEW c \in Beds, PatchBed(c, "MAINTENANCE"), NEW b \in Beds \ tainted
    PROVE  BedOK(b)'
<1>1. BedOK(b)
  BY DEF Inv
<1>2. Occupants(b)' = Occupants(b) /\ req' = req
  BY DEF Occupants, PatchBed
<1>3. bed'[b] \in {bed[b], "MAINTENANCE"}
  BY DEF Inv, TypeOK, PatchBed
<1>4. ~Busy(b)' => StatusFits(b)'
  BY <1>1, <1>2, <1>3 DEF BedOK, StatusFits, Busy, On
<1>5. ASSUME NEW q \in Requests, On(q, b)' PROVE Expects(q, b)'
  <2>1. On(q, b) /\ Expects(q, b)
    BY <1>1, <1>2, <1>5 DEF BedOK, On
  <2>. QED  BY <1>2, <1>3, <2>1 DEF Expects
<1>. QED  BY <1>1, <1>2, <1>4, <1>5 DEF BedOK, Exclusive, LeavesFrom, On

LEMMA DirectBeds ==
    ASSUME Inv, Direct, NEW b \in Beds \ tainted'
    PROVE  BedOK(b)'
<1>1. ASSUME NEW r \in Residents, NEW s \in {"LIVE", "VACATED"},
             NEW c \in Beds \cup {NoBed}, NEW m \in Rooms,
             PatchResident(r, s, c, m)
      PROVE  BedOK(b)'
  <2>1. b \in Beds \ tainted /\ c # b /\ resident[r].bed # b
    BY <1>1 DEF PatchResident
  <2>2. /\ \A q \in Residents \ {r} : resident'[q] = resident[q]
        /\ resident'[r].bed = c
    BY <1>1 DEF PatchResident, Patched, Inv, TypeOK, ResidentDocs
  <2>3. Occupants(b)' = Occupants(b)
    BY <2>1, <2>2 DEF Occupants
  <2>4. Untouched(b)
    BY <1>1, <2>3 DEF PatchResident, Untouched, On
  <2>. QED  BY <2>1, <2>4, Frame DEF Inv
<1>2. ASSUME NEW c \in Beds, AddBed(c)
      PROVE  BedOK(b)'
  <2>1. ~Busy(c) /\ Occupants(c) = {}
    BY <1>2 DEF AddBed, Occupants
  <2>. QED  BY <1>2, <2>1, EmptyBedBeds DEF AddBed, BedStatus
<1>3. ASSUME NEW c \in Beds, NEW s \in BedStatus \ {"NONE"}, PatchBed(c, s)
      PROVE  BedOK(b)'
  <2>1. b \in Beds \ tainted
    BY <1>3 DEF PatchBed
  <2>2. CASE b = c
    <3>1. CASE s = "MAINTENANCE"
      BY <1>3, <2>1, <3>1, ClosedBeds
    <3>2. CASE s # "MAINTENANCE"
      <4>1. s # "OCCUPIED" /\ ~Busy(c) /\ Occupants(c) = {}
        BY <1>3, <2>1, <2>2, <3>2 DEF PatchBed
      <4>. QED  BY <1>3, <2>1, <2>2, <4>1, EmptyBedBeds DEF PatchBed
    <3>. QED  BY <3>1, <3>2
  <2>3. CASE b # c
    <3>1. bed'[b] = bed[b] /\ resident' = resident /\ req' = req
      BY <1>3, <2>3 DEF PatchBed, Inv, TypeOK
    <3>2. Untouched(b)
      BY <3>1 DEF Untouched, On, Occupants
    <3>. QED  BY <2>1, <3>2, Frame DEF Inv
  <2>. QED  BY <2>2, <2>3
<1>4. ASSUME NEW c \in Beds, RemoveBed(c)
      PROVE  BedOK(b)'
  <2>1. b \in Beds \ tainted
    BY <1>4 DEF RemoveBed
  <2>2. b = c => ~Busy(b) /\ Occupants(b) = {}
    BY <1>4 DEF RemoveBed
  <2>. QED  BY <1>4, <2>1, <2>2, EmptyBedBeds DEF RemoveBed, BedStatus
<1>5. ASSUME resident' = resident, bed' = bed, req' = req, tainted' = tainted
      PROVE  BedOK(b)'
  <2>1. Untouched(b)
    BY <1>5 DEF Untouched, On, Occupants
  <2>. QED  BY <1>5, <2>1, Frame DEF Inv
<1>. QED
  BY <1>1, <1>2, <1>3, <1>4, <1>5 DEF Direct, AddRoom, PatchRoom, RemoveRoom

LEMMA FailBeds ==
    ASSUME Inv, NEW p \in Requests, Fail(p), NEW b \in Beds \ tainted'
    PROVE  BedOK(b)'
<1>1. /\ \A q \in Requests \ {p} : req'[q] = req[q]
      /\ req'[p].pc = "idle"
      /\ req'[p].bed = NoBed
      /\ resident' = resident
      /\ bed' = bed
  BY DEF Fail, Finish, Idle, Inv, TypeOK
<1>2. b \in Beds \ tainted /\ BedOK(b)
  BY DEF Fail, Inv
<1>3. Occupants(b)' = Occupants(b)
  BY <1>1 DEF Occupants
<1>4. CASE On(p, b)
  <2>1. req[p].pc \notin {"occupy", "free"}
    BY <1>4 DEF Fail, Torn, On
  <2>2. StatusFits(b)
    BY <1>2, <1>4, <2>1, OnCalls DEF BedOK, Expects, StatusFits
  <2>3. \A q \in Requests : ~On(q, b)'
    BY <1>1, <1>2, <1>4 DEF BedOK, Exclusive, On
  <2>4. LeavesFrom(b)'
    BY <1>1, <1>2, <1>3 DEF BedOK, LeavesFrom
  <2>. QED  BY <1>1, <1>2, <1>3, <2>2, <2>3, <2>4
               DEF BedOK, Exclusive, Busy, StatusFits
<1>5. CASE ~On(p, b)
  <2>1. Untouched(b)
    BY <1>1, <1>3, <1>5 DEF Untouched, On
  <2>. QED  BY <1>2, <2>1, Frame
<1>. QED  BY <1>4, <1>5

LEMMA StartBeds ==
    ASSUME Inv, NEW p \in Requests, Start(p), NEW b \in Beds \ tainted'
    PROVE  BedOK(b)'
<1>1. ASSUME NEW c \in Beds, NEW r \in Residents, NEW d \in DepositInputs,
             CreateCheck(p, c, r, d)
      PROVE  BedOK(b)'
  <2>1. /\ \A q \in Requests \ {p} : req'[q] = req[q]
        /\ req'[p].bed = c
        /\ req'[p].pc = "save"
    BY <1>1 DEF CreateCheck, Inv, TypeOK
  <2>. QED  BY <1>1, <2>1, OfferBeds DEF CreateCheck
<1>2. ASSUME NEW r \in Residents, NEW op \in LeaveOps, LeaveRead(p, r, op)
      PROVE  BedOK(b)'
  BY <1>2, LeaveReadBeds
<1>3. ASSUME NEW r \in Residents, SettleRead(p, r)
      PROVE  BedOK(b)'
  <2>1. /\ \A q \in Requests \ {p} : req'[q] = req[q]
        /\ req'[p].bed = NoBed
        /\ req'[p].pc = "settle"
    BY <1>3 DEF SettleRead, Inv, TypeOK, Idle
  <2>2. req[p].bed = NoBed
    BY <1>3 DEF SettleRead, Inv, WellFormed
  <2>. QED  BY <1>3, <2>1, <2>2, BedlessBeds DEF SettleRead
<1>4. ASSUME NEW c \in Beds, NEW r \in Residents, AssignCheck(p, c, r)
      PROVE  BedOK(b)'
  <2>1. /\ \A q \in Requests \ {p} : req'[q] = req[q]
        /\ req'[p].bed = c
        /\ req'[p].pc = "move"
    BY <1>4 DEF AssignCheck, Inv, TypeOK, Idle
  <2>. QED  BY <1>4, <2>1, OfferBeds DEF AssignCheck
<1>. QED  BY <1>1, <1>2, <1>3, <1>4 DEF Start

LEMMA ContinueBeds ==
    ASSUME Inv, NEW p \in Requests, Continue(p), NEW b \in Beds \ tainted'
    PROVE  BedOK(b)'
<1>1. CASE CreateSave(p)
  BY <1>1, CreateSaveBeds DEF CreateSave
<1>2. CASE OccupyBed(p)
  BY <1>2, OccupyBedBeds DEF OccupyBed
<1>3. CASE ReadRoom(p)
  <2>1. req[p].bed = NoBed
    BY <1>3 DEF ReadRoom, Inv, WellFormed
  <2>2. /\ \A q \in Requests \ {p} : req'[q] = req[q]
        /\ req'[p].bed = NoBed
        /\ req'[p].pc # "leave"
    BY <1>3, <2>1 DEF ReadRoom, Finish, Idle, Inv, TypeOK, RequestStates
  <2>. QED  BY <1>3, <2>1, <2>2, BedlessBeds DEF ReadRoom
<1>4. CASE WriteRoom(p)
  <2>1. req[p].bed = NoBed
    BY <1>4 DEF WriteRoom, Inv, WellFormed
  <2>2. /\ \A q \in Requests \ {p} : req'[q] = req[q]
        /\ req'[p].bed = NoBed
        /\ req'[p].pc # "leave"
    BY <1>4, <2>1 DEF WriteRoom, Finish, Idle, Inv, TypeOK, RequestStates
  <2>. QED  BY <1>4, <2>1, <2>2, BedlessBeds DEF WriteRoom
<1>5. CASE CreateDeposit(p)
  <2>1. req[p].bed = NoBed
    BY <1>5 DEF CreateDeposit, Inv, WellFormed
  <2>2. /\ \A q \in Requests \ {p} : req'[q] = req[q]
        /\ req'[p].bed = NoBed
        /\ req'[p].pc # "leave"
    BY <1>5 DEF CreateDeposit, Finish, Idle, Inv, TypeOK
  <2>. QED  BY <1>5, <2>1, <2>2, BedlessBeds DEF CreateDeposit
<1>6. CASE LeaveWrite(p)
  BY <1>6, LeaveWriteBeds DEF LeaveWrite
<1>7. CASE FreeBed(p)
  BY <1>7, FreeBedBeds DEF FreeBed
<1>8. CASE SettleWrite(p)
  <2>1. req[p].bed = NoBed
    BY <1>8 DEF SettleWrite, Inv, WellFormed
  <2>2. /\ \A q \in Requests \ {p} : req'[q] = req[q]
        /\ req'[p].bed = NoBed
        /\ req'[p].pc # "leave"
    BY <1>8 DEF SettleWrite, Finish, Idle, Inv, TypeOK
  <2>3. \A r \in Residents : /\ resident'[r].status = resident[r].status
                             /\ resident'[r].bed = resident[r].bed
    BY <1>8 DEF SettleWrite, Inv, TypeOK, ResidentDocs
  <2>. QED  BY <1>8, <2>1, <2>2, <2>3, BedlessBeds DEF SettleWrite
<1>9. CASE AssignMove(p)
  BY <1>9, AssignMoveBeds
<1>. QED
  BY <1>1, <1>2, <1>3, <1>4, <1>5, <1>6, <1>7, <1>8, <1>9 DEF Continue
-----------------------------------------------------------------------------
(* Well-formedness of the requests *)

\* A step of request p leaves every other request well formed, provided that
\* it does not create the resident another is about to create, and does not
\* start on that resident.
LEMMA OthersWellFormed ==
    ASSUME Inv, NEW p \in Requests,
           \A q \in Requests \ {p} : req'[q] = req[q],
           \A q \in Requests \ {p} : req[q].pc = "save" =>
              /\ resident'[req[q].res].status = "NONE"
              /\ ~For(p, req[q].res)'
    PROVE  \A q \in Requests \ {p} : WellFormed(q)'
<1> SUFFICES ASSUME NEW q \in Requests \ {p}
             PROVE  WellFormed(q)'
  OBVIOUS
<1>1. WellFormed(q)
  BY DEF Inv
<1>2. ASSUME req[q].pc = "save"
      PROVE  \A x \in Requests \ {q} : ~For(x, req[q].res)'
  <2> SUFFICES ASSUME NEW x \in Requests \ {q}
               PROVE  ~For(x, req[q].res)'
    OBVIOUS
  <2>1. CASE x = p
    BY <1>2, <2>1
  <2>2. CASE x # p
    BY <1>1, <1>2, <2>2 DEF WellFormed, For
  <2>. QED  BY <2>1, <2>2
<1>. QED  BY <1>1, <1>2 DEF WellFormed

\* A resident that a request is about to create is in nobody else's hands.
LEMMA FreshResident ==
    ASSUME Inv, NEW p \in Requests, NEW q \in Requests \ {p},
           req[q].pc = "save"
    PROVE  /\ req[q].res \in Residents
           /\ resident[req[q].res].status = "NONE"
           /\ req[p].pc # "idle" => req[p].res # req[q].res
BY DEF Inv, WellFormed, For

LEMMA IdleWellFormed ==
    ASSUME req \in [Requests -> RequestStates], NEW p \in Requests, Finish(p)
    PROVE  WellFormed(p)'
BY DEF Finish, Idle, WellFormed

LEMMA ContinueWellFormed ==
    ASSUME Inv, NEW p \in Requests, Continue(p)
    PROVE  \A q \in Requests : WellFormed(q)'
<1>1. /\ req[p].pc # "idle"
      /\ req[p].res \in Residents
      /\ \A q \in Requests \ {p} : req'[q] = req[q]
      /\ req'[p].pc = "idle" \/ req'[p].res = req[p].res
  <2>1. /\ req[p].pc # "idle"
        /\ \/ Finish(p)
           \/ req' = [req EXCEPT ![p].pc = "occupy"]
           \/ req' = [req EXCEPT ![p].pc = "readRoom", ![p].bed = NoBed]
           \/ req' = [req EXCEPT ![p].pc = "writeRoom",
                                 ![p].occ = room[req[p].room].occupied]
           \/ req' = [req EXCEPT ![p].pc = "deposit"]
           \/ req' = [req EXCEPT ![p].pc = "free"]
           \/ req' = [req EXCEPT ![p].pc = "readRoom"]
    BY DEF Continue, CreateSave, OccupyBed, ReadRoom, WriteRoom,
           CreateDeposit, LeaveWrite, FreeBed, SettleWrite, AssignMove
  <2>. QED  BY <2>1 DEF Inv, TypeOK, RequestStates, Finish, Idle, WellFormed
<1>2. \A s \in Residents \ {req[p].res} : resident'[s] = resident[s]
  BY <1>1 DEF Inv, TypeOK, Continue, CreateSave, OccupyBed, ReadRoom,
              WriteRoom, CreateDeposit, LeaveWrite, FreeBed, SettleWrite,
              AssignMove
<1>3. \A q \in Requests \ {p} : WellFormed(q)'
  BY <1>1, <1>2, FreshResident, OthersWellFormed DEF For
<1>4. WellFormed(p)'
  <2>1. CASE Finish(p)
    BY <2>1, IdleWellFormed DEF Inv, TypeOK
  <2>2. CASE CreateSave(p)
    BY <2>2 DEF CreateSave, Inv, TypeOK, RequestStates, WellFormed
  <2>3. CASE OccupyBed(p) /\ ~Finish(p)
    <3>1. /\ req[p].op = "create"
          /\ req' = [req EXCEPT ![p].pc = "readRoom", ![p].bed = NoBed]
          /\ resident' = resident
      BY <2>3 DEF OccupyBed
    <3>2. /\ req'[p].pc = "readRoom"
          /\ req'[p].bed = NoBed
          /\ req'[p].op = "create"
          /\ req'[p].res = req[p].res
          /\ req'[p].room = req[p].room
      BY <3>1 DEF Inv, TypeOK, RequestStates
    <3>3. req[p].room \in Rooms
      BY <3>1 DEF Inv, WellFormed
    <3>. QED  BY <1>1, <3>2, <3>3 DEF WellFormed
  <2>4. CASE ReadRoom(p) /\ ~Finish(p)
    <3>1. /\ req[p].pc = "readRoom"
          /\ req' = [req EXCEPT ![p].pc = "writeRoom",
                                ![p].occ = room[req[p].room].occupied]
      BY <2>4 DEF ReadRoom
    <3>2. /\ req'[p].pc = "writeRoom"
          /\ req'[p].bed = req[p].bed
          /\ req'[p].res = req[p].res
          /\ req'[p].room = req[p].room
      BY <3>1 DEF Inv, TypeOK, RequestStates
    <3>3. req[p].bed = NoBed /\ req[p].room \in Rooms
      BY <3>1 DEF Inv, WellFormed
    <3>. QED  BY <1>1, <3>2, <3>3 DEF WellFormed
  <2>5. CASE WriteRoom(p) /\ ~Finish(p)
    <3>1. req[p].pc = "writeRoom" /\ req' = [req EXCEPT ![p].pc = "deposit"]
      BY <2>5 DEF WriteRoom
    <3>2. /\ req'[p].pc = "deposit"
          /\ req'[p].bed = req[p].bed
          /\ req'[p].res = req[p].res
          /\ req'[p].room = req[p].room
      BY <3>1 DEF Inv, TypeOK, RequestStates
    <3>3. req[p].bed = NoBed /\ req[p].room \in Rooms
      BY <3>1 DEF Inv, WellFormed
    <3>. QED  BY <1>1, <3>2, <3>3 DEF WellFormed
  <2>6. CASE LeaveWrite(p) /\ ~Finish(p)
    BY <2>6 DEF LeaveWrite, Inv, TypeOK, RequestStates, WellFormed
  <2>7. CASE AssignMove(p) /\ ~Finish(p)
    <3>1. req[p].pc = "move" /\ req' = [req EXCEPT ![p].pc = "occupy"]
      BY <2>7 DEF AssignMove
    <3>2. /\ req'[p].pc = "occupy"
          /\ req'[p].op = req[p].op
          /\ req'[p].bed = req[p].bed
          /\ req'[p].res = req[p].res
          /\ req'[p].room = req[p].room
      BY <3>1 DEF Inv, TypeOK, RequestStates
    <3>3. WellFormed(p)
      BY DEF Inv
    <3>. QED  BY <3>1, <3>2, <3>3 DEF WellFormed
  <2>. QED
    BY <2>1, <2>2, <2>3, <2>4, <2>5, <2>6, <2>7
       DEF Continue, CreateDeposit, FreeBed, SettleWrite
<1>. QED  BY <1>3, <1>4

LEMMA StartWellFormed ==
    ASSUME Inv, NEW p \in Requests, Start(p)
    PROVE  \A q \in Requests : WellFormed(q)'
<1>1. /\ req[p].pc = "idle"
      /\ \A q \in Requests \ {p} : req'[q] = req[q]
      /\ resident' = resident
  BY DEF Inv, TypeOK, Start, CreateCheck, LeaveRead, SettleRead, AssignCheck
<1>2. ASSUME NEW b \in Beds, NEW r \in Residents, NEW d \in DepositInputs,
             CreateCheck(p, b, r, d)
      PROVE  WellFormed(p)' /\ \A q \in Requests : ~For(q, req'[p].res)
  BY <1>1, <1>2, ResidencyAssumption
     DEF CreateCheck, Inv, TypeOK, WellFormed, For
<1>3. ASSUME NEW r \in Residents, NEW op \in LeaveOps, LeaveRead(p, r, op)
      PROVE  WellFormed(p)' /\ resident[req'[p].res].status # "NONE"
  BY <1>3 DEF LeaveRead, LeaveOps, Inv, TypeOK, WellFormed
<1>4. ASSUME NEW r \in Residents, SettleRead(p, r)
      PROVE  WellFormed(p)' /\ resident[req'[p].res].status # "NONE"
  BY <1>4 DEF SettleRead, Idle, HasLeft, Inv, TypeOK, WellFormed
<1>5. ASSUME NEW b \in Beds, NEW r \in Residents, AssignCheck(p, b, r)
      PROVE  WellFormed(p)' /\ resident[req'[p].res].status # "NONE"
  BY <1>5 DEF AssignCheck, Idle, Inv, TypeOK, WellFormed
<1>6. /\ WellFormed(p)'
      /\ \/ resident[req'[p].res].status # "NONE"
         \/ \A q \in Requests : ~For(q, req'[p].res)
  BY <1>2, <1>3, <1>4, <1>5 DEF Start
<1>7. \A q \in Requests \ {p} : WellFormed(q)'
  BY <1>1, <1>6, FreshResident, OthersWellFormed DEF For
<1>. QED  BY <1>6, <1>7

LEMMA DirectWellFormed ==
    ASSUME Inv, Direct
    PROVE  \A q \in Requests : WellFormed(q)'
<1>1. req' = req
  BY DEF Direct, PatchResident, AddBed, PatchBed, RemoveBed, AddRoom,
         PatchRoom, RemoveRoom
<1>2. \A r \in Residents :
         resident[r].status = "NONE" => resident'[r].status = "NONE"
  BY DEF Inv, TypeOK, Direct, PatchResident, AddBed, PatchBed, RemoveBed,
         AddRoom, PatchRoom, RemoveRoom
<1>. QED  BY <1>1, <1>2 DEF Inv, WellFormed, For

LEMMA FailWellFormed ==
    ASSUME Inv, NEW p \in Requests, Fail(p)
    PROVE  \A q \in Requests : WellFormed(q)'
<1>1. /\ req'[p].pc = "idle"
      /\ \A q \in Requests \ {p} : req'[q] = req[q]
      /\ resident' = resident
  BY DEF Inv, TypeOK, Fail, Finish, Idle
<1>2. \A q \in Requests \ {p} : WellFormed(q)'
  BY <1>1, FreshResident, OthersWellFormed DEF For
<1>. QED  BY <1>2, IdleWellFormed DEF Fail, Inv, TypeOK
-----------------------------------------------------------------------------
(* The theorems *)

LEMMA ContinueType ==
    ASSUME Inv, NEW p \in Requests, Continue(p)
    PROVE  TypeOK'
BY CreateSaveType, OccupyBedType, ReadRoomType, WriteRoomType,
   CreateDepositType, LeaveWriteType, FreeBedType, SettleWriteType,
   AssignMoveType DEF Inv, Continue

LEMMA InvInductive ==
    ASSUME Inv, [Next]_vars
    PROVE  Inv'
<1>1. ASSUME NEW p \in Requests, Start(p)
      PROVE  Inv'
  BY <1>1, StartType, StartWellFormed, StartBeds DEF Inv
<1>2. ASSUME NEW p \in Requests, Continue(p)
      PROVE  Inv'
  BY <1>2, ContinueType, ContinueWellFormed, ContinueBeds DEF Inv
<1>3. ASSUME NEW p \in Requests, Fail(p)
      PROVE  Inv'
  BY <1>3, FailType, FailWellFormed, FailBeds DEF Inv
<1>4. CASE Direct
  BY <1>4, DirectType, DirectWellFormed, DirectBeds DEF Inv
<1>5. CASE UNCHANGED vars
  BY <1>5 DEF vars, Inv, TypeOK, WellFormed, BedOK, Exclusive, Expects,
              LeavesFrom, On, For, Busy, Occupants, StatusFits
<1>. QED  BY <1>1, <1>2, <1>3, <1>4, <1>5 DEF Next

\* Inv, with what each request under way may rely on, holds in every
\* reachable state, whichever endpoints are called and whatever fails.
THEOREM InvHolds == Spec => []Inv
<1>1. Inv /\ [Next]_vars => Inv'
  BY InvInductive
<1>. QED  BY InitInv, <1>1, PTL DEF Spec

\* The documents and the requests in flight keep their types.
THEOREM TypeCorrect == Spec => []TypeOK
<1>1. Inv => TypeOK
  BY DEF Inv
<1>. QED  BY <1>1, InvHolds, PTL

\* No bed untouched by an unguarded operation has two live residents, for any
\* number of concurrent requests: create and bulkAssignBeds check the status
\* of the bed, and remove, checkOut and vacate free it after its resident.
THEOREM BedsSingle == Spec => []NoDoubleBooking
<1>1. Inv => NoDoubleBooking
  BY DEF Inv, BedOK, Exclusive, NoDoubleBooking
<1>. QED  BY <1>1, InvHolds, PTL

\* Between requests, such a bed is lived in if it is OCCUPIED and empty if it is
\* AVAILABLE.
THEOREM StatusTruthful == Spec => []CollectionsAgree
<1>1. Inv => CollectionsAgree
  BY DEF Inv, BedOK, CollectionsAgree
<1>. QED  BY <1>1, InvHolds, PTL
-----------------------------------------------------------------------------
(* Settlements *)

\* What SettledHasLeft rests on: the resident that a settlement has read has
\* not come back when its flag is written, but by a PATCH that is noted, even if
\* the document was deleted in between and its id were in use again.
SettledInv ==
    /\ \A r \in Residents : resident[r].settled =>
          resident[r].status = "VACATED" \/ resident[r].revived
    /\ \A p \in Requests : req[p].pc = "settle" =>
          \/ resident[req[p].res].status # "LIVE"
          \/ resident[req[p].res].revived

LEMMA SettledInit == Init => SettledInv
BY DEF Init, SettledInv, NoDocument, Idle

\* A step that revives no resident keeps it.
LEMMA SettledFrame ==
    ASSUME Inv, SettledInv,
           \A r \in Residents :
              /\ resident'[r].status = "LIVE" =>
                    /\ resident[r].status = "LIVE"
                    /\ resident'[r].revived = resident[r].revived
              /\ resident'[r].settled =>
                    \/ resident'[r].status = "VACATED"
                    \/ resident'[r].revived
                    \/ /\ resident[r].settled
                       /\ resident'[r].status = resident[r].status
                       /\ resident'[r].revived = resident[r].revived,
           \A p \in Requests : req'[p].pc = "settle" =>
              /\ req'[p].res \in Residents
              /\ \/ resident[req'[p].res].status # "LIVE"
                 \/ resident[req'[p].res].revived
    PROVE  SettledInv'
BY DEF SettledInv

LEMMA SettledCreateSave ==
    ASSUME Inv, SettledInv, NEW p \in Requests, CreateSave(p)
    PROVE  SettledInv'
<1> DEFINE s == req[p].res
<1>1. /\ s \in Residents
      /\ req[p].pc = "save"
      /\ \A q \in Requests \ {p} : ~For(q, s)
  BY DEF CreateSave, Inv, WellFormed
<1>2. /\ \A r \in Residents \ {s} : resident'[r] = resident[r]
      /\ resident'[s].settled = FALSE
      /\ \A q \in Requests \ {p} : req'[q] = req[q]
      /\ req'[p].pc = "occupy"
  BY <1>1 DEF CreateSave, Inv, TypeOK, RequestStates
<1>3. ASSUME NEW q \in Requests, req'[q].pc = "settle"
      PROVE  \/ resident'[req'[q].res].status # "LIVE"
             \/ resident'[req'[q].res].revived
  <2>1. q # p /\ req[q].pc = "settle" /\ req[q].res # s
    BY <1>1, <1>2, <1>3 DEF For
  <2>2. req[q].res \in Residents
    BY <2>1 DEF Inv, WellFormed
  <2>. QED  BY <1>2, <2>1, <2>2 DEF SettledInv
<1>. QED  BY <1>1, <1>2, <1>3 DEF SettledInv

\* PATCH /residents/:id brings a resident back, and it is noted.
LEMMA SettledPatch ==
    ASSUME Inv, SettledInv, NEW r \in Residents, NEW s \in {"LIVE", "VACATED"},
           NEW b \in Beds \cup {NoBed}, NEW m \in Rooms, PatchResident(r, s, b, m)
    PROVE  SettledInv'
<1>1. /\ \A q \in Residents \ {r} : resident'[q] = resident[q]
      /\ resident'[r] = Patched(r, s, b, m)
      /\ resident[r] \in ResidentDocs /\ resident[r].status # "NONE"
      /\ req' = req
  BY DEF PatchResident, Inv, TypeOK
<1>3. /\ resident'[r].status = s
      /\ resident'[r].settled = resident[r].settled
      /\ resident'[r].revived =
            (s = "LIVE" /\ (resident[r].revived \/ resident[r].status = "VACATED"))
      /\ resident[r].status \in {"LIVE", "VACATED"}
  BY <1>1 DEF Patched, HasLeft, ResidentDocs, ResidentStatus
<1>2. \A p \in Requests : req[p].pc = "settle" => req[p].res \in Residents
  BY DEF Inv, WellFormed
<1>. QED  BY <1>1, <1>2, <1>3 DEF SettledInv

LEMMA SettledStep ==
    ASSUME Inv, SettledInv, Next
    PROVE  SettledInv'
<1>1. ASSUME NEW p \in Requests, req[p].pc = "settle"
      PROVE  /\ req[p].res \in Residents
             /\ \/ resident[req[p].res].status # "LIVE"
                \/ resident[req[p].res].revived
  BY <1>1 DEF SettledInv, Inv, WellFormed
<1>2. CASE Direct
  <2>1. CASE resident' = resident /\ req' = req
    BY <2>1 DEF SettledInv
  <2>. QED  BY <1>2, <2>1, SettledPatch
            DEF Direct, AddBed, PatchBed, RemoveBed, AddRoom, PatchRoom, RemoveRoom
<1>3. ASSUME NEW p \in Requests, Fail(p)
      PROVE  SettledInv'
  <2>1. /\ resident' = resident
        /\ \A q \in Requests \ {p} : req'[q] = req[q]
        /\ req'[p].pc = "idle"
    BY <1>3 DEF Fail, Finish, Idle, Inv, TypeOK
  <2>. QED  BY <2>1 DEF SettledInv
<1>4. ASSUME NEW p \in Requests, Start(p)
      PROVE  SettledInv'
  <2>1. /\ resident' = resident
        /\ \A q \in Requests \ {p} : req'[q] = req[q]
    BY <1>4 DEF Start, CreateCheck, LeaveRead, SettleRead, AssignCheck, Inv,
                TypeOK
  <2>2. req'[p].pc = "settle" =>
           /\ req'[p].res \in Residents
           /\ resident[req'[p].res].status # "LIVE"
    <3>1. ASSUME NEW r \in Residents, SettleRead(p, r)
          PROVE  req'[p].res = r /\ resident[r].status = "VACATED"
      BY <3>1 DEF SettleRead, HasLeft, Idle, Inv, TypeOK
    <3>2. \/ req'[p].pc # "settle"
          \/ \E r \in Residents : SettleRead(p, r)
      <4>1. ASSUME NEW b \in Beds, NEW r \in Residents,
                   NEW d \in DepositInputs, CreateCheck(p, b, r, d)
            PROVE  req'[p].pc = "save"
        BY <4>1 DEF CreateCheck, Inv, TypeOK
      <4>2. ASSUME NEW r \in Residents, NEW op \in LeaveOps,
                   LeaveRead(p, r, op)
            PROVE  req'[p].pc = "leave"
        BY <4>2 DEF LeaveRead, Inv, TypeOK
      <4>3. ASSUME NEW b \in Beds, NEW r \in Residents, AssignCheck(p, b, r)
            PROVE  req'[p].pc = "move"
        BY <4>3 DEF AssignCheck, Idle, Inv, TypeOK
      <4>. QED  BY <1>4, <4>1, <4>2, <4>3 DEF Start
    <3>. QED  BY <3>1, <3>2
  <2>. QED  BY <2>1, <2>2 DEF SettledInv
<1>5. ASSUME NEW p \in Requests, Continue(p)
      PROVE  SettledInv'
  <2>1. req[p].res \in Residents
    BY <1>5 DEF Continue, CreateSave, OccupyBed, ReadRoom, WriteRoom,
                CreateDeposit, LeaveWrite, FreeBed, SettleWrite, AssignMove,
                Inv, WellFormed
  <2>2. /\ \A q \in Requests \ {p} : req'[q] = req[q]
        /\ req'[p].pc # "settle"
    BY <1>5 DEF Continue, CreateSave, OccupyBed, ReadRoom, WriteRoom,
                CreateDeposit, LeaveWrite, FreeBed, SettleWrite, AssignMove,
                Finish, Idle, Inv, TypeOK, RequestStates
  <2>3. CASE CreateSave(p)
    BY <2>3, SettledCreateSave
  <2>4. CASE LeaveWrite(p)
    <3>1. \A r \in Residents :
             \/ resident'[r] = resident[r]
             \/ resident'[r] = NoDocument
             \/ resident'[r] = Departed(r, req[p].op)
      BY <2>1, <2>4 DEF LeaveWrite, Inv, TypeOK
    <3>2. \A r \in Residents : Departed(r, req[p].op).status = "VACATED"
      BY DEF Departed, Inv, TypeOK, ResidentDocs
    <3>. QED  BY <1>1, <2>2, <3>1, <3>2, SettledFrame DEF NoDocument
  <2>5. CASE SettleWrite(p)
    <3>1. /\ \A r \in Residents : resident'[r].status = resident[r].status
          /\ \A r \in Residents \ {req[p].res} : resident'[r] = resident[r]
          /\ resident[req[p].res].status = "NONE" => resident' = resident
      BY <2>1, <2>5 DEF SettleWrite, Inv, TypeOK, ResidentDocs
    <3>2. /\ \A r \in Residents : resident'[r].revived = resident[r].revived
          /\ \/ resident[req[p].res].status \in {"NONE", "VACATED"}
             \/ resident[req[p].res].revived
      BY <1>1, <2>1, <2>5
         DEF SettleWrite, Inv, TypeOK, ResidentDocs, ResidentStatus
    <3>. QED  BY <1>1, <2>2, <3>1, <3>2, SettledFrame
  <2>6. CASE AssignMove(p)
    <3>1. \A r \in Residents : /\ resident'[r].status = resident[r].status
                               /\ resident'[r].settled = resident[r].settled
                               /\ resident'[r].revived = resident[r].revived
      BY <2>1, <2>6 DEF AssignMove, Inv, TypeOK, ResidentDocs
    <3>. QED  BY <1>1, <2>2, <3>1, SettledFrame
  <2>7. CASE resident' = resident
    BY <1>1, <2>2, <2>7, SettledFrame
  <2>. QED
    BY <1>5, <2>3, <2>4, <2>5, <2>6, <2>7
       DEF Continue, OccupyBed, ReadRoom, WriteRoom, CreateDeposit, FreeBed
<1>. QED  BY <1>2, <1>3, <1>4, <1>5 DEF Next

\* completeSettlement only ever settles a resident who has left, or whom a PATCH
\* has brought back meanwhile, whatever runs between its read of the status and
\* its write of the flag.
THEOREM SettlementsFinal == Spec => []SettledHasLeft
<1>1. Inv /\ SettledInv /\ [Next]_vars => SettledInv'
  <2>1. ASSUME SettledInv, UNCHANGED vars
        PROVE  SettledInv'
    BY <2>1 DEF vars, SettledInv
  <2>. QED  BY <2>1, SettledStep
<1>2. SettledInv => SettledHasLeft
  BY DEF SettledInv, SettledHasLeft
<1>. QED  BY SettledInit, InvHolds, <1>1, <1>2, PTL DEF Spec
-----------------------------------------------------------------------------
(* Residency implements BedRegister: which cell each step changes.          *)

Cells == [b \in Beds |-> CellOf(b)]

LEMMA GuestIs ==
    ASSUME NEW r \in Residents
    PROVE  GuestOf({}) = NoRes /\ GuestOf({r}) = r /\ {r} # {}
<1>1. {r} # {} /\ (CHOOSE s \in {r} : TRUE) = r
  OBVIOUS
<1>. QED  BY <1>1 DEF GuestOf

LEMMA CellIs ==
    ASSUME NEW b \in Beds
    PROVE  /\ b \in tainted => CellOf(b) = Register!Untended
           /\ b \notin tainted =>
                 CellOf(b) = [stage |-> StageOf(b), status |-> bed[b],
                              guest |-> GuestOf(Occupants(b))]
           /\ b \in tainted' => CellOf(b)' = Register!Untended
           /\ b \notin tainted' =>
                 CellOf(b)' = [stage |-> StageOf(b)', status |-> bed'[b],
                               guest |-> GuestOf(Occupants(b)')]
BY DEF CellOf, GuestOf, Register!Untended

\* What the stage of a bed depends on: the calls of requests that move it on.
Moving(p, b) == IF On(p, b) /\ req[p].pc \in {"save", "move", "occupy", "free"}
                THEN req[p].pc ELSE "idle"

LEMMA ReachedBy ==
    ASSUME NEW b \in Beds
    PROVE  /\ Reached(b, {"save", "move"})
                <=> \E p \in Requests : Moving(p, b) \in {"save", "move"}
           /\ Reached(b, {"occupy"}) <=> \E p \in Requests : Moving(p, b) = "occupy"
           /\ Reached(b, {"free"}) <=> \E p \in Requests : Moving(p, b) = "free"
           /\ Reached(b, {"save", "move"})'
                <=> \E p \in Requests : Moving(p, b)' \in {"save", "move"}
           /\ Reached(b, {"occupy"})' <=> \E p \in Requests : Moving(p, b)' = "occupy"
           /\ Reached(b, {"free"})' <=> \E p \in Requests : Moving(p, b)' = "free"
BY DEF Reached, Moving

\* A bed that nothing happens to.
Stays(b) == /\ bed'[b] = bed[b]
            /\ Occupants(b)' = Occupants(b)
            /\ StageOf(b)' = StageOf(b)

LEMMA StaysWhen ==
    ASSUME NEW b \in Beds, bed'[b] = bed[b], Occupants(b)' = Occupants(b),
           \A p \in Requests : Moving(p, b)' = Moving(p, b)
    PROVE  Stays(b)
<1>1. StageOf(b)' = StageOf(b)
  BY ReachedBy DEF StageOf
<1>. QED  BY <1>1 DEF Stays

\* The stage of a bed that only request p uses, and of one that none uses.
LEMMA StageNow ==
    ASSUME NEW b \in Beds, NEW p \in Requests,
           \A q \in Requests : On(q, b) => q = p
    PROVE  /\ Moving(p, b) \in {"save", "move"} => StageOf(b) = "promised"
           /\ Moving(p, b) = "occupy" => StageOf(b) = "arriving"
           /\ Moving(p, b) = "free" => StageOf(b) = "vacated"
           /\ Moving(p, b) = "idle" =>
                 StageOf(b) = IF Occupants(b) # {} THEN "living" ELSE "vacant"
<1>1. \A q \in Requests : q # p => Moving(q, b) = "idle"
  BY DEF Moving
<1>. QED  BY <1>1, ReachedBy DEF StageOf

LEMMA StageNext ==
    ASSUME NEW b \in Beds, NEW p \in Requests,
           \A q \in Requests : On(q, b)' => q = p
    PROVE  /\ Moving(p, b)' \in {"save", "move"} => StageOf(b)' = "promised"
           /\ Moving(p, b)' = "occupy" => StageOf(b)' = "arriving"
           /\ Moving(p, b)' = "free" => StageOf(b)' = "vacated"
           /\ Moving(p, b)' = "idle" =>
                 StageOf(b)' = IF Occupants(b)' # {} THEN "living" ELSE "vacant"
<1>1. \A q \in Requests : q # p => Moving(q, b)' = "idle"
  BY DEF Moving
<1>. QED  BY <1>1, ReachedBy DEF StageOf

LEMMA CellStays ==
    ASSUME tainted \subseteq tainted', NEW b \in Beds, b \in tainted' \/ Stays(b)
    PROVE  /\ CellOf(b)' \in {CellOf(b), Register!Untended}
           /\ tainted' = tainted => CellOf(b)' = CellOf(b)
BY CellIs DEF Stays

LEMMA NeglectStep ==
    ASSUME tainted \subseteq tainted', \A b \in Beds \ tainted' : Stays(b)
    PROVE  Register!Next
<1>1. Register!Neglect
  BY CellStays DEF Register!Neglect
<1>. QED  BY <1>1 DEF Register!Next

\* Something happens to one bed, and nothing is touched.
LEMMA OneCell ==
    ASSUME tainted' = tainted, NEW b \in Beds,
           \A c \in Beds \ (tainted \cup {b}) : Stays(c)
    PROVE  Cells' = [Cells EXCEPT ![b] = CellOf(b)']
<1>1. \A c \in Beds \ {b} : CellOf(c)' = CellOf(c)
  BY CellStays
<1>. QED  BY <1>1 DEF Cells

\* A step of request p, seen from a bed that it neither uses nor comes to use.
LEMMA StaysUnused ==
    ASSUME NEW p \in Requests, \A q \in Requests \ {p} : req'[q] = req[q],
           NEW c \in Beds, bed'[c] = bed[c], Occupants(c)' = Occupants(c),
           Moving(p, c) = "idle", Moving(p, c)' = "idle"
    PROVE  Stays(c)
<1>1. \A q \in Requests \ {p} : Moving(q, c)' = Moving(q, c)
  BY DEF Moving, On
<1>. QED  BY <1>1, StaysWhen
-----------------------------------------------------------------------------
(* The moves of the register, in terms of the documents.                    *)

\* What a move of one bed needs: request p alone uses bed b, before and after,
\* and the other beds stay.
Alone(p, b) ==
    /\ tainted' = tainted /\ b \notin tainted
    /\ \A q \in Requests : On(q, b) => q = p
    /\ \A q \in Requests : On(q, b)' => q = p
    /\ \A c \in Beds \ (tainted \cup {b}) : Stays(c)

LEMMA PromiseStep ==
    ASSUME NEW p \in Requests, NEW b \in Beds, Alone(p, b),
           bed[b] = "AVAILABLE", bed'[b] = bed[b],
           Occupants(b) = {}, Occupants(b)' = {},
           Moving(p, b) = "idle", Moving(p, b)' \in {"save", "move"}
    PROVE  Register!Next
<1>1. StageOf(b) = "vacant" /\ StageOf(b)' = "promised"
  BY StageNow, StageNext DEF Alone
<1>2. GuestOf({}) = NoRes
  BY DEF GuestOf
<1>3. /\ CellOf(b) = Register!Vacant("AVAILABLE")
      /\ CellOf(b)' = [CellOf(b) EXCEPT !.stage = "promised"]
  BY <1>1, <1>2, CellIs DEF Alone, Register!Vacant
<1>4. Register!Promise(b)
  BY <1>3, OneCell DEF Register!Promise, Cells, Alone
<1>. QED  BY <1>4 DEF Register!Next

LEMMA WithdrawStep ==
    ASSUME NEW p \in Requests, NEW b \in Beds, Alone(p, b),
           bed'[b] = bed[b], Occupants(b) = {}, Occupants(b)' = {},
           Moving(p, b) \in {"save", "move"}, Moving(p, b)' = "idle"
    PROVE  Register!Next
<1>1. StageOf(b) = "promised" /\ StageOf(b)' = "vacant"
  BY StageNow, StageNext DEF Alone
<1>3. /\ CellOf(b).stage = "promised"
      /\ CellOf(b)' = [CellOf(b) EXCEPT !.stage = "vacant"]
  BY <1>1, CellIs DEF Alone
<1>4. Register!Withdraw(b)
  BY <1>3, OneCell DEF Register!Withdraw, Cells, Alone
<1>. QED  BY <1>4 DEF Register!Next

LEMMA MarkStep ==
    ASSUME NEW p \in Requests, NEW b \in Beds, Alone(p, b),
           Occupants(b) # {}, Occupants(b)' = Occupants(b), bed'[b] = "OCCUPIED",
           Moving(p, b) = "occupy", Moving(p, b)' = "idle"
    PROVE  Register!Next
<1>1. StageOf(b) = "arriving" /\ StageOf(b)' = "living"
  BY StageNow, StageNext DEF Alone
<1>2. PICK g : g = GuestOf(Occupants(b)) /\ g = GuestOf(Occupants(b)')
  OBVIOUS
<1>3. /\ CellOf(b) = [stage |-> "arriving", status |-> bed[b], guest |-> g]
      /\ CellOf(b)' = [stage |-> "living", status |-> "OCCUPIED", guest |-> g]
  BY <1>1, <1>2, CellIs DEF Alone
<1>4. Register!MarkOccupied(b)
  BY <1>3, OneCell DEF Register!MarkOccupied, Cells, Alone
<1>. QED  BY <1>4 DEF Register!Next

LEMMA LeaveStep ==
    ASSUME NEW p \in Requests, NEW b \in Beds, Alone(p, b),
           Occupants(b) # {}, Occupants(b)' = {}, bed'[b] = bed[b],
           Moving(p, b) = "idle", Moving(p, b)' = "free"
    PROVE  Register!Next
<1>1. StageOf(b) = "living" /\ StageOf(b)' = "vacated"
  BY StageNow, StageNext DEF Alone
<1>2. GuestOf({}) = NoRes
  BY DEF GuestOf
<1>3. /\ CellOf(b) = [stage |-> "living", status |-> bed[b],
                        guest |-> GuestOf(Occupants(b))]
      /\ CellOf(b)' = [stage |-> "vacated", status |-> bed[b], guest |-> NoRes]
  BY <1>1, <1>2, CellIs DEF Alone
<1>4. Register!Leave(b)
  BY <1>3, OneCell DEF Register!Leave, Cells, Alone
<1>. QED  BY <1>4 DEF Register!Next

LEMMA AvailableStep ==
    ASSUME NEW p \in Requests, NEW b \in Beds, Alone(p, b),
           Occupants(b) = {}, Occupants(b)' = {}, bed'[b] = "AVAILABLE",
           Moving(p, b) = "free", Moving(p, b)' = "idle"
    PROVE  Register!Next
<1>1. StageOf(b) = "vacated" /\ StageOf(b)' = "vacant"
  BY StageNow, StageNext DEF Alone
<1>2. GuestOf({}) = NoRes
  BY DEF GuestOf
<1>3. CellOf(b).stage = "vacated" /\ CellOf(b)' = Register!Vacant("AVAILABLE")
  BY <1>1, <1>2, CellIs DEF Alone, Register!Vacant
<1>4. Register!MarkAvailable(b)
  BY <1>3, OneCell DEF Register!MarkAvailable, Cells, Alone
<1>. QED  BY <1>4 DEF Register!Next

LEMMA CloseStep ==
    ASSUME tainted' = tainted, NEW b \in Beds \ tainted,
           \A c \in Beds \ (tainted \cup {b}) : Stays(c),
           Occupants(b)' = Occupants(b), bed'[b] = "MAINTENANCE",
           \A q \in Requests : Moving(q, b)' = Moving(q, b)
    PROVE  Register!Next
<1>1. StageOf(b)' = StageOf(b)
  BY ReachedBy DEF StageOf
<1>2. StageOf(b) # "untended"
  BY DEF StageOf
<1>3. /\ CellOf(b).stage # "untended"
      /\ CellOf(b)' = [CellOf(b) EXCEPT !.status = "MAINTENANCE"]
  BY <1>1, <1>2, CellIs
<1>4. Register!Close(b)
  BY <1>3, OneCell DEF Register!Close, Cells
<1>. QED  BY <1>4 DEF Register!Next

LEMMA ReopenStep ==
    ASSUME tainted' = tainted, NEW b \in Beds \ tainted,
           \A c \in Beds \ (tainted \cup {b}) : Stays(c),
           Occupants(b) = {}, Occupants(b)' = {}, bed'[b] \in {"AVAILABLE", "NONE"},
           ~Busy(b), req' = req
    PROVE  Register!Next
<1>1. /\ \A q \in Requests : Moving(q, b) = "idle"
      /\ \A q \in Requests : Moving(q, b)' = "idle"
  BY DEF Moving, Busy, On
<1>2. StageOf(b) = "vacant" /\ StageOf(b)' = "vacant"
  BY <1>1, ReachedBy DEF StageOf
<1>3. GuestOf({}) = NoRes
  BY DEF GuestOf
<1>4. CellOf(b).stage = "vacant" /\ CellOf(b)' = Register!Vacant(bed'[b])
  BY <1>2, <1>3, CellIs DEF Register!Vacant
<1>5. PICK s \in {"AVAILABLE", "NONE"} : CellOf(b)' = Register!Vacant(s)
  BY <1>4
<1>6. Register!Reopen(b)
  BY <1>4, <1>5, OneCell DEF Register!Reopen, Cells
<1>. QED  BY <1>6 DEF Register!Next

LEMMA TakeStep ==
    ASSUME tainted \subseteq tainted', NEW p \in Requests, NEW b \in Beds \ tainted',
           \A q \in Requests : On(q, b) => q = p,
           \A q \in Requests : On(q, b)' => q = p,
           \A c \in Beds \ (tainted' \cup {b}) : Stays(c),
           NEW r \in Residents, Occupants(b) = {}, Occupants(b)' = {r},
           bed'[b] = bed[b],
           Moving(p, b) \in {"save", "move"}, Moving(p, b)' = "occupy",
           \A c \in Beds \ (tainted' \cup {b}) : r \notin Occupants(c)
    PROVE  Register!Next
<1>1. StageOf(b) = "promised" /\ StageOf(b)' = "arriving"
  BY StageNow, StageNext
<1>2. /\ CellOf(b) = [stage |-> "promised", status |-> bed[b], guest |-> NoRes]
      /\ CellOf(b)' = [stage |-> "arriving", status |-> bed[b], guest |-> r]
  BY <1>1, CellIs, GuestIs
<1>3. ASSUME NEW c \in Beds \ {b}
      PROVE  CellOf(c)' \in {CellOf(c), Register!Untended} /\ CellOf(c)'.guest # r
  <2>1. CellOf(c)' \in {CellOf(c), Register!Untended}
    BY <1>3, CellStays
  <2>2. NoRes # r
    BY ResidencyAssumption
  <2>3. CASE c \in tainted'
    BY <2>1, <2>2, <2>3, CellIs DEF Register!Untended
  <2>4. CASE c \notin tainted'
    <3>1. PICK S : S = Occupants(c)' /\ r \notin S
      BY <1>3, <2>4 DEF Stays
    <3>2. GuestOf(S) # r
      <4>1. CASE S = {}
        BY <2>2, <4>1 DEF GuestOf
      <4>2. CASE S # {}
        BY <3>1, <4>2 DEF GuestOf
      <4>. QED  BY <4>1, <4>2
    <3>3. CellOf(c)'.guest = GuestOf(S)
      BY <2>4, <3>1, CellIs
    <3>. QED  BY <2>1, <3>2, <3>3
  <2>. QED  BY <2>3, <2>4
<1>4. Register!Take(b, r)
  BY <1>2, <1>3 DEF Register!Take
<1>. QED  BY <1>4 DEF Register!Next
-----------------------------------------------------------------------------
(* Which move each step is.                                                 *)

\* The bed that a request uses is used by no other, now and after the step.
LEMMA OnlyOne ==
    ASSUME Inv, Inv', tainted \subseteq tainted', NEW b \in Beds \ tainted',
           NEW p \in Requests
    PROVE  /\ On(p, b) => \A q \in Requests : On(q, b) => q = p
           /\ On(p, b)' => \A q \in Requests : On(q, b)' => q = p
<1>1. Exclusive(b) /\ Exclusive(b)'
  BY DEF Inv, BedOK
<1>. QED  BY <1>1 DEF Exclusive

LEMMA CheckMoves ==
    ASSUME Inv, Inv', NEW p \in Requests, NEW b \in Beds, IsAvailable(b),
           req[p].pc = "idle", \A q \in Requests \ {p} : req'[q] = req[q],
           req'[p].bed = b, req'[p].pc \in {"save", "move"},
           tainted' = tainted \cup Raced(p, b), resident' = resident, bed' = bed
    PROVE  Register!Next
<1>1. \A c \in Beds : Occupants(c)' = Occupants(c)
  BY DEF Occupants
<1>2. \A c \in Beds \ {b} : Stays(c)
  BY <1>1, StaysUnused DEF Moving, On
<1>3. CASE b \in tainted'
  BY <1>2, <1>3, NeglectStep
<1>4. CASE b \notin tainted'
  <2>1. /\ \A q \in Requests : ~On(q, b)
        /\ tainted' = tainted
    BY <1>4 DEF Raced, On
  <2>2. Occupants(b) = {} /\ bed[b] = "AVAILABLE"
    BY <1>4, <2>1 DEF Inv, BedOK, Busy, StatusFits, IsAvailable
  <2>3. /\ Moving(p, b) = "idle" /\ Moving(p, b)' \in {"save", "move"}
        /\ On(p, b)'
    BY <2>1 DEF Moving, On
  <2>4. Alone(p, b)
    BY <1>2, <1>4, <2>1, <2>3, OnlyOne DEF Alone
  <2>. QED  BY <1>1, <2>2, <2>3, <2>4, PromiseStep
<1>. QED  BY <1>3, <1>4

\* The steps of a request that move no bed on: the reads of those who leave and
\* of settlements, the counter, the deposit and the settlement itself.
LEMMA QuietMoves ==
    ASSUME Inv, NEW p \in Requests,
           \A q \in Requests \ {p} : req'[q] = req[q],
           \A c \in Beds \ tainted' : Moving(p, c) = "idle" /\ Moving(p, c)' = "idle",
           bed' = bed, tainted \subseteq tainted',
           \A r \in Residents : /\ resident'[r].status = resident[r].status
                                /\ resident'[r].bed = resident[r].bed
    PROVE  Register!Next
<1>1. \A c \in Beds : Occupants(c)' = Occupants(c)
  BY DEF Occupants
<1>2. \A c \in Beds \ tainted' : Stays(c)
  BY <1>1, StaysUnused
<1>. QED  BY <1>2, NeglectStep

LEMMA StartMoves ==
    ASSUME Inv, Inv', NEW p \in Requests, Start(p)
    PROVE  Register!Next
<1>1. ASSUME NEW b \in Beds, NEW r \in Residents, NEW d \in DepositInputs,
             CreateCheck(p, b, r, d)
      PROVE  Register!Next
  <2>1. /\ \A q \in Requests \ {p} : req'[q] = req[q]
        /\ req'[p].bed = b /\ req'[p].pc = "save"
    BY <1>1 DEF CreateCheck, Inv, TypeOK
  <2>. QED  BY <1>1, <2>1, CheckMoves DEF CreateCheck
<1>2. ASSUME NEW r \in Residents, NEW op \in LeaveOps, LeaveRead(p, r, op)
      PROVE  Register!Next
  <2>1. /\ \A q \in Requests \ {p} : req'[q] = req[q]
        /\ req[p].pc = "idle" /\ req'[p].pc = "leave"
        /\ bed' = bed /\ resident' = resident /\ tainted \subseteq tainted'
    BY <1>2 DEF LeaveRead, Inv, TypeOK
  <2>2. \A c \in Beds : Moving(p, c) = "idle" /\ Moving(p, c)' = "idle"
    BY <2>1 DEF Moving
  <2>. QED  BY <2>1, <2>2, QuietMoves
<1>3. ASSUME NEW r \in Residents, SettleRead(p, r)
      PROVE  Register!Next
  <2>1. /\ \A q \in Requests \ {p} : req'[q] = req[q]
        /\ req[p].pc = "idle" /\ req'[p].pc = "settle"
        /\ bed' = bed /\ resident' = resident /\ tainted \subseteq tainted'
    BY <1>3 DEF SettleRead, Idle, Inv, TypeOK
  <2>2. \A c \in Beds : Moving(p, c) = "idle" /\ Moving(p, c)' = "idle"
    BY <2>1 DEF Moving
  <2>. QED  BY <2>1, <2>2, QuietMoves
<1>4. ASSUME NEW b \in Beds, NEW r \in Residents, AssignCheck(p, b, r)
      PROVE  Register!Next
  <2>1. /\ \A q \in Requests \ {p} : req'[q] = req[q]
        /\ req'[p].bed = b /\ req'[p].pc = "move"
    BY <1>4 DEF AssignCheck, Idle, Inv, TypeOK
  <2>. QED  BY <1>4, <2>1, CheckMoves DEF AssignCheck
<1>. QED  BY <1>1, <1>2, <1>3, <1>4 DEF Start

LEMMA QuietContinue ==
    ASSUME Inv, NEW p \in Requests,
           ReadRoom(p) \/ WriteRoom(p) \/ CreateDeposit(p) \/ SettleWrite(p)
    PROVE  Register!Next
<1>1. /\ bed' = bed /\ tainted' = tainted
      /\ \A q \in Requests \ {p} : req'[q] = req[q]
  BY DEF ReadRoom, WriteRoom, CreateDeposit, SettleWrite, Finish, Inv, TypeOK
<1>2. /\ req[p].pc \in {"readRoom", "writeRoom", "deposit", "settle"}
      /\ req'[p].pc \in {"idle", "writeRoom", "deposit"}
  BY DEF ReadRoom, WriteRoom, CreateDeposit, SettleWrite, Finish, Idle, Inv, TypeOK,
         RequestStates
<1>3. \A c \in Beds : Moving(p, c) = "idle" /\ Moving(p, c)' = "idle"
  BY <1>2 DEF Moving
<1>4. \A r \in Residents : /\ resident'[r].status = resident[r].status
                           /\ resident'[r].bed = resident[r].bed
  <2>1. CASE SettleWrite(p)
    BY <2>1 DEF SettleWrite, Inv, TypeOK, ResidentDocs
  <2>2. CASE ~SettleWrite(p)
    BY <2>2 DEF ReadRoom, WriteRoom, CreateDeposit
  <2>. QED  BY <2>1, <2>2
<1>. QED  BY <1>1, <1>3, <1>4, QuietMoves

\* A request that ends before it has written anything gives up its promise.
LEMMA GiveUpMoves ==
    ASSUME Inv, Inv', NEW p \in Requests, Finish(p), req[p].pc \in {"save", "move"},
           bed' = bed, resident' = resident, tainted' = tainted
    PROVE  Register!Next
<1>0. PICK b \in Beds : b = req[p].bed
  BY DEF Inv, WellFormed
<1>1. /\ \A q \in Requests \ {p} : req'[q] = req[q]
      /\ req'[p].pc = "idle"
      /\ On(p, b) /\ Moving(p, b) \in {"save", "move"}
  BY <1>0 DEF Finish, Idle, Inv, TypeOK, On, Moving
<1>2. \A c \in Beds : Occupants(c)' = Occupants(c) /\ Moving(p, c)' = "idle"
  BY <1>1 DEF Occupants, Moving
<1>3. \A c \in Beds \ {b} : Stays(c)
  BY <1>0, <1>1, <1>2, StaysUnused DEF Moving, On
<1>4. CASE b \in tainted
  BY <1>3, <1>4, NeglectStep
<1>5. CASE b \notin tainted
  <2>1. Occupants(b) = {}
    BY <1>0, <1>1, <1>5 DEF Inv, BedOK, Expects
  <2>2. Alone(p, b)
    BY <1>1, <1>3, <1>5, OnlyOne DEF Alone, On
  <2>. QED  BY <1>1, <1>2, <2>1, <2>2, WithdrawStep
<1>. QED  BY <1>4, <1>5

LEMMA FailMoves ==
    ASSUME Inv, Inv', NEW p \in Requests, Fail(p)
    PROVE  Register!Next
<1>1. CASE req[p].pc \in {"save", "move"}
  BY <1>1, GiveUpMoves DEF Fail, Torn
<1>2. CASE req[p].pc \notin {"save", "move"}
  <2>1. /\ \A q \in Requests \ {p} : req'[q] = req[q]
        /\ req'[p].pc = "idle"
        /\ bed' = bed /\ resident' = resident /\ tainted \subseteq tainted'
    BY DEF Fail, Finish, Idle, Inv, TypeOK
  <2>2. \A c \in Beds \ tainted' : Moving(p, c) = "idle" /\ Moving(p, c)' = "idle"
    BY <1>2, <2>1 DEF Fail, Torn, Moving, On
  <2>. QED  BY <2>1, <2>2, QuietMoves
<1>. QED  BY <1>1, <1>2

LEMMA CreateSaveMoves ==
    ASSUME Inv, Inv', NEW p \in Requests, CreateSave(p)
    PROVE  Register!Next
<1>0. PICK r \in Residents, b \in Beds : r = req[p].res /\ b = req[p].bed
  BY DEF Inv, WellFormed, CreateSave
<1>1. /\ resident[r].status = "NONE" /\ req[p].pc = "save"
      /\ bed' = bed /\ tainted' = tainted
      /\ \A q \in Requests \ {p} : req'[q] = req[q]
      /\ req'[p].pc = "occupy" /\ req'[p].bed = b
  BY <1>0 DEF CreateSave, Inv, WellFormed, TypeOK, RequestStates
<1>2. /\ \A s \in Residents \ {r} : resident'[s] = resident[s]
      /\ resident'[r].status = "LIVE" /\ resident'[r].bed = b
  BY <1>0, <1>1 DEF Inv, TypeOK, CreateSave
<1>3. /\ On(p, b) /\ On(p, b)'
      /\ Moving(p, b) = "save" /\ Moving(p, b)' = "occupy"
      /\ \A c \in Beds \ {b} : Moving(p, c) = "idle" /\ Moving(p, c)' = "idle"
  BY <1>0, <1>1 DEF Moving, On
<1>4. \A c \in Beds \ {b} : Occupants(c)' = Occupants(c) /\ r \notin Occupants(c)
  BY <1>1, <1>2 DEF Occupants
<1>5. \A c \in Beds \ {b} : Stays(c)
  BY <1>1, <1>3, <1>4, StaysUnused
<1>6. CASE b \in tainted
  BY <1>1, <1>5, <1>6, NeglectStep
<1>7. CASE b \notin tainted
  <2>1. Occupants(b) = {}
    BY <1>1, <1>3, <1>7 DEF Inv, BedOK, Expects
  <2>2. Occupants(b)' = {r}
    BY <1>1, <1>2, <2>1 DEF Occupants
  <2>3. /\ \A q \in Requests : On(q, b) => q = p
        /\ \A q \in Requests : On(q, b)' => q = p
    BY <1>1, <1>3, <1>7, OnlyOne
  <2>. QED  BY <1>1, <1>3, <1>4, <1>5, <1>7, <2>1, <2>2, <2>3, TakeStep
<1>. QED  BY <1>6, <1>7

LEMMA AssignMoveMoves ==
    ASSUME Inv, Inv', NEW p \in Requests, AssignMove(p)
    PROVE  Register!Next
<1>0. PICK r \in Residents, b \in Beds : r = req[p].res /\ b = req[p].bed
  BY DEF Inv, WellFormed, AssignMove
<1>1. req[p].pc = "move" /\ bed' = bed /\ tainted \subseteq tainted'
  BY DEF AssignMove
<1>2. CASE resident[r].status = "NONE"
  BY <1>0, <1>1, <1>2, GiveUpMoves DEF AssignMove
<1>3. CASE resident[r].status # "NONE"
  <2>1. /\ \A s \in Residents \ {r} : resident'[s] = resident[s]
        /\ resident'[r].status = resident[r].status
        /\ resident'[r].bed = b
        /\ \A c \in Beds \ tainted' : resident[r].bed # c
        /\ b \notin tainted' => resident[r].status # "VACATED"
    BY <1>0, <1>1, <1>3 DEF AssignMove, Inv, TypeOK, ResidentDocs
  <2>2. /\ \A q \in Requests \ {p} : req'[q] = req[q]
        /\ req'[p].pc = "occupy" /\ req'[p].bed = b
    BY <1>0, <1>3 DEF AssignMove, Inv, TypeOK, RequestStates
  <2>3. /\ On(p, b) /\ On(p, b)'
        /\ Moving(p, b) = "move" /\ Moving(p, b)' = "occupy"
        /\ \A c \in Beds \ {b} : Moving(p, c) = "idle" /\ Moving(p, c)' = "idle"
    BY <1>0, <1>1, <2>2 DEF Moving, On
  <2>4. \A c \in Beds \ (tainted' \cup {b}) :
           Occupants(c)' = Occupants(c) /\ r \notin Occupants(c)
    BY <2>1 DEF Occupants
  <2>5. \A c \in Beds \ (tainted' \cup {b}) : Stays(c)
    BY <1>1, <2>2, <2>3, <2>4, StaysUnused
  <2>6. CASE b \in tainted'
    BY <1>1, <2>5, <2>6, NeglectStep
  <2>7. CASE b \notin tainted'
    <3>1. Occupants(b) = {}
      BY <1>1, <2>3, <2>7 DEF Inv, BedOK, Expects
    <3>2. resident'[r].status = "LIVE"
      BY <1>3, <2>1, <2>7 DEF Inv, TypeOK, ResidentDocs, ResidentStatus
    <3>3. Occupants(b)' = {r}
      BY <2>1, <3>1, <3>2 DEF Occupants
    <3>4. /\ \A q \in Requests : On(q, b) => q = p
          /\ \A q \in Requests : On(q, b)' => q = p
      BY <1>1, <2>3, <2>7, OnlyOne
    <3>. QED  BY <1>1, <2>3, <2>4, <2>5, <2>7, <3>1, <3>3, <3>4, TakeStep
  <2>. QED  BY <2>6, <2>7
<1>. QED  BY <1>2, <1>3

LEMMA OccupyBedMoves ==
    ASSUME Inv, Inv', NEW p \in Requests, OccupyBed(p)
    PROVE  Register!Next
<1>0. PICK b \in Beds : b = req[p].bed
  BY DEF Inv, WellFormed, OccupyBed
<1>1. /\ req[p].pc = "occupy" /\ resident' = resident /\ tainted' = tainted
      /\ bed[b] = "NONE" => bed' = bed
      /\ bed[b] # "NONE" => bed' = [bed EXCEPT ![b] = "OCCUPIED"]
      /\ \A q \in Requests \ {p} : req'[q] = req[q]
      /\ req'[p].pc \in {"idle", "readRoom"}
  BY <1>0 DEF OccupyBed, MarkedOccupied, Finish, Idle, Inv, TypeOK, RequestStates
<1>2. \A c \in Beds : Occupants(c)' = Occupants(c)
  BY <1>1 DEF Occupants
<1>3. /\ On(p, b) /\ Moving(p, b) = "occupy" /\ Moving(p, b)' = "idle"
      /\ \A c \in Beds \ {b} : Moving(p, c) = "idle" /\ Moving(p, c)' = "idle"
  BY <1>0, <1>1 DEF Moving, On
<1>4. \A c \in Beds \ {b} : Stays(c)
  BY <1>1, <1>2, <1>3, StaysUnused DEF Inv, TypeOK
<1>5. CASE b \in tainted
  BY <1>1, <1>4, <1>5, NeglectStep
<1>6. CASE b \notin tainted
  <2>1. bed[b] # "NONE" /\ Occupants(b) = {req[p].res}
    BY <1>1, <1>3, <1>6 DEF Inv, BedOK, Expects
  <2>2. bed'[b] = "OCCUPIED" /\ Occupants(b) # {}
    BY <1>1, <2>1 DEF Inv, TypeOK
  <2>3. \A q \in Requests : On(q, b) => q = p
    BY <1>1, <1>3, <1>6, OnlyOne
  <2>4. \A q \in Requests \ {p} : ~On(q, b)'
    BY <1>1, <2>3 DEF On
  <2>5. Alone(p, b)
    BY <1>1, <1>4, <1>6, <2>3, <2>4 DEF Alone
  <2>. QED  BY <1>2, <1>3, <2>2, <2>5, MarkStep
<1>. QED  BY <1>5, <1>6

LEMMA FreeBedMoves ==
    ASSUME Inv, Inv', NEW p \in Requests, FreeBed(p)
    PROVE  Register!Next
<1>0. PICK b \in Beds : b = req[p].bed
  BY DEF Inv, WellFormed, FreeBed
<1>1. /\ req[p].pc = "free" /\ resident' = resident /\ tainted' = tainted
      /\ bed[b] = "NONE" => bed' = bed
      /\ bed[b] # "NONE" => bed' = [bed EXCEPT ![b] = "AVAILABLE"]
      /\ \A q \in Requests \ {p} : req'[q] = req[q]
      /\ req'[p].pc = "idle"
  BY <1>0 DEF FreeBed, MarkedAvailable, Finish, Idle, Inv, TypeOK
<1>2. \A c \in Beds : Occupants(c)' = Occupants(c)
  BY <1>1 DEF Occupants
<1>3. /\ On(p, b) /\ Moving(p, b) = "free" /\ Moving(p, b)' = "idle"
      /\ \A c \in Beds \ {b} : Moving(p, c) = "idle" /\ Moving(p, c)' = "idle"
  BY <1>0, <1>1 DEF Moving, On
<1>4. \A c \in Beds \ {b} : Stays(c)
  BY <1>1, <1>2, <1>3, StaysUnused DEF Inv, TypeOK
<1>5. CASE b \in tainted
  BY <1>1, <1>4, <1>5, NeglectStep
<1>6. CASE b \notin tainted
  <2>1. bed[b] # "NONE" /\ Occupants(b) = {}
    BY <1>1, <1>3, <1>6 DEF Inv, BedOK, Expects
  <2>2. bed'[b] = "AVAILABLE"
    BY <1>1, <2>1 DEF Inv, TypeOK
  <2>3. \A q \in Requests : On(q, b) => q = p
    BY <1>1, <1>3, <1>6, OnlyOne
  <2>4. \A q \in Requests \ {p} : ~On(q, b)'
    BY <1>1, <2>3 DEF On
  <2>5. Alone(p, b)
    BY <1>1, <1>4, <1>6, <2>3, <2>4 DEF Alone
  <2>. QED  BY <1>2, <1>3, <2>1, <2>2, <2>5, AvailableStep
<1>. QED  BY <1>5, <1>6

LEMMA LeaveWriteMoves ==
    ASSUME Inv, Inv', NEW p \in Requests, LeaveWrite(p)
    PROVE  Register!Next
<1>0. PICK r \in Residents : r = req[p].res
  BY DEF Inv, WellFormed, LeaveWrite
<1>1. /\ req[p].pc = "leave" /\ bed' = bed /\ tainted' = tainted
      /\ \A q \in Requests \ {p} : req'[q] = req[q]
      /\ req'[p].pc \in {"idle", "readRoom", "free"}
      /\ req'[p].pc = "free" => req'[p].bed = req[p].bed
      /\ resident[r].status # "NONE" /\ req[p].bed # NoBed => req'[p].pc = "free"
  BY <1>0 DEF LeaveWrite, Finish, Idle, Inv, TypeOK, RequestStates
<1>2. /\ \A s \in Residents \ {r} : resident'[s] = resident[s]
      /\ resident[r].status = "NONE" => resident' = resident
      /\ resident[r].status # "NONE" => resident'[r].status # "LIVE"
  <2>1. /\ resident \in [Residents -> ResidentDocs]
        /\ Departed(r, req[p].op).status = "VACATED"
        /\ NoDocument.status = "NONE"
    BY DEF Inv, TypeOK, Departed, ResidentDocs, NoDocument
  <2>2. \/ resident[r].status = "NONE" /\ resident' = resident
        \/ /\ resident[r].status # "NONE"
           /\ \/ resident' = [resident EXCEPT ![r] = NoDocument]
              \/ resident' = [resident EXCEPT ![r] = Departed(r, req[p].op)]
    BY <1>0 DEF LeaveWrite
  <2>. QED  BY <2>1, <2>2
<1>3. \A c \in Beds : r \notin Occupants(c) => Occupants(c)' = Occupants(c)
  BY <1>2 DEF Occupants
<1>4. \A c \in Beds : /\ Moving(p, c) = "idle"
                      /\ c # req[p].bed => Moving(p, c)' = "idle"
  BY <1>1 DEF Moving, On
<1>5. CASE \E b \in Beds \ tainted : r \in Occupants(b)
  <2>1. PICK b \in Beds \ tainted : r \in Occupants(b)
    BY <1>5
  <2>2. On(p, b)
    BY <1>0, <1>1, <2>1 DEF Inv, BedOK, LeavesFrom, On
  <2>3. Occupants(b) = {r}
    BY <1>0, <1>1, <2>1, <2>2 DEF Inv, BedOK, Expects
  <2>4. Occupants(b)' = {}
    BY <1>2, <2>3 DEF Occupants
  <2>5. \A c \in Beds \ {b} : Stays(c)
    <3>1. \A c \in Beds \ {b} : r \notin Occupants(c) /\ c # req[p].bed
      BY <2>1, <2>2 DEF Occupants, On
    <3>. QED  BY <1>1, <1>3, <1>4, <3>1, StaysUnused
  <2>6. On(p, b)' /\ Moving(p, b)' = "free"
    BY <1>1, <2>1, <2>2, ResidencyAssumption DEF On, Moving, Occupants
  <2>7. Alone(p, b)
    BY <1>1, <2>1, <2>2, <2>5, <2>6, OnlyOne DEF Alone
  <2>. QED  BY <1>1, <1>4, <2>1, <2>4, <2>6, <2>7, LeaveStep
<1>6. CASE \A b \in Beds \ tainted : r \notin Occupants(b)
  <2>1. \A b \in Beds \ tainted : b # req[p].bed
    <3>1. ASSUME NEW b \in Beds \ tainted, b = req[p].bed
          PROVE  FALSE
      <4>1. Occupants(b) = {r}
        BY <1>0, <1>1, <3>1 DEF On, Inv, BedOK, Expects
      <4>. QED  BY <1>6, <4>1
    <3>. QED  BY <3>1
  <2>2. \A c \in Beds \ tainted : Stays(c)
    BY <1>1, <1>3, <1>4, <1>6, <2>1, StaysUnused
  <2>. QED  BY <1>1, <2>2, NeglectStep
<1>. QED  BY <1>5, <1>6

LEMMA DirectMoves ==
    ASSUME Inv, Direct
    PROVE  Register!Next
<1>1. req' = req /\ \A q \in Requests, c \in Beds : Moving(q, c)' = Moving(q, c)
  <2>1. req' = req
    BY DEF Direct, PatchResident, AddBed, PatchBed, RemoveBed, AddRoom, PatchRoom,
           RemoveRoom
  <2>. QED  BY <2>1 DEF Moving, On
<1>2. ASSUME NEW r \in Residents, NEW s \in {"LIVE", "VACATED"},
             NEW b \in Beds \cup {NoBed}, NEW m \in Rooms, PatchResident(r, s, b, m)
      PROVE  Register!Next
  <2>1. /\ bed' = bed /\ tainted \subseteq tainted'
        /\ \A t \in Residents \ {r} : resident'[t] = resident[t]
        /\ resident'[r].bed = b
        /\ \A c \in Beds \ tainted' : b # c /\ resident[r].bed # c
    BY <1>2 DEF PatchResident, Patched, Inv, TypeOK, ResidentDocs
  <2>2. \A c \in Beds \ tainted' : Occupants(c)' = Occupants(c)
    BY <2>1 DEF Occupants
  <2>3. \A c \in Beds \ tainted' : Stays(c)
    BY <1>1, <2>1, <2>2, StaysWhen
  <2>. QED  BY <2>1, <2>3, NeglectStep
<1>3. ASSUME NEW b \in Beds, NEW s \in BedStatus,
             tainted \subseteq tainted', resident' = resident,
             bed' = [bed EXCEPT ![b] = s],
             b \notin tainted' =>
                /\ tainted' = tainted
                /\ \/ s = "MAINTENANCE"
                   \/ s \in {"AVAILABLE", "NONE"} /\ ~Busy(b) /\ Occupants(b) = {}
      PROVE  Register!Next
  <2>1. \A c \in Beds : Occupants(c)' = Occupants(c)
    BY <1>3 DEF Occupants
  <2>2. \A c \in Beds \ {b} : Stays(c)
    BY <1>1, <1>3, <2>1, StaysWhen DEF Inv, TypeOK
  <2>3. CASE b \in tainted'
    BY <1>3, <2>2, <2>3, NeglectStep
  <2>4. CASE b \notin tainted'
    <3>1. bed'[b] = s
      BY <1>3 DEF Inv, TypeOK
    <3>2. CASE s = "MAINTENANCE"
      BY <1>1, <1>3, <2>1, <2>2, <2>4, <3>1, <3>2, CloseStep
    <3>3. CASE s # "MAINTENANCE"
      BY <1>1, <1>3, <2>1, <2>2, <2>4, <3>1, <3>3, ReopenStep
    <3>. QED  BY <3>2, <3>3
  <2>. QED  BY <2>3, <2>4
<1>4. ASSUME NEW b \in Beds, AddBed(b)
      PROVE  Register!Next
  <2>1. Occupants(b) = {}
    BY <1>4 DEF AddBed, Occupants
  <2>. QED  BY <1>3, <1>4, <2>1 DEF AddBed, BedStatus
<1>5. ASSUME NEW b \in Beds, NEW s \in BedStatus \ {"NONE"}, PatchBed(b, s)
      PROVE  Register!Next
  BY <1>3, <1>5 DEF PatchBed
<1>6. ASSUME NEW b \in Beds, RemoveBed(b)
      PROVE  Register!Next
  BY <1>3, <1>6 DEF RemoveBed, BedStatus
<1>7. ASSUME UNCHANGED <<resident, bed, tainted>>
      PROVE  Register!Next
  <2>1. \A c \in Beds : Stays(c)
    BY <1>1, <1>7, StaysWhen DEF Occupants
  <2>. QED  BY <1>7, <2>1, NeglectStep
<1>. QED  BY <1>2, <1>4, <1>5, <1>6, <1>7 DEF Direct, AddRoom, PatchRoom, RemoveRoom

\* Refinement: for all residents, beds and requests, every bed that nothing
\* unguarded has touched is a cell of BedRegister: it is promised while vacant and
\* AVAILABLE only, and no two of ResidentsService.create, bulkAssignBeds, remove,
\* checkOut and vacate, whose reads and writes are awaits apart, take it through
\* the stages of a stay out of their order, wherever its maintenance falls.
THEOREM RegisterTheorem == Spec => BedsInOrder
<1>1. Init => Register!Init
  <2> SUFFICES ASSUME Init PROVE Register!Init
    OBVIOUS
  <2>1. \A b \in Beds : Occupants(b) = {} /\ bed[b] = "AVAILABLE" /\ b \notin tainted
    BY DEF Init, Occupants, NoDocument
  <2>2. \A b \in Beds : StageOf(b) = "vacant"
    BY <2>1 DEF StageOf, Reached, On, Init, Idle
  <2>3. \A b \in Beds : CellOf(b) = Register!Vacant("AVAILABLE")
    BY <2>1, <2>2 DEF CellOf, GuestOf, Register!Vacant
  <2>. QED  BY <2>3 DEF Register!Init
<1>2. Inv /\ [Next]_vars => [Register!Next]_Cells
  <2>1. ASSUME Inv, Next PROVE Register!Next
    <3>1. Inv'
      BY <2>1, InvInductive
    <3>2. ASSUME NEW p \in Requests, Continue(p) PROVE Register!Next
      BY <2>1, <3>1, <3>2, CreateSaveMoves, OccupyBedMoves, LeaveWriteMoves,
         FreeBedMoves, AssignMoveMoves, QuietContinue DEF Continue
    <3>. QED  BY <2>1, <3>1, <3>2, StartMoves, FailMoves, DirectMoves DEF Next
  <2>2. ASSUME UNCHANGED vars PROVE Cells' = Cells
    BY <2>2 DEF vars, Cells, CellOf, StageOf, Reached, On, Occupants
  <2>. QED  BY <2>1, <2>2
<1>. QED  BY <1>1, <1>2, InvHolds, PTL DEF Spec, BedsInOrder, Register!Spec, Cells
=============================================================================
