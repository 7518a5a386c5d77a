---------------------------- MODULE MCResidency ----------------------------
(* Constants for checking Residency: every bed in the first room, all the
   endpoints or only those that a run is about.                             *)
EXTENDS Residency, TLC

CONSTANTS r1, r2, r3, b1, b2, m1, p1, p2

MCRoomOf == [b \in Beds |-> m1]

\* The endpoints that take several calls, and PATCH /rooms to reset a counter.
MCRequestOps == {"create", "remove", "checkOut", "vacate", "settle",
                 "assign", "patchRoom", "fail"}
\* With the endpoints that write or delete a bed, a room or a resident directly.
MCDirectOps  == {"create", "vacate", "assign", "settle", "addRoom", "removeRoom",
                 "patchResident", "addBed", "patchBed", "removeBed", "patchRoom"}
\* What an office does day by day: bookings, moves out, settlements.
MCOfficeOps  == {"create", "vacate", "remove", "patchBed", "patchRoom", "fail"}

MCVacating   == {"create", "vacate"}
MCMoveOuts   == {"create", "vacate", "checkOut"}

NoDeposit   == {"NONE"}
AnyDeposit  == {"NONE", "DUE", "HELD"}

Symmetry == Permutations(Residents) \cup Permutations(Beds)
            \cup Permutations(Requests)
=============================================================================
