---------------------------- MODULE BedRegister ----------------------------
(***************************************************************************)
(* What a bed promises, whatever requests meet.  A stay goes through its   *)
(* stages in order: the bed is promised while it is vacant and marked      *)
(* AVAILABLE, its guest arrives, it is marked OCCUPIED and lived in, the   *)
(* guest leaves, and it is marked AVAILABLE and vacant again.  So one      *)
(* guest follows another through vacant only, and the stages that end in   *)
(* a mark are the only ones that end a maintenance without being asked.    *)
(* Maintenance may come in any stage.  Residency implements this.          *)
(*                                                                         *)
(* A bed that is untended is one nobody promises anything about any more.  *)
(***************************************************************************)
CONSTANTS Beds, Residents, Nobody

VARIABLE cell

Untended == [stage |-> "untended", status |-> "NONE", guest |-> Nobody]
Vacant(s) == [stage |-> "vacant", status |-> s, guest |-> Nobody]

Init == cell = [b \in Beds |-> Vacant("AVAILABLE")]

\* A bed that is vacant is promised only when it is marked as available, and a
\* promise may be withdrawn.
Promise(b) ==
    /\ cell[b] = Vacant("AVAILABLE")
    /\ cell' = [cell EXCEPT ![b].stage = "promised"]

Withdraw(b) ==
    /\ cell[b].stage = "promised"
    /\ cell' = [cell EXCEPT ![b].stage = "vacant"]

\* Resident r gets the bed, and holds no other that is tended: one they move
\* away from is untended from then on.
Take(b, r) ==
    /\ cell[b].stage = "promised"
    /\ cell'[b] = [stage |-> "arriving", status |-> cell[b].status, guest |-> r]
    /\ \A c \in Beds \ {b} : /\ cell'[c] \in {cell[c], Untended}
                             /\ cell'[c].guest # r

\* The bed is marked as occupied, whatever its status has become.
MarkOccupied(b) ==
    /\ cell[b].stage = "arriving"
    /\ cell' = [cell EXCEPT
          ![b] = [stage |-> "living", status |-> "OCCUPIED", guest |-> @.guest]]

\* The guest leaves, or is deleted.
Leave(b) ==
    /\ cell[b].stage = "living"
    /\ cell' = [cell EXCEPT
          ![b] = [stage |-> "vacated", status |-> @.status, guest |-> Nobody]]

\* The bed is marked as available again, whatever its status has become.
MarkAvailable(b) ==
    /\ cell[b].stage = "vacated"
    /\ cell' = [cell EXCEPT ![b] = Vacant("AVAILABLE")]

\* Maintenance in any stage; its end, deletion and creation while vacant.
Close(b) ==
    /\ cell[b].stage # "untended"
    /\ cell' = [cell EXCEPT ![b].status = "MAINTENANCE"]
Reopen(b) ==
    /\ cell[b].stage = "vacant"
    /\ \E s \in {"AVAILABLE", "NONE"} : cell' = [cell EXCEPT ![b] = Vacant(s)]

Neglect == \A b \in Beds : cell'[b] \in {cell[b], Untended}

Next ==
    \/ \E b \in Beds, r \in Residents : Take(b, r)
    \/ \E b \in Beds :
          \/ Promise(b) \/ Withdraw(b) \/ MarkOccupied(b) \/ Leave(b)
          \/ MarkAvailable(b) \/ Close(b) \/ Reopen(b)
    \/ Neglect

Spec == Init /\ [][Next]_cell
=============================================================================
