---------------------------- MODULE MCPlanLimit ----------------------------
(***************************************************************************)
(* One run for the components of the office of a tenant that share no      *)
(* state: the variable part says which of them a behaviour is about, and   *)
(* the others stay in their first state.  The constants are those of each. *)
(***************************************************************************)
EXTENDS PlanLimit, NamedRecords, Notifications, GatePasses, Deposits, Figures,
        Otp, ResidentLogin, Sessions, TLC

VARIABLE part

CONSTANTS p1, p2

\* Two kinds under one limit.
MCSharedKinds == {"rooms", "beds"}

MCAnyLimits == {Unlimited, 1, 2}

\* The smallest instance in which two creates overtake each other.
MCOneKind      == {"rooms"}
MCFiniteLimits == {1}

\* Events that are emitted, with all their listeners.
MCEvents  == {"resident.created", "resident.assigned_room",
              "security_deposit.received", "resident.vacated"}
MCWatched == {"resident.created"}

\* A receipt and a deduction that is larger or smaller.
MCSums == {1, 3}

Parts == {"limits", "records", "notes", "passes", "deposits", "figures", "otp",
          "portal", "sessions"}

MCInit ==
    /\ part \in Parts
    /\ Init /\ RecInit /\ NoteInit /\ PassInit /\ DepositInit /\ FigureInit
    /\ OtpInit /\ PortalInit /\ SessionInit
    /\ part # "limits"  => /\ subscription = "none"
                           /\ \A k \in LimitKeys : highest[k] = Unlimited
                           /\ tenantLimits = planLimits
    /\ part # "records" => kind = "tag"
    /\ part # "notes"   => subscribed /\ \A ch \in Channels : flag[ch]
    /\ part # "figures" => subject = "complaints"

MCNext ==
    /\ part' = part
    /\ \/ part = "limits" /\ Next
       \/ part = "records" /\ RecNext
       \/ part = "notes" /\ NoteNext
       \/ part = "passes" /\ PassNext
       \/ part = "deposits" /\ DepositNext
       \/ part = "figures" /\ FigureNext
       \/ part = "otp" /\ OtpNext
       \/ part = "portal" /\ PortalNext
       \/ part = "sessions" /\ SessionNext
    /\ part # "limits"   => UNCHANGED vars
    /\ part # "records"  => UNCHANGED recVars
    /\ part # "notes"    => UNCHANGED noteVars
    /\ part # "passes"   => UNCHANGED passVars
    /\ part # "deposits" => UNCHANGED depositVars
    /\ part # "figures"  => UNCHANGED figureVars
    /\ part # "otp"      => UNCHANGED otpVars
    /\ part # "portal"   => UNCHANGED portalVars
    /\ part # "sessions" => UNCHANGED sessionVars

MCSpec == MCInit /\ [][MCNext]_<<part, vars, recVars, noteVars, passVars,
                        depositVars, figureVars, otpVars, portalVars,
                        sessionVars>>

\* The slots for requests are the same two in every part.
Symmetry == Permutations(Requests)
=============================================================================
