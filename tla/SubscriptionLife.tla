-------------------------- MODULE SubscriptionLife --------------------------
(***************************************************************************)
(* What a tenant's subscription promises, whatever requests do: it begins  *)
(* once, with a plan it keeps for good; it may fall due when it is active  *)
(* and unpaid, and may be paid.  Entitlements implements this.             *)
(***************************************************************************)
CONSTANTS Tenants, Plans, NoPlan

VARIABLE life

Unsubscribed == [status |-> "none", plan |-> NoPlan, isPaid |-> FALSE]

Init == life = [t \in Tenants |-> Unsubscribed]

\* A subscription begins: a plan that is free at the time is PAID from the
\* start, and a trial is a TRIAL of any plan.
Begin(t, p, s, free) ==
    /\ life[t] = Unsubscribed
    /\ s \in {"TRIAL", IF free THEN "PAID" ELSE "ACTIVE"}
    /\ life' = [life EXCEPT ![t] = [status |-> s, plan |-> p, isPaid |-> free]]

\* It falls due; a payment that arrives meanwhile does not stop it.
FallDue(t) ==
    /\ life[t].status = "ACTIVE"
    /\ life' = [life EXCEPT ![t].status = "DUE"]

\* It is paid, which does not change its status.
Pay(t) ==
    /\ life[t].status # "none"
    /\ life' = [life EXCEPT ![t].isPaid = TRUE]

Next == \E t \in Tenants :
            \/ \E p \in Plans, s \in {"TRIAL", "PAID", "ACTIVE"}, free \in BOOLEAN :
                  Begin(t, p, s, free)
            \/ FallDue(t)
            \/ Pay(t)

Spec == Init /\ [][Next]_life
=============================================================================
