----------------------------- MODULE Settlement -----------------------------
(***************************************************************************)
(* What a resident owes, as it is read while the cron and the requests of  *)
(* RentBilling write: the total that vacate puts in its settlement, from   *)
(* three queries one after the other, and the lists of the dashboard.      *)
(*                                                                         *)
(* A total is kept as what each payment adds to it, up to the time the     *)
(* payment is written: what a payment adds that changes between two of the *)
(* queries is anything from nothing to thrice its rent, and is forgotten.  *)
(***************************************************************************)
EXTENDS RentBilling, Sequences

VARIABLE settlement   \* the vacate in flight, and what it has added up

settleVars == <<vars, settlement>>
-----------------------------------------------------------------------------
\* The queries of vacate, in their order.
PendingStatuses == <<"DUE", "OVERDUE", "PARTIAL">>

NoSettlement == [query |-> 0, owed |-> [p \in Payments |-> 0], written |-> {}]

SettleTypeOK ==
    settlement \in [query : 0 .. Len(PendingStatuses) + 1,
                    owed : [Payments -> Nat], written : SUBSET Payments]

SettleInit == Init /\ settlement = NoSettlement

\* RentPaymentService.findAll with a status.
FindAll(status) == {p \in Existing : payment[p].status = status}

\* vacate starts, for a resident that is not VACATED.
Vacate ==
    /\ settlement.query = 0
    /\ settlement' = [settlement EXCEPT !.query = 1]
    /\ UNCHANGED vars

\* The payments found add what is open of them at that time; the first form
\* adds them again and again.
AddUp(p) == AmountDue[p] - payment[p].paid

QueryAny(k) == {p \in Existing : payment[p].status # "PAID"}
Query(k)    == FindAll(PendingStatuses[k])

VacateQuery ==
    /\ settlement.query \in 1 .. Len(PendingStatuses)
    /\ settlement' = [settlement EXCEPT
          !.query = @ + 1,
          !.owed = [p \in Payments |->
                      IF p \in Query(settlement.query) \ settlement.written
                      THEN @[p] + AddUp(p) ELSE @[p]]]
    /\ UNCHANGED vars

\* vacate answers or fails; a resident set back to ACTIVE may leave again.
VacateDone ==
    /\ settlement.query # 0
    /\ settlement' = NoSettlement
    /\ UNCHANGED vars

\* A step of the cron or of a request, vacate being under way or not.
Written == {p \in Payments : \/ payment'[p].paid # payment[p].paid
                             \/ payment'[p].status # payment[p].status
                             \/ payment'[p].exists # payment[p].exists}
Billing ==
    /\ Next
    /\ settlement' = IF settlement.query = 0 THEN settlement
                     ELSE [settlement EXCEPT
                             !.written = @ \cup Written,
                             !.owed = [p \in Payments |->
                                         IF p \in Written THEN 0 ELSE @[p]]]

SettleNext == Vacate \/ VacateQuery \/ VacateDone \/ Billing

SettleSpec == SettleInit /\ [][SettleNext]_settleVars /\ Fairness
-----------------------------------------------------------------------------
\* The lists of the dashboard, read after 2 AM, when a due date that is today
\* is past.
GetDueToday ==
    {p \in Existing : /\ payment[p].due = "today"
                      /\ payment[p].status \in {"DUE", "PARTIAL"}}

GetDueInNext7Days ==
    {p \in Existing : /\ payment[p].due \in {"today", "week"}
                      /\ payment[p].status \in {"DUE", "PARTIAL"}}

GetOverdue ==
    {p \in Existing : /\ payment[p].due \in {"today", "past"}
                      /\ payment[p].status \in {"DUE", "PARTIAL", "OVERDUE"}}

GetPendingSummary ==
    {p \in Existing : payment[p].status \in {"DUE", "PARTIAL", "OVERDUE"}}
-----------------------------------------------------------------------------
(* Properties *)

\* The total of a settlement counts what is open of every payment once, though
\* it is made of three queries by status: only a payment that is written
\* between them may be missed or counted again.
PendingCounted ==
    settlement.query > Len(PendingStatuses) =>
        \A p \in Payments \ settlement.written :
            settlement.owed[p] =
                IF payment[p].exists /\ payment[p].status # "UPCOMING"
                   /\ payment[p].paid < AmountDue[p]
                THEN AmountDue[p] - payment[p].paid ELSE 0

\* After the nightly run a payment that is open and has reached its date is on
\* the list of the overdue and on no list of those to come, also on the day
\* itself; only a request that has reset it since puts it on both.  What is
\* pending and not overdue is to come within the week, or is on neither list:
\* a payment that a request has made DUE or PARTIAL more than a week ahead.
ListsAgree ==
    cron.pc = "done" =>
        /\ {p \in Existing : /\ payment[p].due \notin Ahead
                             /\ payment[p].paid < AmountDue[p]} \subseteq GetOverdue
        /\ (GetDueToday \cup GetDueInNext7Days) \cap GetOverdue \subseteq patched
        /\ \A p \in GetPendingSummary \ GetOverdue :
               p \in GetDueInNext7Days \/ payment[p].due = "later"
=============================================================================
