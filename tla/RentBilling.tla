---------------------------- MODULE RentBilling ----------------------------
(***************************************************************************)
(* Rent payments of a resident in a bed: the cron (RentPaymentScheduler-   *)
(* Service with generateRentPayment and updateOverdueStatus) and the       *)
(* requests that record what was paid (updatePaymentStatus and             *)
(* bulkMarkRentPaid).                                                      *)
(*                                                                         *)
(* A payment is one month's.  Its due date is known by where it lies to    *)
(* the day at hand, so days go by without a bound.  The cron fires once a  *)
(* day, at 2 AM, and is done before the day is over; due dates are         *)
(* midnights, so that a payment due today is past its date at 2 AM.        *)
(*                                                                         *)
(* The variable patched belongs to the verification, not to the program:   *)
(* the payments that a request has written since the cron last began.      *)
(***************************************************************************)
EXTENDS Naturals

CONSTANTS
    Payments,    \* one for each month
    Current,     \* the one of the month at hand
    Requests,    \* slots for requests in flight
    AmountDue,   \* the rent of each month
    Amounts,     \* amounts a request may record as paid
    NoPayment,
    Ops          \* what happens

AllOps == {"patch", "bulk", "fail"}

ASSUME RentBillingAssumption ==
    /\ Current \in Payments
    /\ AmountDue \in [Payments -> Nat \ {0}]
    /\ Amounts \subseteq Nat
    /\ NoPayment \notin Payments
    /\ Ops \subseteq AllOps

VARIABLES
    payment,  \* the payments collection, and when each month is due
    cron,     \* the nightly run
    req,      \* the requests in flight
    patched   \* history: payments written by a request since the cron began

vars == <<payment, cron, req, patched>>
-----------------------------------------------------------------------------
Statuses == {"UPCOMING", "DUE", "PARTIAL", "PAID", "OVERDUE"}

\* Due more than a week from now, within the week, today, or before.
Ahead == {"later", "week"}
Days  == Ahead \cup {"today", "past"}

PaymentDocs == [exists : BOOLEAN, due : Days, paid : Nat, status : Statuses]

\* The cron waits for 2 AM and generates, or is in one of the two updateMany of
\* updateOverdueStatus with the documents it has still to visit, or is over.
Sweeps     == {"toDue", "toOverdue"}
CronStates == [pc : Sweeps \cup {"waiting", "done", "failed"},
               todo : SUBSET Payments]

Idle == [pc |-> "idle", payment |-> NoPayment, amount |-> 0, todo |-> {}]

RequestStates == [pc : {"idle", "next", "write"},
                  payment : Payments \cup {NoPayment}, amount : Nat,
                  todo : SUBSET Payments]

TypeOK ==
    /\ payment \in [Payments -> PaymentDocs]
    /\ cron \in CronStates
    /\ req \in [Requests -> RequestStates]
    /\ patched \subseteq Payments

Existing == {p \in Payments : payment[p].exists}

\* What generateRentPayment saves for a month due then, and a month without.
Generated(due) == [exists |-> TRUE, due |-> due, paid |-> 0,
                   status |-> IF due \in Ahead THEN "UPCOMING" ELSE "OVERDUE"]
Missing(due)   == [Generated(due) EXCEPT !.exists = FALSE]

\* A collection with some of the months generated.  A month is generated when
\* it has come, so that the others are past their dates (a due day of 31 in a
\* short month, which is a date of the next one, is left aside).
Init ==
    /\ payment \in [Payments -> {Generated(d) : d \in Days} \cup {Missing(d) : d \in Days}]
    /\ \A p, q \in Payments :
          payment[p].due # "past" /\ payment[q].due # "past" => p = q
    /\ cron = [pc |-> "waiting", todo |-> {}]
    /\ req = [j \in Requests |-> Idle]
    /\ patched = {}
-----------------------------------------------------------------------------
(* The cron *)

\* What a resident's bedId holds: an id, or the bed once it is populated, as
\* the scheduler's query asks.  generateRentPayment makes an ObjectId of its
\* text, which throws unless the text is an id; the scheduler catches that.
BedRefs == {"id", "document"}
SchedulerPasses == "document"
TextIsId(ref) == ref = "id"

\* Nobody else writes to the month before it is there, so that looking for it
\* and saving it are one step.
Generate ==
    /\ cron.pc = "waiting"
    /\ payment' = IF TextIsId(SchedulerPasses) /\ ~payment[Current].exists
                  THEN [payment EXCEPT ![Current] = Generated(@.due)]
                  ELSE payment
    /\ cron' = [pc |-> "toDue", todo |-> Existing']
    /\ patched' = {}
    /\ UNCHANGED req

\* What each of the two updateMany makes of a document it visits.  The first
\* form does not look at the status, the second looks for DUE only.
SweptUnfiltered(doc, pc) ==
    IF pc = "toOverdue" /\ doc.due \notin Ahead THEN "OVERDUE" ELSE doc.status
SweptDueOnly(doc, pc) ==
    IF pc = "toOverdue" /\ doc.due \notin Ahead /\ doc.status = "DUE"
    THEN "OVERDUE" ELSE doc.status
Swept(doc, pc) ==
    CASE pc = "toDue" /\ doc.due = "today" /\ doc.status = "UPCOMING" -> "DUE"
      [] /\ pc = "toOverdue" /\ doc.due \notin Ahead
         /\ doc.status \in {"DUE", "PARTIAL", "UPCOMING"} -> "OVERDUE"
      [] OTHER -> doc.status

\* updateMany is atomic per document: it looks at each as it comes to it.
Visit(p) ==
    /\ cron.pc \in Sweeps
    /\ p \in cron.todo
    /\ payment' = [payment EXCEPT ![p].status = Swept(payment[p], cron.pc)]
    /\ cron' = [cron EXCEPT !.todo = @ \ {p}]
    /\ UNCHANGED <<req, patched>>

SweepDone ==
    /\ cron.pc \in Sweeps
    /\ cron.todo = {}
    /\ cron' = IF cron.pc = "toDue" THEN [pc |-> "toOverdue", todo |-> Existing]
                                    ELSE [pc |-> "done", todo |-> {}]
    /\ UNCHANGED <<payment, req, patched>>

\* A query of the cron is rejected, for this tenant or for one before it in the
\* loop over the tenants: the rest of the night's work is dropped.
CronFail ==
    /\ "fail" \in Ops
    /\ cron.pc \in Sweeps \cup {"waiting"}
    /\ cron' = [pc |-> "failed", todo |-> {}]
    /\ patched' = {}
    /\ UNCHANGED <<payment, req>>

\* The next day: what was due today is past; the month to come may be nearer.
NextDay(due, nearer) ==
    CASE due = "today"             -> "past"
      [] due = "week"  /\ nearer   -> "today"
      [] due = "later" /\ nearer   -> "week"
      [] OTHER                     -> due
NewDay ==
    /\ cron.pc \in {"done", "failed"}
    /\ \E nearer \in BOOLEAN :
          payment' = [p \in Payments |->
              [payment[p] EXCEPT !.due = NextDay(@, nearer)]]
    /\ cron' = [pc |-> "waiting", todo |-> {}]
    /\ UNCHANGED <<req, patched>>
-----------------------------------------------------------------------------
(* Requests *)

\* The status a request gives a payment of which this much is paid.  The first
\* form takes any amount for the rent.
StatusOfAny(p, paid) == IF paid > 0 THEN "PAID" ELSE "DUE"
StatusOf(p, paid)    == IF paid >= AmountDue[p] THEN "PAID"
                        ELSE IF paid > 0 THEN "PARTIAL" ELSE "DUE"

\* PATCH /payments/rent/:id, which reads the payment.
Patch(j, p, amount) ==
    /\ "patch" \in Ops
    /\ req[j].pc = "idle"
    /\ payment[p].exists
    /\ req' = [req EXCEPT ![j] = [pc |-> "write", payment |-> p,
                                  amount |-> amount, todo |-> {}]]
    /\ UNCHANGED <<payment, cron, patched>>

\* POST bulk mark paid: the payments it names, one after the other.
Bulk(j, named) ==
    /\ "bulk" \in Ops
    /\ req[j].pc = "idle"
    /\ req' = [req EXCEPT ![j] = [Idle EXCEPT !.pc = "next", !.todo = named]]
    /\ UNCHANGED <<payment, cron, patched>>

\* The next payment of a bulk request is read for its rent; one that is not
\* there is reported and passed over.
BulkRead(j, p) ==
    /\ req[j].pc = "next"
    /\ p \in req[j].todo
    /\ req' = [req EXCEPT ![j] =
                 [pc |-> IF payment[p].exists THEN "write" ELSE "next",
                  payment |-> p, amount |-> AmountDue[p], todo |-> @.todo \ {p}]]
    /\ UNCHANGED <<payment, cron, patched>>

\* A bulk request goes on to its next payment, any other ends.
GoOn(j) == req' = [req EXCEPT ![j] =
                     IF @.todo = {} THEN Idle
                     ELSE [Idle EXCEPT !.pc = "next", !.todo = req[j].todo]]

BulkDone(j) ==
    /\ req[j].pc = "next"
    /\ req[j].todo = {}
    /\ GoOn(j)
    /\ UNCHANGED <<payment, cron, patched>>

\* findByIdAndUpdate writes the amount and the status together.
Write(j) ==
    /\ req[j].pc = "write"
    /\ LET p == req[j].payment
       IN  /\ payment' = [payment EXCEPT ![p].paid   = req[j].amount,
                                         ![p].status = StatusOf(p, req[j].amount)]
           /\ patched' = patched \cup {p}
    /\ GoOn(j)
    /\ UNCHANGED cron

\* The write is rejected.
Fail(j) ==
    /\ "fail" \in Ops
    /\ req[j].pc = "write"
    /\ GoOn(j)
    /\ UNCHANGED <<payment, cron, patched>>
-----------------------------------------------------------------------------
Start(j) ==
    \/ \E p \in Payments, amount \in Amounts : Patch(j, p, amount)
    \/ \E named \in SUBSET Payments : Bulk(j, named)

Continue(j) == (\E p \in Payments : BulkRead(j, p)) \/ BulkDone(j) \/ Write(j)

Cron == Generate \/ (\E p \in Payments : Visit(p)) \/ SweepDone \/ CronFail

Next == Cron \/ NewDay \/ \E j \in Requests : Start(j) \/ Continue(j) \/ Fail(j)

Spec == Init /\ [][Next]_vars

\* Days pass, the scheduler fires every day, and its calls are answered.
Fairness == WF_vars(NewDay) /\ WF_vars(Cron)

FairSpec == Spec /\ Fairness
-----------------------------------------------------------------------------
(* Properties *)

\* The status of a payment tells what is paid of it, whatever the order in
\* which the cron and the requests write it: the dashboards, the summaries and
\* the totals of a resident who leaves select by status alone.
StatusTruthful ==
    \A p \in Existing :
        LET doc == payment[p]
        IN  /\ doc.status = "PAID" <=> doc.paid >= AmountDue[p]
            /\ doc.status = "PARTIAL" => doc.paid > 0
            /\ doc.status \in {"UPCOMING", "DUE"} => doc.paid = 0
            /\ doc.status = "OVERDUE" => doc.due \notin Ahead

\* After a night's run every payment whose date has come is PAID or OVERDUE, but
\* those that a request has written since the run began.
SweepThorough ==
    cron.pc = "done" =>
        \A p \in Existing \ patched :
            payment[p].due \notin Ahead => payment[p].status \in {"PAID", "OVERDUE"}

\* However requests reset the status of a payment past its date, and whichever
\* nights fail, as long as others do not: it is found OVERDUE again and again
\* until it is PAID.
OverdueFound ==
    []<>(cron.pc = "done") =>
        \A p \in Payments :
            []<>(payment[p].exists /\ payment[p].due = "past"
                    => payment[p].status \in {"PAID", "OVERDUE"})

\* A request about to write has found its payment.
WritesExisting ==
    \A j \in Requests :
        req[j].pc = "write" => req[j].payment \in Existing

\* What the second updateMany has passed is done with.
Passed ==
    cron.pc = "toOverdue" =>
        \A p \in Existing \ (patched \cup cron.todo) :
            payment[p].due \notin Ahead => payment[p].status \in {"PAID", "OVERDUE"}

\* The inductive invariant.
Inv == TypeOK /\ StatusTruthful /\ SweepThorough /\ WritesExisting /\ Passed
-----------------------------------------------------------------------------
(* What a comment of the scheduler says, which the code does not achieve.   *)

\* rent-payment-scheduler.service.ts:87, "Generate rent payment if it doesn't
\* exist": the month at hand is billed some day.
RentBilled == <>payment[Current].exists
=============================================================================
