------------------------- MODULE RentBillingProofs -------------------------
(* Proofs about RentBilling and Settlement, for any months, rents and       *)
(* number of requests: the status of a payment tells what is paid of it, a  *)
(* night's run leaves nothing behind, the total of a settlement counts what *)
(* is open once, and the lists of the dashboard agree with one another.     *)
EXTENDS Settlement, TLAPS

LEMMA InitInv == Init => Inv
<1> SUFFICES ASSUME Init PROVE Inv
  OBVIOUS
<1>1. \A p \in Payments : \E d \in Days : payment[p] \in {Generated(d), Missing(d)}
  BY DEF Init
<1>2. \A d \in Days : Generated(d) \in PaymentDocs /\ Missing(d) \in PaymentDocs
  BY DEF Generated, Missing, PaymentDocs, Days, Statuses
<1>3. TypeOK
  <2>1. payment \in [Payments -> PaymentDocs]
    BY <1>2 DEF Init
  <2>2. cron \in CronStates /\ patched \subseteq Payments
    BY DEF Init, CronStates
  <2>3. req \in [Requests -> RequestStates]
    BY DEF Init, RequestStates, Idle
  <2> QED BY <2>1, <2>2, <2>3 DEF TypeOK
<1>4. StatusTruthful
  <2>1. ASSUME NEW p \in Existing
        PROVE  /\ payment[p].paid = 0 /\ AmountDue[p] \in Nat \ {0}
               /\ payment[p].status \in {"UPCOMING", "OVERDUE"}
               /\ payment[p].status = "OVERDUE" => payment[p].due \notin Ahead
    <3>1. PICK d \in Days : payment[p] = Generated(d)
      BY <1>1 DEF Existing, Missing, Generated
    <3> QED BY <3>1, RentBillingAssumption DEF Generated, Existing
  <2>2. \A n \in Nat \ {0} : ~(0 >= n)
    OBVIOUS
  <2> QED BY <2>1, <2>2 DEF StatusTruthful
<1> QED
  BY <1>3, <1>4 DEF Init, Inv, SweepThorough, WritesExisting, Passed, Idle

LEMMA GenerateInv == Inv /\ Generate => Inv'
<1> SUFFICES ASSUME Inv, Generate PROVE Inv'
  OBVIOUS
<1>1. payment' = payment
  BY DEF Generate, TextIsId, SchedulerPasses
<1>2. Existing' = Existing /\ Existing \subseteq Payments
  BY <1>1 DEF Existing
<1>3. TypeOK'
  BY <1>1, <1>2 DEF Inv, TypeOK, Generate, CronStates, Sweeps
<1> QED
  BY <1>1, <1>2, <1>3
  DEF Inv, Generate, StatusTruthful, SweepThorough, WritesExisting, Passed

LEMMA VisitInv == ASSUME Inv, NEW p \in Payments, Visit(p) PROVE Inv'
<1> DEFINE new == Swept(payment[p], cron.pc)
<1>1. payment[p] \in PaymentDocs /\ payment \in [Payments -> PaymentDocs]
  BY DEF Inv, TypeOK
<1>2. new \in Statuses
  BY <1>1 DEF Swept, PaymentDocs, Statuses
<1>3. \A q \in Payments :
         /\ payment'[q].exists = payment[q].exists /\ payment'[q].due = payment[q].due
         /\ payment'[q].paid = payment[q].paid
         /\ payment'[q].status = IF q = p THEN new ELSE payment[q].status
  BY <1>1 DEF Visit, PaymentDocs
<1>4. Existing' = Existing
  BY <1>3 DEF Existing
<1>5. TypeOK'
  <2>1. payment' \in [Payments -> PaymentDocs]
    BY <1>1, <1>2 DEF Visit, PaymentDocs
  <2>2. cron' \in CronStates
    BY DEF Visit, Inv, TypeOK, CronStates
  <2> QED BY <2>1, <2>2 DEF Visit, Inv, TypeOK
<1>6. StatusTruthful'
  <2> SUFFICES ASSUME NEW q \in Existing
               PROVE  /\ payment'[q].status = "PAID" <=> payment'[q].paid >= AmountDue[q]
                      /\ payment'[q].status = "PARTIAL" => payment'[q].paid > 0
                      /\ payment'[q].status \in {"UPCOMING", "DUE"} => payment'[q].paid = 0
                      /\ payment'[q].status = "OVERDUE" => payment'[q].due \notin Ahead
    BY <1>4 DEF StatusTruthful
  <2>1. q \in Payments
    BY DEF Existing
  <2>2. /\ payment[q].status = "PAID" <=> payment[q].paid >= AmountDue[q]
        /\ payment[q].status = "PARTIAL" => payment[q].paid > 0
        /\ payment[q].status \in {"UPCOMING", "DUE"} => payment[q].paid = 0
        /\ payment[q].status = "OVERDUE" => payment[q].due \notin Ahead
    BY DEF Inv, StatusTruthful
  <2>3. CASE q # p
    BY <2>1, <2>2, <2>3, <1>3
  <2>4. CASE q = p
    BY <2>1, <2>2, <2>4, <1>3 DEF Swept
  <2> QED BY <2>3, <2>4
<1>7. SweepThorough' /\ WritesExisting'
  BY <1>4 DEF Visit, Sweeps, Inv, SweepThorough, WritesExisting, TypeOK, CronStates
<1>8. Passed'
  <2> SUFFICES ASSUME cron'.pc = "toOverdue",
                      NEW q \in Existing, q \notin patched, q \notin cron'.todo,
                      payment[q].due \notin Ahead
               PROVE  payment'[q].status \in {"PAID", "OVERDUE"}
    BY <1>3, <1>4 DEF Passed, Visit, Existing
  <2>1. cron.pc = "toOverdue" /\ cron'.todo = cron.todo \ {p} /\ q \in Payments
    BY DEF Visit, Inv, TypeOK, CronStates, Existing
  <2>2. CASE q # p
    BY <2>1, <2>2, <1>3 DEF Inv, Passed
  <2>3. CASE q = p
    BY <2>1, <2>3, <1>1, <1>3 DEF Swept, PaymentDocs, Statuses
  <2> QED BY <2>2, <2>3
<1> QED
  BY <1>5, <1>6, <1>7, <1>8 DEF Inv

LEMMA SweepDoneInv == Inv /\ SweepDone => Inv'
<1> SUFFICES ASSUME Inv, SweepDone PROVE Inv'
  OBVIOUS
<1>1. Existing' = Existing /\ Existing \subseteq Payments
  BY DEF SweepDone, Existing
<1>2. TypeOK'
  BY <1>1 DEF Inv, TypeOK, SweepDone, CronStates, Sweeps
<1> QED
  BY <1>1, <1>2 DEF Inv, SweepDone, Sweeps, StatusTruthful, SweepThorough, WritesExisting, Passed

LEMMA CronFailInv == Inv /\ CronFail => Inv'
<1> SUFFICES ASSUME Inv, CronFail PROVE Inv'
  OBVIOUS
<1>1. Existing' = Existing
  BY DEF CronFail, Existing
<1>2. TypeOK'
  BY DEF Inv, TypeOK, CronFail, CronStates
<1> QED
  BY <1>1, <1>2 DEF Inv, CronFail, StatusTruthful, SweepThorough, WritesExisting, Passed

LEMMA NewDayInv == Inv /\ NewDay => Inv'
<1> SUFFICES ASSUME Inv, NewDay PROVE Inv'
  OBVIOUS
<1>1. PICK nearer \in BOOLEAN :
        payment' = [p \in Payments |->
             [payment[p] EXCEPT !.due = NextDay(@, nearer)]]
  BY DEF NewDay
<1>2. payment \in [Payments -> PaymentDocs]
  BY DEF Inv, TypeOK
<1>3. \A p \in Payments :
        /\ payment'[p].exists = payment[p].exists /\ payment'[p].paid = payment[p].paid
        /\ payment'[p].status = payment[p].status
        /\ payment'[p].due \in Days
        /\ payment[p].due \notin Ahead => payment'[p].due \notin Ahead
  <2> TAKE p \in Payments
  <2>1. /\ payment[p].due \in Days
        /\ payment'[p] = [payment[p] EXCEPT !.due = NextDay(payment[p].due, nearer)]
    BY <1>1, <1>2 DEF PaymentDocs
  <2>2. \A due \in Days, b \in BOOLEAN :
           NextDay(due, b) \in Days /\ (due \notin Ahead => NextDay(due, b) \notin Ahead)
    BY DEF NextDay, Days, Ahead
  <2>3. NextDay(payment[p].due, nearer) \in Days
        /\ (payment[p].due \notin Ahead => NextDay(payment[p].due, nearer) \notin Ahead)
    BY <2>1, <2>2
  <2>. QED  BY <1>2, <2>1, <2>3 DEF PaymentDocs
<1>4. Existing' = Existing
  BY <1>3 DEF Existing
<1>5. TypeOK'
  <2>1. payment' \in [Payments -> PaymentDocs]
    BY <1>1, <1>2, <1>3 DEF PaymentDocs
  <2> QED BY <2>1 DEF Inv, TypeOK, NewDay, CronStates
<1>6. StatusTruthful'
  BY <1>3, <1>4 DEF Inv, StatusTruthful, Existing
<1> QED
  BY <1>4, <1>5, <1>6 DEF Inv, NewDay, SweepThorough, WritesExisting, Passed

\* The steps of a request that write no payment.
LEMMA RequestInv ==
  ASSUME Inv, UNCHANGED <<payment, cron, patched>>,
         NEW j \in Requests, NEW r \in RequestStates, req' = [req EXCEPT ![j] = r],
         r.pc = "write" => r.payment \in Existing
  PROVE  Inv'
<1>1. Existing' = Existing
  BY DEF Existing
<1>2. TypeOK'
  BY DEF Inv, TypeOK
<1>3. WritesExisting'
  BY <1>1 DEF Inv, TypeOK, WritesExisting
<1> QED
  BY <1>1, <1>2, <1>3 DEF Inv, StatusTruthful, SweepThorough, Passed

\* Where GoOn leaves a request.
LEMMA GoOnRequest ==
  ASSUME Inv, NEW j \in Requests, GoOn(j)
  PROVE  \E r \in RequestStates : req' = [req EXCEPT ![j] = r] /\ r.pc # "write"
<1> DEFINE r == IF req[j].todo = {} THEN Idle
                ELSE [Idle EXCEPT !.pc = "next", !.todo = req[j].todo]
<1>1. r \in RequestStates /\ r.pc # "write"
  BY DEF Inv, TypeOK, RequestStates, Idle
<1>2. req' = [req EXCEPT ![j] = r]
  BY DEF GoOn
<1> QED BY <1>1, <1>2

LEMMA StartInv == ASSUME Inv, NEW j \in Requests, Start(j) PROVE Inv'
<1>1. ASSUME NEW p \in Payments, NEW amount \in Amounts, Patch(j, p, amount) PROVE Inv'
  <2> DEFINE r == [pc |-> "write", payment |-> p, amount |-> amount, todo |-> {}]
  <2>1. r \in RequestStates /\ r.payment \in Existing
    BY <1>1, RentBillingAssumption DEF RequestStates, Patch, Existing
  <2>2. req' = [req EXCEPT ![j] = r] /\ UNCHANGED <<payment, cron, patched>>
    BY <1>1 DEF Patch
  <2> HIDE DEF r
  <2> QED BY <2>1, <2>2, RequestInv
<1>2. ASSUME NEW named \in SUBSET Payments, Bulk(j, named) PROVE Inv'
  <2> DEFINE r == [Idle EXCEPT !.pc = "next", !.todo = named]
  <2>1. r \in RequestStates /\ r.pc # "write"
    BY DEF RequestStates, Idle
  <2>2. req' = [req EXCEPT ![j] = r] /\ UNCHANGED <<payment, cron, patched>>
    BY <1>2 DEF Bulk
  <2> HIDE DEF r
  <2> QED BY <2>1, <2>2, RequestInv
<1> QED BY <1>1, <1>2 DEF Start

LEMMA BulkReadInv ==
  ASSUME Inv, NEW j \in Requests, NEW p \in Payments, BulkRead(j, p) PROVE Inv'
<1> DEFINE r == [pc |-> IF payment[p].exists THEN "write" ELSE "next",
                 payment |-> p, amount |-> AmountDue[p], todo |-> req[j].todo \ {p}]
<1>1. r \in RequestStates
  BY RentBillingAssumption DEF Inv, TypeOK, RequestStates
<1>2. r.pc = "write" => r.payment \in Existing
  BY DEF Existing
<1>3. req' = [req EXCEPT ![j] = r] /\ UNCHANGED <<payment, cron, patched>>
  BY DEF BulkRead
<1> HIDE DEF r
<1> QED BY <1>1, <1>2, <1>3, RequestInv

LEMMA WriteInv == ASSUME Inv, NEW j \in Requests, Write(j) PROVE Inv'
<1> DEFINE p == req[j].payment
           amount == req[j].amount
<1>1. p \in Existing /\ p \in Payments /\ amount \in Nat
  BY DEF Write, Inv, WritesExisting, Existing, TypeOK, RequestStates
<1>2. /\ payment' = [payment EXCEPT ![p].paid   = amount,
                                    ![p].status = StatusOf(p, amount)]
      /\ patched' = patched \cup {p} /\ cron' = cron
  BY DEF Write
<1>3. payment \in [Payments -> PaymentDocs] /\ StatusOf(p, amount) \in Statuses
  BY DEF Inv, TypeOK, StatusOf, Statuses
<1>4. \A q \in Payments :
         /\ payment'[q].exists = payment[q].exists /\ payment'[q].due = payment[q].due
         /\ q # p => payment'[q] = payment[q]
  BY <1>1, <1>2, <1>3 DEF PaymentDocs
<1>5. payment'[p].paid = amount /\ payment'[p].status = StatusOf(p, amount)
  BY <1>1, <1>2, <1>3 DEF PaymentDocs
<1>6. Existing' = Existing
  BY <1>4 DEF Existing
<1>7. PICK r \in RequestStates : req' = [req EXCEPT ![j] = r] /\ r.pc # "write"
  BY GoOnRequest DEF Write
<1>8. TypeOK'
  <2>1. payment' \in [Payments -> PaymentDocs]
    BY <1>1, <1>2, <1>3 DEF PaymentDocs
  <2> QED BY <1>1, <1>2, <1>7, <2>1 DEF Inv, TypeOK
<1>9. StatusTruthful'
  <2> SUFFICES ASSUME NEW q \in Existing
               PROVE  /\ payment'[q].status = "PAID" <=> payment'[q].paid >= AmountDue[q]
                      /\ payment'[q].status = "PARTIAL" => payment'[q].paid > 0
                      /\ payment'[q].status \in {"UPCOMING", "DUE"} => payment'[q].paid = 0
                      /\ payment'[q].status = "OVERDUE" => payment'[q].due \notin Ahead
    BY <1>6 DEF StatusTruthful
  <2>1. q \in Payments /\ AmountDue[q] \in Nat \ {0}
    BY RentBillingAssumption DEF Existing
  <2>2. CASE q # p
    BY <2>1, <2>2, <1>4 DEF Inv, StatusTruthful
  <2>3. CASE q = p
    BY <2>1, <2>3, <1>1, <1>5 DEF StatusOf
  <2> QED BY <2>2, <2>3
<1>10. SweepThorough' /\ Passed'
  BY <1>2, <1>4, <1>6 DEF Inv, SweepThorough, Passed, Existing
<1>11. WritesExisting'
  BY <1>6, <1>7 DEF Inv, TypeOK, WritesExisting
<1> QED
  BY <1>8, <1>9, <1>10, <1>11 DEF Inv

LEMMA NextInv == Inv /\ [Next]_vars => Inv'
<1> SUFFICES ASSUME Inv, [Next]_vars PROVE Inv'
  OBVIOUS
<1>1. CASE UNCHANGED vars
  BY <1>1 DEF vars, Inv, TypeOK, StatusTruthful, SweepThorough, WritesExisting, Passed, Existing
<1>2. CASE Cron
  BY <1>2, GenerateInv, VisitInv, SweepDoneInv, CronFailInv DEF Cron
<1>3. CASE NewDay
  BY <1>3, NewDayInv
<1>4. ASSUME NEW j \in Requests, Continue(j) \/ Fail(j) PROVE Inv'
  <2>1. ASSUME GoOn(j), UNCHANGED <<payment, cron, patched>> PROVE Inv'
    <3>1. PICK r \in RequestStates : req' = [req EXCEPT ![j] = r] /\ r.pc # "write"
      BY <2>1, GoOnRequest
    <3> QED BY <2>1, <3>1, RequestInv
  <2>2. CASE BulkDone(j)
    BY <2>1, <2>2 DEF BulkDone
  <2>3. CASE Fail(j)
    BY <2>1, <2>3 DEF Fail
  <2> QED BY <1>4, <2>2, <2>3, BulkReadInv, WriteInv DEF Continue
<1> QED
  BY <1>1, <1>2, <1>3, <1>4, StartInv DEF Next

(***************************************************************************)
(* The inductive invariant holds for any months, rents and requests.       *)
(***************************************************************************)
THEOREM InvHolds == Spec => []Inv
  BY InitInv, NextInv, PTL DEF Spec

(***************************************************************************)
(* The status of a payment tells what is paid of it, in every              *)
(* interleaving of the cron with any number of requests.                   *)
(***************************************************************************)
THEOREM StatusTheorem == Spec => []StatusTruthful
<1>1. Inv => StatusTruthful
  BY DEF Inv
<1> QED BY <1>1, InvHolds, PTL

(***************************************************************************)
(* A night's run that ends leaves no payment behind whose date has come,   *)
(* unless a request has written it meanwhile.                              *)
(***************************************************************************)
THEOREM SweepTheorem == Spec => []SweepThorough
<1>1. Inv => SweepThorough
  BY DEF Inv
<1> QED BY <1>1, InvHolds, PTL
-----------------------------------------------------------------------------
(* Settlement: what the queries that are done have added for a payment that
   nobody has written since, and that a payment written by a request is not
   UPCOMING any more.                                                       *)

\* Query k is done, and has found a payment with this status.
Found(status, query) ==
    \/ status = "DUE" /\ query > 1
    \/ status = "OVERDUE" /\ query > 2
    \/ status = "PARTIAL" /\ query > 3

\* What such a payment has added.
Added(doc, rent, query) ==
    IF doc.exists /\ Found(doc.status, query) THEN rent - doc.paid ELSE 0

Counted ==
    \A p \in Payments \ settlement.written :
        settlement.owed[p] = Added(payment[p], AmountDue[p], settlement.query)

PatchedSet == \A p \in patched : payment[p].status # "UPCOMING"

SettleStates == [query : 0 .. 4, owed : [Payments -> Nat], written : SUBSET Payments]

SettleInv == Inv /\ settlement \in SettleStates /\ Counted /\ PatchedSet

LEMMA QueriesAre ==
    /\ Len(PendingStatuses) = 3
    /\ PendingStatuses[1] = "DUE" /\ PendingStatuses[2] = "OVERDUE"
    /\ PendingStatuses[3] = "PARTIAL"
BY DEF PendingStatuses

\* What is open of a payment that a query finds.
LEMMA OpenAmount ==
    ASSUME Inv, NEW p \in Payments, payment[p].exists
    PROVE  /\ payment[p].paid \in Nat /\ AmountDue[p] \in Nat
           /\ payment[p].status # "PAID" => payment[p].paid < AmountDue[p] /\ AddUp(p) \in Nat
           /\ payment[p].status = "PAID" => ~(payment[p].paid < AmountDue[p])
<1>1. payment[p].paid \in Nat /\ AmountDue[p] \in Nat
  BY RentBillingAssumption DEF Inv, TypeOK, PaymentDocs
<1>2. payment[p].status = "PAID" <=> payment[p].paid >= AmountDue[p]
  BY DEF Inv, StatusTruthful, Existing
<1>. QED  BY <1>1, <1>2 DEF AddUp

LEMMA SettleInitInv == SettleInit => SettleInv
<1> SUFFICES ASSUME SettleInit PROVE SettleInv
  OBVIOUS
<1>1. Inv
  BY InitInv DEF SettleInit
<1>2. settlement \in SettleStates /\ Counted
  BY DEF SettleInit, NoSettlement, SettleStates, Counted, Added, Found
<1>3. PatchedSet
  BY DEF SettleInit, Init, PatchedSet
<1>. QED  BY <1>1, <1>2, <1>3 DEF SettleInv

\* No step makes a payment UPCOMING that a request has written.
LEMMA PatchedStep == ASSUME Inv, PatchedSet, Next PROVE PatchedSet'
<1>t. payment \in [Payments -> PaymentDocs] /\ patched \subseteq Payments
  BY DEF Inv, TypeOK
<1>1. ASSUME UNCHANGED <<payment, patched>> PROVE PatchedSet'
  BY <1>1 DEF PatchedSet
<1>2. ASSUME Generate \/ CronFail PROVE PatchedSet'
  BY <1>2 DEF Generate, CronFail, PatchedSet
<1>3. ASSUME NEW p \in Payments, Visit(p) PROVE PatchedSet'
  <2>1. \A q \in Payments : q # p => payment'[q].status = payment[q].status
    BY <1>t, <1>3 DEF Visit
  <2>2. payment'[p].status = Swept(payment[p], cron.pc)
    BY <1>t, <1>3 DEF Visit, PaymentDocs
  <2>3. payment[p].status # "UPCOMING" => payment'[p].status # "UPCOMING"
    BY <2>2 DEF Swept
  <2>. QED  BY <1>t, <1>3, <2>1, <2>3 DEF Visit, PatchedSet
<1>4. ASSUME NewDay PROVE PatchedSet'
  <2>1. \A p \in Payments : payment'[p].status = payment[p].status
    BY <1>t, <1>4 DEF NewDay, PaymentDocs
  <2>. QED  BY <1>t, <1>4, <2>1 DEF NewDay, PatchedSet
<1>5. ASSUME NEW j \in Requests, Write(j) PROVE PatchedSet'
  <2> DEFINE p == req[j].payment
  <2>1. p \in Payments
    BY <1>5 DEF Write, Inv, WritesExisting, Existing
  <2>2. payment' = [payment EXCEPT ![p].paid   = req[j].amount,
                                   ![p].status = StatusOf(p, req[j].amount)]
        /\ patched' = patched \cup {p}
    BY <1>5 DEF Write
  <2>3. payment'[p].status = StatusOf(p, req[j].amount)
        /\ \A q \in Payments : q # p => payment'[q] = payment[q]
    BY <1>t, <2>1, <2>2 DEF PaymentDocs
  <2>. QED  BY <1>t, <2>1, <2>2, <2>3 DEF PatchedSet, StatusOf
<1>. QED  BY <1>1, <1>2, <1>3, <1>4, <1>5
          DEF Next, Cron, SweepDone, Start, Continue, Fail, Patch, Bulk, BulkRead, BulkDone

LEMMA QueryInv == SettleInv /\ VacateQuery => SettleInv'
<1> SUFFICES ASSUME SettleInv, VacateQuery PROVE SettleInv'
  OBVIOUS
<1>1. PICK s \in SettleStates, k \in {1, 2, 3} : s = settlement /\ k = s.query
  BY QueriesAre DEF SettleInv, VacateQuery, SettleStates
<1> DEFINE after == [p \in Payments |->
                       IF p \in Query(k) \ s.written THEN s.owed[p] + AddUp(p) ELSE s.owed[p]]
<1>2. settlement' = [s EXCEPT !.query = k + 1, !.owed = after] /\ UNCHANGED vars
  BY <1>1 DEF VacateQuery
<1>3. Inv /\ UNCHANGED <<payment, patched>> /\ Inv'
  BY <1>2, NextInv DEF SettleInv, vars
<1>4. ASSUME NEW p \in Payments
      PROVE  /\ after[p] \in Nat
             /\ p \notin s.written => after[p] = Added(payment[p], AmountDue[p], k + 1)
  <2>1. s.owed[p] \in Nat
    BY DEF SettleStates
  <2>2. p \notin s.written => s.owed[p] = Added(payment[p], AmountDue[p], k)
    BY <1>1 DEF SettleInv, Counted
  <2>3. p \in Query(k) <=> payment[p].exists /\ payment[p].status = PendingStatuses[k]
    BY DEF Query, FindAll, Existing
  <2>4. CASE p \in Query(k) \ s.written
    <3>1. after[p] = s.owed[p] + AddUp(p)
      BY <2>4
    <3>2. payment[p].exists /\ payment[p].status = PendingStatuses[k]
      BY <2>3, <2>4
    <3>3. AddUp(p) \in Nat
      BY <1>3, <3>2, OpenAmount, QueriesAre
    <3>4. ~Found(payment[p].status, k) /\ Found(payment[p].status, k + 1)
      BY <3>2, QueriesAre DEF Found
    <3>. QED  BY <2>1, <2>2, <2>4, <3>1, <3>2, <3>3, <3>4 DEF Added, AddUp
  <2>5. CASE p \notin Query(k) \ s.written
    <3>1. after[p] = s.owed[p]
      BY <2>5
    <3>2. ~payment[p].exists \/ payment[p].status # PendingStatuses[k] \/ p \in s.written
      BY <2>3, <2>5
    <3>3. payment[p].status # PendingStatuses[k] =>
             (Found(payment[p].status, k) <=> Found(payment[p].status, k + 1))
      BY QueriesAre DEF Found
    <3>. QED  BY <2>1, <2>2, <3>1, <3>2, <3>3 DEF Added
  <2>. QED  BY <2>4, <2>5
<1> HIDE DEF after
<1>5. after \in [Payments -> Nat]
  <2>1. after = [p \in Payments |-> after[p]]
    BY DEF after
  <2>. QED  BY <1>4, <2>1
<1>6. PICK n \in SettleStates :
         n = settlement' /\ n.query = k + 1 /\ n.owed = after /\ n.written = s.written
  <2>1. k + 1 \in 0 .. 4
    OBVIOUS
  <2>2. settlement' = [query |-> k + 1, owed |-> after, written |-> s.written]
    BY <1>2 DEF SettleStates
  <2>3. s.written \in SUBSET Payments
    BY DEF SettleStates
  <2>. QED  BY <1>5, <2>1, <2>2, <2>3 DEF SettleStates
<1>7. Counted'
  BY <1>3, <1>4, <1>6 DEF Counted
<1>. QED  BY <1>3, <1>6, <1>7 DEF SettleInv, PatchedSet

LEMMA BillingInv == SettleInv /\ Billing => SettleInv'
<1> SUFFICES ASSUME SettleInv, Billing PROVE SettleInv'
  OBVIOUS
<1>1. Inv /\ Inv' /\ PatchedSet'
  BY NextInv, PatchedStep DEF SettleInv, Billing
<1>2. PICK s \in SettleStates : s = settlement
  BY DEF SettleInv
<1>3. \A p \in Payments \ Written :
         /\ payment'[p].paid = payment[p].paid /\ payment'[p].status = payment[p].status
         /\ payment'[p].exists = payment[p].exists
  BY DEF Written
<1>4. CASE s.query = 0
  <2>1. settlement' = s
    BY <1>2, <1>4 DEF Billing
  <2>2. \A p \in Payments : Added(payment'[p], AmountDue[p], 0) = Added(payment[p], AmountDue[p], 0)
    BY DEF Added, Found
  <2>3. Counted'
    BY <1>2, <1>4, <2>1, <2>2 DEF SettleInv, Counted
  <2>. QED  BY <1>1, <2>1, <2>3 DEF SettleInv
<1>5. CASE s.query # 0
  <2> DEFINE after == [p \in Payments |-> IF p \in Written THEN 0 ELSE s.owed[p]]
  <2>1. settlement' = [s EXCEPT !.written = s.written \cup Written, !.owed = after]
    BY <1>2, <1>5 DEF Billing
  <2>2. after \in [Payments -> Nat] /\ Written \subseteq Payments
    BY DEF SettleStates, Written
  <2>3. PICK n \in SettleStates : /\ n = settlement' /\ n.query = s.query /\ n.owed = after
                                  /\ n.written = s.written \cup Written
    <3>1. settlement' = [query |-> s.query, owed |-> after, written |-> s.written \cup Written]
      BY <2>1 DEF SettleStates
    <3>2. s.query \in 0 .. 4 /\ s.written \cup Written \in SUBSET Payments
      BY <2>2 DEF SettleStates
    <3>3. after \in [Payments -> Nat]
      BY <2>2
    <3> HIDE DEF after
    <3>. QED  BY <3>1, <3>2, <3>3 DEF SettleStates
  <2>4. ASSUME NEW p \in Payments \ (s.written \cup Written)
        PROVE  after[p] = Added(payment'[p], AmountDue[p], s.query)
    <3>1. after[p] = s.owed[p]
      OBVIOUS
    <3>2. s.owed[p] = Added(payment[p], AmountDue[p], s.query)
      BY <1>2 DEF SettleInv, Counted
    <3>. QED  BY <1>3, <3>1, <3>2 DEF Added
  <2> HIDE DEF after
  <2>5. Counted'
    BY <2>3, <2>4 DEF Counted
  <2>. QED  BY <1>1, <2>3, <2>5 DEF SettleInv
<1>. QED  BY <1>4, <1>5

LEMMA SettleStep == SettleInv /\ [SettleNext]_settleVars => SettleInv'
<1> SUFFICES ASSUME SettleInv, [SettleNext]_settleVars PROVE SettleInv'
  OBVIOUS
<1>1. ASSUME UNCHANGED vars PROVE Inv' /\ PatchedSet' /\ UNCHANGED payment
  BY <1>1, NextInv DEF SettleInv, PatchedSet, vars
<1>2. CASE Vacate
  <2>1. PICK s \in SettleStates :
           s = settlement /\ s.query = 0 /\ settlement' = [s EXCEPT !.query = 1]
    BY <1>2 DEF SettleInv, Vacate
  <2>2. PICK n \in SettleStates :
           n = settlement' /\ n.query = 1 /\ n.owed = s.owed /\ n.written = s.written
    BY <2>1 DEF SettleStates
  <2>3. Counted'
    BY <1>1, <1>2, <2>1, <2>2 DEF Vacate, SettleInv, Counted, Added, Found
  <2>. QED  BY <1>1, <1>2, <2>2, <2>3 DEF Vacate, SettleInv
<1>3. CASE VacateDone
  <2>1. settlement' \in SettleStates /\ Counted'
    BY <1>3 DEF VacateDone, NoSettlement, SettleStates, Counted, Added, Found
  <2>. QED  BY <1>1, <1>3, <2>1 DEF VacateDone, SettleInv
<1>4. CASE UNCHANGED settleVars
  BY <1>1, <1>4 DEF settleVars, SettleInv, Counted
<1>. QED  BY <1>2, <1>3, <1>4, QueryInv, BillingInv DEF SettleNext

LEMMA SettleInvHolds == SettleSpec => []SettleInv
BY SettleInitInv, SettleStep, PTL DEF SettleSpec

(***************************************************************************)
(* The three queries of vacate add up what is open of every payment once,  *)
(* unless it is written between them.                                      *)
(***************************************************************************)
THEOREM PendingTheorem == SettleSpec => []PendingCounted
<1>1. SettleInv => PendingCounted
  <2> SUFFICES ASSUME SettleInv, settlement.query > 3,
                      NEW p \in Payments \ settlement.written
               PROVE  settlement.owed[p] =
                         IF payment[p].exists /\ payment[p].status # "UPCOMING"
                            /\ payment[p].paid < AmountDue[p]
                         THEN AmountDue[p] - payment[p].paid ELSE 0
    BY QueriesAre DEF PendingCounted
  <2>1. settlement.query = 4
    BY DEF SettleInv, SettleStates
  <2>2. settlement.owed[p] = Added(payment[p], AmountDue[p], 4)
    BY <2>1 DEF SettleInv, Counted
  <2>3. CASE ~payment[p].exists
    BY <2>2, <2>3 DEF Added
  <2>4. CASE payment[p].exists
    <3>1. payment[p].status \in Statuses
      BY DEF SettleInv, Inv, TypeOK, PaymentDocs
    <3>2. Found(payment[p].status, 4) <=> payment[p].status \in {"DUE", "OVERDUE", "PARTIAL"}
      BY DEF Found
    <3>3. payment[p].status = "PAID" <=> ~(payment[p].paid < AmountDue[p])
      BY <2>4, OpenAmount DEF SettleInv
    <3>. QED  BY <2>2, <2>4, <3>1, <3>2, <3>3 DEF Added, Statuses
  <2>. QED  BY <2>3, <2>4
<1>. QED  BY <1>1, SettleInvHolds, PTL

(***************************************************************************)
(* After the nightly run the list of the overdue holds every open payment  *)
(* that has reached its date, and the lists of those to come the others.   *)
(***************************************************************************)
THEOREM ListsTheorem == SettleSpec => []ListsAgree
<1>1. SettleInv => ListsAgree
  <2> SUFFICES ASSUME SettleInv, cron.pc = "done"
               PROVE  /\ {p \in Existing : /\ payment[p].due \notin Ahead
                                           /\ payment[p].paid < AmountDue[p]} \subseteq GetOverdue
                      /\ (GetDueToday \cup GetDueInNext7Days) \cap GetOverdue \subseteq patched
                      /\ \A p \in GetPendingSummary \ GetOverdue :
                            p \in GetDueInNext7Days \/ payment[p].due = "later"
    BY DEF ListsAgree
  <2>1. ASSUME NEW p \in Existing
        PROVE  /\ payment[p].due \in Days /\ payment[p].status \in Statuses
               /\ payment[p].paid < AmountDue[p] => payment[p].status # "PAID"
               /\ payment[p].status = "OVERDUE" => payment[p].due \notin Ahead
               /\ p \notin patched /\ payment[p].due \notin Ahead =>
                     payment[p].status \in {"PAID", "OVERDUE"}
               /\ p \in patched => payment[p].status # "UPCOMING"
    <3>1. p \in Payments /\ payment[p].exists /\ Inv
      BY DEF Existing, SettleInv
    <3>2. payment[p].due \in Days /\ payment[p].status \in Statuses
      BY <3>1 DEF Inv, TypeOK, PaymentDocs
    <3>3. payment[p].paid < AmountDue[p] => payment[p].status # "PAID"
      BY <3>1, OpenAmount
    <3>4. payment[p].status = "OVERDUE" => payment[p].due \notin Ahead
      BY <3>1 DEF Inv, StatusTruthful
    <3>5. p \notin patched /\ payment[p].due \notin Ahead =>
             payment[p].status \in {"PAID", "OVERDUE"}
      BY <3>1 DEF Inv, SweepThorough
    <3>. QED  BY <3>2, <3>3, <3>4, <3>5 DEF SettleInv, PatchedSet
  <2>. QED  BY <2>1 DEF GetOverdue, GetDueToday, GetDueInNext7Days, GetPendingSummary,
                        Ahead, Days, Statuses
<1>. QED  BY <1>1, SettleInvHolds, PTL
=============================================================================
