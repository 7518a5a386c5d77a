------------------------------- MODULE Figures -------------------------------
(***************************************************************************)
(* The figures of the dashboard and of the stats endpoints.  Most reports  *)
(* are several queries, one after the other or in parallel, over           *)
(* collections that single-document requests write meanwhile: complaints,  *)
(* visitors, assets, staff and payments here, the others in modules of     *)
(* their own.  The collections do not meet, so a behaviour is about one.   *)
(*                                                                         *)
(* The field writes of the report belongs to the verification: how many    *)
(* writes there were since its first query.                                *)
(***************************************************************************)
EXTENDS Integers, FiniteSets

CONSTANTS
    Entries,    \* ids of documents
    MaxWrites   \* bound on the writes during a report

ASSUME FigureAssumption == IsFiniteSet(Entries) /\ MaxWrites \in Nat

VARIABLES
    subject,   \* the collection the behaviour is about
    entry,     \* its documents
    report     \* the report under way

figureVars == <<subject, entry, report>>
-----------------------------------------------------------------------------
\* The statuses of each collection; a staff member has none.  Of a payment,
\* "failed" and "refunded" are left out: the reports put them where they put
\* "pending", in none of the parts.
ComplaintStatuses == {"open", "in_progress", "resolved", "closed"}
AssetStatuses     == {"WORKING", "REPAIR", "REPLACED", "DISPOSED"}
PaymentStatuses   == {"PAID", "PARTIAL", "DUE", "OVERDUE", "pending", "completed"}
StatusesOf ==
    [complaints |-> ComplaintStatuses,
     visitors   |-> {"in", "out"},
     assets     |-> AssetStatuses,
     staff      |-> {"hired"},
     payments   |-> PaymentStatuses,
     beds       |-> {"AVAILABLE", "OCCUPIED", "MAINTENANCE"},
     rent       |-> {"UPCOMING", "DUE", "PARTIAL", "PAID", "OVERDUE"},
     residents  |-> {"ACTIVE", "NOTICE_GIVEN", "VACATED", "SUSPENDED"}]

\* The mark of a document: a visit of today, an asset whose maintenance date
\* has come, an active staff member; of no use in the other collections.
Marks == IF subject \in {"visitors", "assets", "staff"} THEN BOOLEAN ELSE {FALSE}

Absent == [status |-> "none", mark |-> FALSE]

Report == [done |-> {}, figures |-> << >>, writes |-> 0]

FigureTypeOK ==
    /\ subject \in DOMAIN StatusesOf
    /\ entry \in [Entries -> {Absent} \cup
                             [status : StatusesOf[subject], mark : Marks]]
    /\ report.writes \in 0 .. MaxWrites

FigureInit ==
    /\ subject \in DOMAIN StatusesOf
    /\ entry = [e \in Entries |-> Absent]
    /\ report = Report

All     == {e \in Entries : entry[e] # Absent}
With(s) == {e \in Entries : entry[e].status \in s}
Marked  == {e \in All : entry[e].mark}
-----------------------------------------------------------------------------
(* Writers: each is one call that writes one document.                     *)

Put(e, s, m) ==
    /\ report.done # {} => report.writes < MaxWrites
    /\ s \in StatusesOf[subject] /\ m \in Marks
    /\ entry' = [entry EXCEPT ![e] = [status |-> s, mark |-> m]]
    /\ report' = IF report.done = {} THEN report
                 ELSE [report EXCEPT !.writes = @ + 1]
    /\ UNCHANGED subject

Drop(e) ==
    /\ entry[e] # Absent
    /\ report.done # {} => report.writes < MaxWrites
    /\ entry' = [entry EXCEPT ![e] = Absent]
    /\ report' = IF report.done = {} THEN report
                 ELSE [report EXCEPT !.writes = @ + 1]
    /\ UNCHANGED subject

New(e) == entry[e] = Absent

ComplaintCreate(e, s) == subject = "complaints" /\ New(e) /\ Put(e, s, FALSE)
ComplaintUpdate(e, s) == subject = "complaints" /\ ~New(e) /\ Put(e, s, FALSE)
ComplaintRemove(e)    == subject = "complaints" /\ Drop(e)

VisitorCreate(e, m) == subject = "visitors" /\ New(e) /\ Put(e, "in", m)
VisitorUpdate(e, s, m) ==
    /\ subject = "visitors" /\ ~New(e)
    /\ s \in {entry[e].status, "out"}
    /\ Put(e, s, m)
VisitorCheckOut(e) ==
    subject = "visitors" /\ ~New(e) /\ Put(e, "out", entry[e].mark)
VisitorRemove(e) == subject = "visitors" /\ Drop(e)

AssetCreate(e, s, m) == subject = "assets" /\ New(e) /\ Put(e, s, m)
AssetUpdate(e, s, m) == subject = "assets" /\ ~New(e) /\ Put(e, s, m)
AssetRemove(e)       == subject = "assets" /\ Drop(e)

StaffJoins(e, s, m)  == subject = "staff" /\ New(e) /\ Put(e, s, m)
StaffChanges(e, s, m) == subject = "staff" /\ ~New(e) /\ Put(e, s, m)
StaffLeaves(e)       == subject = "staff" /\ Drop(e)

\* The status of a new payment: of a monthly one it tells the amounts, where
\* an amount of zero counts as not given and is the whole sum; any other has
\* the status it is given, or is pending.
AmountOr(given, amount) == IF given = 0 THEN amount ELSE given
MonthlyStatus(amount, due, paid, late) ==
    LET owes == AmountOr(due, amount)  pays == AmountOr(paid, amount) IN
    IF pays >= owes THEN "PAID"
    ELSE IF late THEN "OVERDUE" ELSE IF pays > 0 THEN "PARTIAL" ELSE "DUE"

PaymentCreate(e) ==
    /\ subject = "payments" /\ New(e)
    /\ \/ \E amount, due, paid \in 0 .. 2, late \in BOOLEAN :
             Put(e, MonthlyStatus(amount, due, paid, late), FALSE)
       \/ \E s \in PaymentStatuses : Put(e, s, FALSE)
PaymentUpdate(e, s) == subject = "payments" /\ ~New(e) /\ Put(e, s, FALSE)
PaymentRemove(e)    == subject = "payments" /\ Drop(e)

\* What the requests of the other modules write.
WrittenElsewhere(e, s) ==
    subject \in {"beds", "rent", "residents"} /\ (Put(e, s, FALSE) \/ Drop(e))
-----------------------------------------------------------------------------
(* The reports: their queries, each with the figures taken from it.         *)

AssetStats ==
    <<[total |-> All], [working |-> With({"WORKING"})],
      [repair |-> With({"REPAIR"})],
      [maintenanceDue |-> Marked \ With({"DISPOSED"})]>>

\* The third query is an aggregate.  It compares the id of the tenant as it came,
\* as text, with the ids of the documents, and finds none: no role is counted.
NoFigures  == << >>
StaffStats == <<[total |-> All], [active |-> Marked], NoFigures>>

\* The first form takes pending for what the last sum of this report does.
PaymentStatsSummed ==
    <<[total |-> All], [paid |-> With({"PAID", "completed"})],
      [pending |-> With({"DUE", "PARTIAL", "OVERDUE"})],
      [overdue |-> With({"OVERDUE"})]>>
PaymentStats ==
    <<[total |-> All], [paid |-> With({"PAID", "completed"})],
      [pending |-> With({"DUE", "PARTIAL"})],
      [overdue |-> With({"OVERDUE"})]>>

BedStats ==
    <<[total |-> All], [available |-> With({"AVAILABLE"})],
      [occupied |-> With({"OCCUPIED"})],
      [maintenance |-> With({"MAINTENANCE"})]>>

\* findAll of complaints and of visitors: one query.
ComplaintsFound == All
VisitorsFound   == Marked

ComplaintFigures ==
    <<[total |-> ComplaintsFound, open |-> ComplaintsFound \cap With({"open"})]>>

VisitorsToday == <<[total |-> VisitorsFound, today |-> VisitorsFound \cap Marked]>>

\* What the dashboard asks for itself: the residents in one query, the rent
\* payments in three.
ResidentFigures ==
    <<[total |-> All, active |-> With({"ACTIVE"}),
       vacated |-> With({"VACATED"}),
       becomingAvailable |-> With({"NOTICE_GIVEN"})]>>
RentFigures ==
    <<[total |-> All, paid |-> With({"PAID"})],
      [pending |-> With({"DUE", "PARTIAL", "OVERDUE"})],
      [late |-> With({"OVERDUE"})]>>

Queries ==
    CASE subject = "assets"     -> AssetStats
      [] subject = "staff"      -> StaffStats
      [] subject = "payments"   -> PaymentStats
      [] subject = "beds"       -> BedStats
      [] subject = "complaints" -> ComplaintFigures
      [] subject = "visitors"   -> VisitorsToday
      [] subject = "residents"  -> ResidentFigures
      [] subject = "rent"       -> RentFigures

\* A stats endpoint asks in order, the dashboard's Promise.all in any.
Ready(k) == subject # "rent" => \A i \in 1 .. k - 1 : i \in report.done

Ask(k) ==
    /\ k \in DOMAIN Queries \ report.done
    /\ Ready(k)
    /\ report' = [report EXCEPT
          !.done = @ \cup {k},
          !.figures = [n \in DOMAIN @ \cup DOMAIN Queries[k] |->
                         IF n \in DOMAIN Queries[k]
                         THEN Cardinality(Queries[k][n]) ELSE @[n]]]
    /\ UNCHANGED <<subject, entry>>

\* The report is answered, or a query is rejected.
EndReport ==
    /\ report.done # {}
    /\ report' = Report
    /\ UNCHANGED <<subject, entry>>

FigureNext ==
    \/ \E e \in Entries :
          \/ ComplaintRemove(e) \/ VisitorRemove(e) \/ AssetRemove(e)
          \/ StaffLeaves(e) \/ PaymentRemove(e) \/ PaymentCreate(e)
          \/ VisitorCheckOut(e)
    \/ \E e \in Entries, m \in Marks : VisitorCreate(e, m)
    \/ \E e \in Entries, s \in StatusesOf[subject] :
          \/ ComplaintCreate(e, s) \/ ComplaintUpdate(e, s)
          \/ PaymentUpdate(e, s) \/ WrittenElsewhere(e, s)
    \/ \E e \in Entries, s \in StatusesOf[subject], m \in Marks :
          \/ AssetCreate(e, s, m) \/ AssetUpdate(e, s, m)
          \/ StaffJoins(e, s, m) \/ StaffChanges(e, s, m)
          \/ VisitorUpdate(e, s, m)
    \/ \E k \in 1 .. 4 : Ask(k)
    \/ EndReport

FigureSpec == FigureInit /\ [][FigureNext]_figureVars
-----------------------------------------------------------------------------
(* Properties *)

\* The sum of the parts of a report, when the figures are those of g.  Of the
\* beds the parts are all there is, of the others some of it.
Whole == {"beds"}
PartsSum(s, g) ==
    CASE s = "beds"       -> g["available"] + g["occupied"] + g["maintenance"]
      [] s = "staff"      -> g["active"]
      [] s = "complaints" -> g["open"]
      [] s = "assets"     -> g["working"] + g["repair"]
      [] s = "payments"   -> g["paid"] + g["pending"] + g["overdue"]
      [] s = "residents"  -> g["active"] + g["vacated"] + g["becomingAvailable"]
      [] s = "rent"       -> g["paid"] + g["pending"]
      [] s = "visitors"   -> g["today"]

\* The parts exceed the total by no more than the writes, and fall short of it
\* by no more where they are all of it.
Balanced(s, g, writes) ==
    /\ PartsSum(s, g) <= g["total"] + writes
    /\ s \in Whole => g["total"] <= PartsSum(s, g) + writes

\* The parts of a report fit its total, though they are counted one after the
\* other while the documents change: a write in between moves the sum by one at
\* most.  So what is left over, such as the staff who are not active, is below
\* zero by no more than the writes, and of the beds nothing is left over.
PartsAddUp ==
    report.done = DOMAIN Queries =>
        Balanced(subject, report.figures, report.writes)
=============================================================================
