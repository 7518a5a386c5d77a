------------------------------ MODULE Deposits ------------------------------
(***************************************************************************)
(* The security deposit of a resident: created or overwritten by create-   *)
(* OrUpdate, marked received, refunded and patched, by several requests at *)
(* the same time.  That vacate refunds it belongs to Residency.            *)
(*                                                                         *)
(* The variables paid and taken and the fields behind, base and edited     *)
(* belong to the verification: a request has recorded the receipt of this  *)
(* deposit; one has since said that it is not received, or has overwritten *)
(* the receipt from a read before it; the amount a refund was computed     *)
(* from, none when the request gave the refund; a PATCH has written the    *)
(* status or the refund, other than through processRefund.                 *)
(***************************************************************************)
EXTENDS Integers

CONSTANTS
    Cashiers,   \* slots for requests in flight
    Sums        \* amounts

ASSUME DepositsAssumption == Sums \subseteq Nat

VARIABLES
    deposit,   \* the deposit
    till,      \* the requests in flight
    paid,      \* history: a receipt was recorded
    taken      \* history: the last receipt was taken back or overtaken

depositVars == <<deposit, till, paid, taken>>
-----------------------------------------------------------------------------
Said == {"yes", "no", "nothing"}   \* what a request says of received

Unsaid == -1   \* a refund amount that the request leaves to the service

Unmade == [status |-> "none", received |-> FALSE, amount |-> 0,
               refund |-> 0, deducted |-> 0, base |-> 0, edited |-> FALSE]

NoTill == [pc |-> "idle", says |-> "nothing", seen |-> FALSE, amount |-> 0,
           deducted |-> 0, asked |-> Unsaid, behind |-> FALSE]

DepositTypeOK ==
    /\ deposit \in [status : {"none", "HELD", "PARTIALLY_REFUNDED", "REFUNDED"},
                    received : BOOLEAN, amount : Sums \cup {0}, refund : Int,
                    deducted : Sums \cup {0}, base : Sums \cup {0, Unsaid},
                    edited : BOOLEAN]
    /\ till \in [Cashiers ->
          [pc : {"idle", "insert", "overwrite", "refund"}, says : Said,
           seen : BOOLEAN, amount : Sums \cup {0}, deducted : Sums \cup {0},
           asked : Sums \cup {0, Unsaid}, behind : BOOLEAN]]
    /\ paid \in BOOLEAN /\ taken \in BOOLEAN

DepositInit ==
    /\ deposit = Unmade
    /\ till = [c \in Cashiers |-> NoTill]
    /\ paid = FALSE /\ taken = FALSE

EndTill(c) == till' = [till EXCEPT ![c] = NoTill]

\* A receipt is recorded, and the requests that read before it are behind.
Receipt == /\ paid' = TRUE
           /\ taken' = FALSE

Behind(t) == IF t.pc = "overwrite" THEN [t EXCEPT !.behind = TRUE] ELSE t
-----------------------------------------------------------------------------
\* createOrUpdate reads the deposit of the resident.
CreateOrUpdate(c, says, amount) ==
    /\ till[c].pc = "idle"
    /\ till' = [till EXCEPT ![c] =
          [NoTill EXCEPT !.pc = IF deposit.status = "none" THEN "insert"
                                                           ELSE "overwrite",
                         !.says = says, !.amount = amount,
                         !.seen = deposit.received]]
    /\ UNCHANGED <<deposit, paid, taken>>

\* save() of a new deposit; the index refuses a second one.
InsertDeposit(c) ==
    /\ till[c].pc = "insert"
    /\ IF deposit.status # "none" THEN UNCHANGED <<deposit, paid, taken>>
       ELSE /\ deposit' = [Unmade EXCEPT !.status = "HELD",
                                             !.received = till[c].says = "yes",
                                             !.amount = till[c].amount]
            /\ IF till[c].says = "yes" THEN Receipt ELSE UNCHANGED <<paid, taken>>
    /\ EndTill(c)

\* What an overwriting request makes of received: what it says, or what it has
\* read.  The first form takes nothing said for a no.
ReceivedOrNot(c) == till[c].says = "yes"
Received(c) == IF till[c].says = "nothing" THEN till[c].seen
                                           ELSE till[c].says = "yes"

\* findByIdAndUpdate of createOrUpdate, which leaves the status alone.
OverwriteDeposit(c) ==
    /\ till[c].pc = "overwrite"
    /\ deposit' = [deposit EXCEPT !.received = Received(c),
                                  !.amount = till[c].amount]
    /\ paid' = (paid \/ till[c].says = "yes")
    /\ taken' = CASE till[c].says = "yes" -> FALSE
                  [] till[c].says = "no" -> TRUE
                  [] OTHER -> taken \/ till[c].behind
    /\ till' = [[d \in Cashiers |-> IF till[c].says = "yes" THEN Behind(till[d])
                                                            ELSE till[d]]
                EXCEPT ![c] = NoTill]

\* PATCH mark-received: one findOneAndUpdate.
MarkReceived ==
    /\ deposit.status # "none"
    /\ deposit' = [deposit EXCEPT !.received = TRUE]
    /\ Receipt
    /\ till' = [c \in Cashiers |-> Behind(till[c])]

\* PATCH: one findOneAndUpdate of the fields in the body.
UpdateDeposit(says, amount) ==
    /\ deposit.status # "none"
    /\ deposit' = [deposit EXCEPT !.amount = amount,
                                  !.received = IF says = "nothing" THEN @
                                               ELSE says = "yes"]
    /\ CASE says = "yes" -> Receipt
         [] says = "no" -> taken' = TRUE /\ UNCHANGED paid
         [] OTHER -> UNCHANGED <<paid, taken>>
    /\ till' = IF says = "yes" THEN [c \in Cashiers |-> Behind(till[c])] ELSE till

\* No DTO limits that body to the fields that are meant to be changed: the
\* status and the refund may be among them.  What the refund then is does not
\* matter here; a body with other fields as well is two of these steps.
EditDeposit(status) ==
    /\ deposit.status # "none"
    /\ deposit' = [deposit EXCEPT !.status = status, !.refund = 0, !.deducted = 0,
                                  !.base = 0, !.edited = TRUE]
    /\ UNCHANGED <<till, paid, taken>>

\* processRefund reads the deposit and refuses one that is not received; the
\* first form does not.
RefundsAny == deposit.status # "none"
Refunds    == deposit.received

ProcessRefund(c, deducted, asked) ==
    /\ till[c].pc = "idle"
    /\ Refunds
    /\ till' = [till EXCEPT ![c] =
          [NoTill EXCEPT !.pc = "refund", !.amount = deposit.amount,
                         !.deducted = deducted, !.asked = asked]]
    /\ UNCHANGED <<deposit, paid, taken>>

\* The refund the request asks for, or the amount it has read less the
\* deduction.
WriteRefund(c) ==
    /\ till[c].pc = "refund"
    /\ LET t == till[c]
           back == IF t.asked = Unsaid THEN t.amount - t.deducted ELSE t.asked IN
       deposit' = [deposit EXCEPT
          !.status = IF t.deducted > 0 /\ back < t.amount
                     THEN "PARTIALLY_REFUNDED" ELSE "REFUNDED",
          !.refund = back, !.deducted = t.deducted,
          !.base = IF t.asked = Unsaid THEN t.amount ELSE Unsaid,
          !.edited = FALSE]
    /\ EndTill(c)
    /\ UNCHANGED <<paid, taken>>

\* A database call is rejected, or the process stops.
LoseTill(c) ==
    /\ till[c].pc # "idle"
    /\ EndTill(c)
    /\ UNCHANGED <<deposit, paid, taken>>

DepositNext ==
    \/ \E c \in Cashiers :
          \/ \E says \in Said, amount \in Sums : CreateOrUpdate(c, says, amount)
          \/ \E deducted \in Sums \cup {0}, asked \in Sums \cup {0, Unsaid} :
                ProcessRefund(c, deducted, asked)
          \/ InsertDeposit(c) \/ OverwriteDeposit(c) \/ WriteRefund(c)
          \/ LoseTill(c)
    \/ MarkReceived
    \/ \E says \in Said, amount \in Sums : UpdateDeposit(says, amount)
    \/ \E s \in {"HELD", "PARTIALLY_REFUNDED", "REFUNDED"} : EditDeposit(s)

DepositSpec == DepositInit /\ [][DepositNext]_depositVars
-----------------------------------------------------------------------------
\* What the dashboard adds up as held: a partly refunded deposit counts with
\* what is left of it, unless nothing was paid back.  The first form counts it
\* with what was paid back.
Shown == deposit.received /\ deposit.status \in {"HELD", "PARTIALLY_REFUNDED"}
Partly == deposit.status = "PARTIALLY_REFUNDED" /\ deposit.refund # 0
HeldSwapped == IF ~Shown THEN 0 ELSE IF Partly THEN deposit.refund
                                               ELSE deposit.amount
TotalHeld   == IF ~Shown THEN 0
               ELSE IF Partly THEN deposit.amount - deposit.refund
                              ELSE deposit.amount

(* Properties *)

\* A receipt stands: a deposit that was paid counts as not received only when
\* a request has said so, or when createOrUpdate, saying nothing of it, writes
\* back what it had read before the receipt.
ReceiptStands == paid /\ ~taken => deposit.received

\* Nothing is refunded that was never paid, whatever requests come between the
\* check and the refund; only a PATCH can say otherwise, which checks nothing.
RefundBacked ==
    deposit.status \in {"PARTIALLY_REFUNDED", "REFUNDED"} => paid \/ deposit.edited

\* What was paid back and what the dashboard shows as held make up the deposit,
\* unless its amount was changed after the refund was computed, more was
\* deducted than there was, or a request set the refund itself.
MoneyAccounted ==
    /\ deposit.received /\ ~deposit.edited
    /\ deposit.status # "HELD" =>
          deposit.base = deposit.amount /\ deposit.deducted <= deposit.amount
    => TotalHeld + deposit.refund = deposit.amount
=============================================================================
