--------------------------- MODULE DepositsProofs ---------------------------
(* Proofs about Deposits, for every set of amounts and every number of
   requests in flight.                                                      *)
EXTENDS Deposits, TLAPS

DepositStates ==
    [status : {"none", "HELD", "PARTIALLY_REFUNDED", "REFUNDED"},
     received : BOOLEAN, amount : Sums \cup {0}, refund : Int,
     deducted : Sums \cup {0}, base : Sums \cup {0, Unsaid}, edited : BOOLEAN]

TillStates ==
    [pc : {"idle", "insert", "overwrite", "refund"}, says : Said,
     seen : BOOLEAN, amount : Sums \cup {0}, deducted : Sums \cup {0},
     asked : Sums \cup {0, Unsaid}, behind : BOOLEAN]

\* The statuses a PATCH may give.
Refundable == {"HELD", "PARTIALLY_REFUNDED", "REFUNDED"}

\* What a request may rely on until its write: no deposit is read before there
\* is one, a request that read a receipt or may refund follows a receipt, and
\* one that says nothing of the receipt and is not behind has read the last.
TillOK(c) ==
    /\ till[c].pc = "overwrite" => deposit.status # "none"
    /\ till[c].seen => paid
    /\ till[c].pc = "refund" => paid
    /\ till[c].pc = "overwrite" /\ till[c].says = "nothing" /\ ~till[c].behind =>
          (paid /\ ~taken => till[c].seen)

\* What the deposit says of the receipt and of the refund is backed by one.
RecordOK ==
    /\ deposit.received => paid
    /\ RefundBacked
    /\ ReceiptStands

\* A refund that the service computed is the rest of what it read, as long as
\* no PATCH writes over it.
AmountsOK ==
    /\ deposit.status = "none" => ~deposit.received
    /\ deposit.status = "HELD" /\ ~deposit.edited => deposit.refund = 0
    /\ deposit.status \in {"PARTIALLY_REFUNDED", "REFUNDED"} /\ deposit.base # Unsaid
       /\ ~deposit.edited =>
          /\ deposit.refund = deposit.base - deposit.deducted
          /\ deposit.status = "REFUNDED" => deposit.deducted = 0

DepositInv ==
    /\ DepositTypeOK
    /\ \A c \in Cashiers : TillOK(c)
    /\ RecordOK
    /\ AmountsOK
-----------------------------------------------------------------------------
LEMMA TypeParts ==
    /\ DepositTypeOK <=> /\ deposit \in DepositStates
                         /\ till \in [Cashiers -> TillStates]
                         /\ paid \in BOOLEAN /\ taken \in BOOLEAN
    /\ DepositTypeOK' <=> /\ deposit' \in DepositStates
                          /\ till' \in [Cashiers -> TillStates]
                          /\ paid' \in BOOLEAN /\ taken' \in BOOLEAN
BY DEF DepositTypeOK, DepositStates, TillStates

LEMMA FirstStates == Unmade \in DepositStates /\ NoTill \in TillStates
BY DEF Unmade, DepositStates, NoTill, TillStates, Said, Unsaid

LEMMA Amounts ==
    ASSUME NEW n \in Sums \cup {0}
    PROVE  n \in Nat
BY DepositsAssumption

LEMMA DepositInitInv == DepositInit => DepositInv
<1> SUFFICES ASSUME DepositInit PROVE DepositInv
  OBVIOUS
<1>1. DepositTypeOK
  BY TypeParts, FirstStates DEF DepositInit
<1>2. \A c \in Cashiers : TillOK(c)
  BY DEF DepositInit, TillOK, NoTill
<1>. QED  BY <1>1, <1>2 DEF DepositInit, DepositInv, RecordOK, AmountsOK,
             RefundBacked, ReceiptStands, Unmade

\* A slot that ends, and slots that fall behind, keep their type.
LEMMA TillEnds ==
    ASSUME till \in [Cashiers -> TillStates], NEW c \in Cashiers, EndTill(c)
    PROVE  till' \in [Cashiers -> TillStates]
BY FirstStates DEF EndTill

LEMMA BehindType ==
    ASSUME NEW t \in TillStates
    PROVE  Behind(t) \in TillStates
BY DEF Behind, TillStates

LEMMA TypeStep == DepositTypeOK /\ DepositNext => DepositTypeOK'
<1> SUFFICES ASSUME DepositTypeOK, DepositNext PROVE DepositTypeOK'
  OBVIOUS
<1>t. /\ deposit \in DepositStates /\ till \in [Cashiers -> TillStates]
      /\ paid \in BOOLEAN /\ taken \in BOOLEAN
  BY TypeParts
<1>1. ASSUME NEW c \in Cashiers, NEW says \in Said, NEW amount \in Sums,
             CreateOrUpdate(c, says, amount)
      PROVE  DepositTypeOK'
  <2>1. deposit.received \in BOOLEAN
    BY <1>t DEF DepositStates
  <2>2. till' \in [Cashiers -> TillStates]
    BY <1>t, <1>1, <2>1 DEF CreateOrUpdate, NoTill, TillStates, Unsaid
  <2>. QED  BY <1>t, <1>1, <2>2, TypeParts DEF CreateOrUpdate
<1>2. ASSUME NEW c \in Cashiers, NEW deducted \in Sums \cup {0},
             NEW asked \in Sums \cup {0, Unsaid}, ProcessRefund(c, deducted, asked)
      PROVE  DepositTypeOK'
  <2>1. deposit.amount \in Sums \cup {0}
    BY <1>t DEF DepositStates
  <2>2. till' \in [Cashiers -> TillStates]
    BY <1>t, <1>2, <2>1 DEF ProcessRefund, NoTill, TillStates, Said
  <2>. QED  BY <1>t, <1>2, <2>2, TypeParts DEF ProcessRefund
<1>3. ASSUME NEW c \in Cashiers, InsertDeposit(c) PROVE DepositTypeOK'
  <2>1. till' \in [Cashiers -> TillStates]
    BY <1>t, <1>3, TillEnds DEF InsertDeposit
  <2>2. till[c].amount \in Sums \cup {0}
    BY <1>t DEF TillStates
  <2>3. deposit' \in DepositStates
    BY <1>t, <1>3, <2>2, FirstStates DEF InsertDeposit, DepositStates
  <2>4. paid' \in BOOLEAN /\ taken' \in BOOLEAN
    BY <1>t, <1>3 DEF InsertDeposit, Receipt
  <2>. QED  BY <2>1, <2>3, <2>4, TypeParts
<1>4. ASSUME NEW c \in Cashiers, OverwriteDeposit(c) PROVE DepositTypeOK'
  <2>1. till[c].amount \in Sums \cup {0} /\ Received(c) \in BOOLEAN
    BY <1>t DEF TillStates, Received
  <2>2. deposit' \in DepositStates
    BY <1>t, <1>4, <2>1 DEF OverwriteDeposit, DepositStates
  <2>3. paid' \in BOOLEAN /\ taken' \in BOOLEAN
    BY <1>t, <1>4 DEF OverwriteDeposit
  <2>4. till' \in [Cashiers -> TillStates]
    BY <1>t, <1>4, BehindType, FirstStates DEF OverwriteDeposit
  <2>. QED  BY <2>2, <2>3, <2>4, TypeParts
<1>5. ASSUME NEW c \in Cashiers, WriteRefund(c) PROVE DepositTypeOK'
  <2> DEFINE back == IF till[c].asked = Unsaid
                     THEN till[c].amount - till[c].deducted ELSE till[c].asked
             base == IF till[c].asked = Unsaid THEN till[c].amount ELSE Unsaid
  <2>1. /\ till[c].amount \in Sums \cup {0} /\ till[c].deducted \in Sums \cup {0}
        /\ till[c].asked \in Sums \cup {0, Unsaid}
    BY <1>t DEF TillStates
  <2>2. back \in Int /\ base \in Sums \cup {0, Unsaid}
    <3>1. CASE till[c].asked = Unsaid
      BY <2>1, <3>1, Amounts
    <3>2. CASE till[c].asked # Unsaid
      BY <2>1, <3>2, Amounts
    <3>. QED  BY <3>1, <3>2
  <2>3. deposit' = [deposit EXCEPT
            !.status = IF till[c].deducted > 0 /\ back < till[c].amount
                       THEN "PARTIALLY_REFUNDED" ELSE "REFUNDED",
            !.refund = back, !.deducted = till[c].deducted, !.base = base,
            !.edited = FALSE]
    BY <1>5 DEF WriteRefund
  <2> HIDE DEF back, base
  <2>4. deposit' \in DepositStates
    BY <1>t, <2>1, <2>2, <2>3 DEF DepositStates
  <2>5. till' \in [Cashiers -> TillStates]
    BY <1>t, <1>5, TillEnds DEF WriteRefund
  <2>. QED  BY <1>t, <1>5, <2>4, <2>5, TypeParts DEF WriteRefund
<1>6. ASSUME NEW c \in Cashiers, LoseTill(c) PROVE DepositTypeOK'
  BY <1>t, <1>6, TillEnds, TypeParts DEF LoseTill
<1>7. ASSUME MarkReceived PROVE DepositTypeOK'
  <2>1. deposit' \in DepositStates
    BY <1>t, <1>7 DEF MarkReceived, DepositStates
  <2>2. till' \in [Cashiers -> TillStates]
    BY <1>t, <1>7, BehindType DEF MarkReceived
  <2>. QED  BY <1>7, <2>1, <2>2, TypeParts DEF MarkReceived, Receipt
<1>8. ASSUME NEW says \in Said, NEW amount \in Sums, UpdateDeposit(says, amount)
      PROVE  DepositTypeOK'
  <2>1. deposit' \in DepositStates
    <3>1. deposit.received \in BOOLEAN
      BY <1>t DEF DepositStates
    <3>2. (IF says = "nothing" THEN deposit.received ELSE says = "yes") \in BOOLEAN
      BY <3>1
    <3>. QED  BY <1>t, <1>8, <3>2 DEF UpdateDeposit, DepositStates
  <2>2. till' \in [Cashiers -> TillStates]
    BY <1>t, <1>8, BehindType DEF UpdateDeposit
  <2>3. paid' \in BOOLEAN /\ taken' \in BOOLEAN
    BY <1>t, <1>8 DEF UpdateDeposit, Receipt
  <2>. QED  BY <2>1, <2>2, <2>3, TypeParts
<1>9. ASSUME NEW s \in Refundable, EditDeposit(s) PROVE DepositTypeOK'
  <2>1. deposit' \in DepositStates
    <3>1. deposit' = [status |-> s, received |-> deposit.received,
                      amount |-> deposit.amount, refund |-> 0, deducted |-> 0,
                      base |-> 0, edited |-> TRUE]
      BY <1>t, <1>9 DEF EditDeposit, DepositStates
    <3>2. deposit.received \in BOOLEAN /\ deposit.amount \in Sums \cup {0}
      BY <1>t DEF DepositStates
    <3>. QED  BY <3>1, <3>2 DEF DepositStates, Refundable
  <2>. QED  BY <1>t, <1>9, <2>1, TypeParts DEF EditDeposit
<1>. QED  BY <1>1, <1>2, <1>3, <1>4, <1>5, <1>6, <1>7, <1>8, <1>9 DEF DepositNext, Refundable
-----------------------------------------------------------------------------
(* Receipts: what a request does to its own slot and to the others'. *)

LEMMA ReceiptStep ==
    ASSUME DepositInv, DepositNext
    PROVE  RecordOK' /\ \A c \in Cashiers : TillOK(c)'
<1>t. DepositTypeOK /\ RecordOK /\ \A c \in Cashiers : TillOK(c)
  BY DEF DepositInv
<1> DEFINE Goal == RecordOK' /\ \A c \in Cashiers : TillOK(c)'
<1> USE DEF DepositTypeOK, RecordOK, TillOK, RefundBacked, ReceiptStands,
            EndTill, NoTill
<1>1. ASSUME NEW c \in Cashiers, NEW says \in Said, NEW amount \in Sums,
             CreateOrUpdate(c, says, amount)
      PROVE  Goal
  BY <1>t, <1>1 DEF CreateOrUpdate
<1>2. ASSUME NEW c \in Cashiers, NEW deducted \in Sums \cup {0},
             NEW asked \in Sums \cup {0, Unsaid}, ProcessRefund(c, deducted, asked)
      PROVE  Goal
  BY <1>t, <1>2 DEF ProcessRefund, Refunds
<1>3. ASSUME NEW c \in Cashiers, InsertDeposit(c) PROVE Goal
  <2>1. CASE deposit.status # "none"
    BY <1>t, <1>3, <2>1 DEF InsertDeposit
  <2>2. CASE deposit.status = "none"
    <3>1. /\ deposit'.status = "HELD"
          /\ deposit'.received = (till[c].says = "yes")
          /\ IF till[c].says = "yes" THEN paid' = TRUE /\ taken' = FALSE
                                     ELSE UNCHANGED <<paid, taken>>
      BY <1>3, <2>2 DEF InsertDeposit, Unmade, Receipt
    <3>2. ~(paid /\ ~taken)
      BY <1>t, <2>2 DEF DepositInv, AmountsOK
    <3>3. \A d \in Cashiers : till[d].pc # "overwrite"
      BY <1>t, <2>2
    <3>4. \A d \in Cashiers : till'[d] = till[d] \/ till'[d] = NoTill
      BY <1>3 DEF InsertDeposit
    <3>5. RecordOK'
      BY <1>t, <2>2, <3>1, <3>2
    <3>6. ASSUME NEW d \in Cashiers PROVE TillOK(d)'
      BY <1>t, <3>1, <3>3, <3>4
    <3>. QED  BY <3>5, <3>6
  <2>. QED  BY <2>1, <2>2
<1>4. ASSUME NEW c \in Cashiers, OverwriteDeposit(c) PROVE Goal
  <2>1. CASE till[c].says = "yes"
    BY <1>t, <1>4, <2>1 DEF OverwriteDeposit, Received, Behind
  <2>2. CASE till[c].says = "no"
    BY <1>t, <1>4, <2>2 DEF OverwriteDeposit, Received
  <2>3. CASE till[c].says = "nothing"
    BY <1>t, <1>4, <2>3 DEF OverwriteDeposit, Received
  <2>. QED  BY <1>t, <2>1, <2>2, <2>3 DEF Said
<1>5. ASSUME NEW c \in Cashiers, WriteRefund(c) PROVE Goal
  BY <1>t, <1>5 DEF WriteRefund
<1>6. ASSUME NEW c \in Cashiers, LoseTill(c) PROVE Goal
  BY <1>t, <1>6 DEF LoseTill
<1>7. ASSUME MarkReceived PROVE Goal
  BY <1>t, <1>7 DEF MarkReceived, Receipt, Behind
<1>8. ASSUME NEW says \in Said, NEW amount \in Sums, UpdateDeposit(says, amount)
      PROVE  Goal
  <2>1. CASE says = "yes"
    BY <1>t, <1>8, <2>1 DEF UpdateDeposit, Receipt, Behind
  <2>2. CASE says = "no"
    BY <1>t, <1>8, <2>2 DEF UpdateDeposit
  <2>3. CASE says = "nothing"
    BY <1>t, <1>8, <2>3 DEF UpdateDeposit
  <2>. QED  BY <1>8, <2>1, <2>2, <2>3 DEF Said
<1>9. ASSUME NEW s \in Refundable, EditDeposit(s) PROVE Goal
  BY <1>t, <1>9 DEF EditDeposit, Refundable
<1>. QED  BY <1>1, <1>2, <1>3, <1>4, <1>5, <1>6, <1>7, <1>8, <1>9 DEF DepositNext, Refundable
-----------------------------------------------------------------------------
(* Amounts *)

LEMMA AmountStep ==
    ASSUME DepositInv, DepositNext
    PROVE  AmountsOK'
<1>t. DepositTypeOK /\ AmountsOK /\ \A c \in Cashiers : TillOK(c)
  BY DEF DepositInv
<1> USE DEF AmountsOK, DepositTypeOK
<1>1. ASSUME UNCHANGED deposit PROVE AmountsOK'
  BY <1>t, <1>1
<1>2. ASSUME NEW c \in Cashiers, InsertDeposit(c) PROVE AmountsOK'
  BY <1>t, <1>2 DEF InsertDeposit, Unmade
<1>3. ASSUME NEW c \in Cashiers, OverwriteDeposit(c) PROVE AmountsOK'
  BY <1>t, <1>3 DEF OverwriteDeposit, TillOK
<1>4. ASSUME NEW c \in Cashiers, WriteRefund(c) PROVE AmountsOK'
  <2> DEFINE t    == till[c]
             back == IF t.asked = Unsaid THEN t.amount - t.deducted ELSE t.asked
  <2>1. t.amount \in Nat /\ t.deducted \in Nat
    BY <1>t, Amounts
  <2>2. /\ deposit'.status = IF t.deducted > 0 /\ back < t.amount
                             THEN "PARTIALLY_REFUNDED" ELSE "REFUNDED"
        /\ deposit'.refund = back /\ deposit'.deducted = t.deducted
        /\ deposit'.base = IF t.asked = Unsaid THEN t.amount ELSE Unsaid
    BY <1>t, <1>4 DEF WriteRefund
  <2>3. CASE t.asked = Unsaid
    BY <2>1, <2>2, <2>3
  <2>4. CASE t.asked # Unsaid
    BY <2>2, <2>4
  <2>. QED  BY <2>3, <2>4
<1>5. ASSUME MarkReceived PROVE AmountsOK'
  BY <1>t, <1>5 DEF MarkReceived
<1>6. ASSUME NEW says \in Said, NEW amount \in Sums, UpdateDeposit(says, amount)
      PROVE  AmountsOK'
  BY <1>t, <1>6 DEF UpdateDeposit
<1>7. ASSUME NEW s \in Refundable, EditDeposit(s) PROVE AmountsOK'
  BY <1>t, <1>7 DEF EditDeposit, Refundable
<1>. QED  BY <1>1, <1>2, <1>3, <1>4, <1>5, <1>6, <1>7
          DEF DepositNext, Refundable, CreateOrUpdate, ProcessRefund, LoseTill
-----------------------------------------------------------------------------
LEMMA DepositStepInv == DepositInv /\ [DepositNext]_depositVars => DepositInv'
<1> SUFFICES ASSUME DepositInv, [DepositNext]_depositVars PROVE DepositInv'
  OBVIOUS
<1>1. CASE DepositNext
  BY <1>1, TypeStep, ReceiptStep, AmountStep DEF DepositInv
<1>2. CASE UNCHANGED depositVars
  BY <1>2 DEF depositVars, DepositInv, DepositTypeOK, TillOK, RecordOK, AmountsOK,
     RefundBacked, ReceiptStands
<1>. QED  BY <1>1, <1>2

LEMMA DepositInvHolds == DepositSpec => []DepositInv
BY DepositInitInv, DepositStepInv, PTL DEF DepositSpec

\* A recorded receipt of a deposit stays, unless a request has said otherwise
\* or has written back what it read before (createOrUpdate).
THEOREM ReceiptTheorem == DepositSpec => []ReceiptStands
<1>1. DepositInv => ReceiptStands
  BY DEF DepositInv, RecordOK
<1>. QED  BY <1>1, DepositInvHolds, PTL

\* processRefund gives nothing back of a deposit that was never received: it is
\* a PATCH that has written so.
THEOREM RefundTheorem == DepositSpec => []RefundBacked
<1>1. DepositInv => RefundBacked
  BY DEF DepositInv, RecordOK
<1>. QED  BY <1>1, DepositInvHolds, PTL

\* What processRefund has computed and what the dashboard shows as held make
\* up the deposit.
THEOREM MoneyTheorem == DepositSpec => []MoneyAccounted
<1>1. DepositInv => MoneyAccounted
  <2> SUFFICES ASSUME DepositInv, deposit.received, ~deposit.edited,
                      deposit.status # "HELD" => deposit.base = deposit.amount
               PROVE  TotalHeld + deposit.refund = deposit.amount
    BY DEF MoneyAccounted
  <2>2. AmountsOK
    BY DEF DepositInv
  <2>1. /\ deposit.amount \in Nat /\ deposit.refund \in Int
        /\ deposit.deducted \in Nat
        /\ deposit.status \in {"HELD", "PARTIALLY_REFUNDED", "REFUNDED"}
    <3>1. /\ deposit.amount \in Sums \cup {0} /\ deposit.deducted \in Sums \cup {0}
          /\ deposit.refund \in Int
          /\ deposit.status \in {"none", "HELD", "PARTIALLY_REFUNDED", "REFUNDED"}
      BY DEF DepositInv, DepositTypeOK
    <3>. QED  BY <2>2, <3>1, Amounts DEF AmountsOK
  <2>3. CASE deposit.status = "HELD"
    BY <2>1, <2>2, <2>3 DEF AmountsOK, TotalHeld, Shown, Partly
  <2>4. CASE deposit.status \in {"PARTIALLY_REFUNDED", "REFUNDED"}
    <3>1. /\ deposit.refund = deposit.amount - deposit.deducted
          /\ deposit.status = "REFUNDED" => deposit.deducted = 0
      BY <2>1, <2>2, <2>4 DEF AmountsOK, Unsaid
    <3>. QED  BY <2>1, <2>4, <3>1 DEF TotalHeld, Shown, Partly
  <2>. QED  BY <2>1, <2>3, <2>4
<1>. QED  BY <1>1, DepositInvHolds, PTL
=============================================================================
