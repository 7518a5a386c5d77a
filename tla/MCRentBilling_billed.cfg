\* Nights, and settlements that read: nothing is ever billed.
SPECIFICATION SettleSpec
CONSTANTS
    m1 = m1  m2 = m2  j1 = j1
    Payments = {m1, m2}
    Current = m2
    Requests = {j1}
    AmountDue <- MCAmountDue
    Amounts <- MCAmounts
    NoPayment = NoPayment
    Ops = {}
PROPERTIES RentBilled
