\* The cron, a request and a settlement or a list that reads the payments
\* query by query, with failures.
SPECIFICATION SettleSpec
CONSTANTS
    m1 = m1  m2 = m2  j1 = j1
    Payments = {m1, m2}
    Current = m2
    Requests = {j1}
    AmountDue <- MCAmountDue
    Amounts <- MCAmounts
    NoPayment = NoPayment
    Ops <- AllOps
INVARIANTS StatusTruthful SweepThorough Inv PendingCounted ListsAgree
PROPERTIES OverdueFound
