--------------------------- MODULE MCRentBilling ---------------------------
(* Constants for checking RentBilling and Settlement: a month at hand and   *)
(* one before it.                                                          *)
EXTENDS Settlement, TLC

CONSTANTS m1, m2, j1

MCAmountDue == [p \in Payments |-> 2]
MCAmounts   == 0 .. 2
=============================================================================
