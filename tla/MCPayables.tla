----------------------------- MODULE MCPayables -----------------------------
(* The payables for model checking.                                        *)
EXTENDS Payables

(* A large bill and a small one.                                           *)
CONSTANT LargeBill
BillTotals == [b \in Bills |-> IF b = LargeBill THEN MaxTotal ELSE 1]

=============================================================================
