------------------------------ MODULE MCLedger ------------------------------
(* The ledger for model checking: requests are interchangeable.            *)
EXTENDS Ledger, TLC

RequestSymmetry == Permutations(Sessions)

=============================================================================
