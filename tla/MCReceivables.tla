--------------------------- MODULE MCReceivables ---------------------------
(* The receivables for model checking.                                     *)
EXTENDS Receivables, TLC

(* Requests are interchangeable, and so are entries and invoices.          *)
Symmetry == Permutations(Sessions) \cup Permutations(Entries) \cup Permutations(Invoices)

=============================================================================
