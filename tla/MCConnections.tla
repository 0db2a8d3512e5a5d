--------------------------- MODULE MCConnections ---------------------------
(* The connection pool for model checking.                                 *)
EXTENDS Connections

(* Every mix of three kinds that are not all alike, up to the names.       *)
Order == <<"statement", "transaction", "refusal", "growth", "preview">>
AnyThree == {[r \in 1..3 |-> Order[m[r]]] : m \in {f \in [1..3 -> 1..5] : f[1] <= f[2] /\ f[2] <= f[3] /\ f[1] # f[3]}}

=============================================================================
