------------------------------ MODULE MCStock ------------------------------
(* Stock lots for model checking.                                          *)
EXTENDS Stock

Lot2(k) == [kind |-> k, qty |-> 2]
Piece1(k) == [kind |-> k, qty |-> 1]
SeedOrRough ==
    {<<Lot2("seed")>>, <<Lot2("growth_run")>>, <<Piece1("rough"), Piece1("rough")>>}

=============================================================================
