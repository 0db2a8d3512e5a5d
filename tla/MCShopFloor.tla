----------------------------- MODULE MCShopFloor -----------------------------
(* Small instances of ShopFloor: the requests are interchangeable.         *)
EXTENDS ShopFloorCustody, TLC

RequestSymmetry == Permutations(Sessions)

=============================================================================
