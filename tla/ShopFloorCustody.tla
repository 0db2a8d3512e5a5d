--------------------------- MODULE ShopFloorCustody ---------------------------
(***************************************************************************)
(* The shop floor implements Custody for the seed pieces: with lots split, *)
(* issued whole or in part, returned in several rounds and by several      *)
(* requests at once, the tables still describe one pile of material.       *)
(***************************************************************************)
EXTENDS ShopFloor, Functions

Seed(l) == lots[l].kind = "seed"

(* A lot that entered a process keeps its quantity until the last return,  *)
(* so what is inside is what the open issues say, not what the lots say.   *)
AtHand(l) == IF Seed(l) /\ lots[l].status = "IN STOCK" THEN lots[l].qty ELSE 0
Inside(i) == IF Seed(issues[i].lot) /\ issues[i].status = "OPEN" THEN issues[i].remaining ELSE 0

InStock == SumFunction([l \in DOMAIN lots |-> AtHand(l)])
InProcess == SumFunction([i \in DOMAIN issues |-> Inside(i)])

Material == INSTANCE Custody WITH
    Pieces <- Purchased * MaxQty, stock <- InStock, wip <- InProcess, settled <- scrapped

(* Every step of issue and return handlers moves pieces as Custody allows, *)
(* and no other handler moves any.                                         *)
MaterialFlow == Material!Spec

=============================================================================
