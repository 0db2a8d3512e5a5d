------------------------------- MODULE Custody -------------------------------
(***************************************************************************)
(* What the process issue and return routes promise about material: every  *)
(* piece that was purchased is in stock, inside a process, or settled      *)
(* (returned as damaged or consumed), and it moves between the three only  *)
(* by an issue or a return.  No piece is lost and none appears.            *)
(***************************************************************************)
EXTENDS Naturals

CONSTANT Pieces    \* purchased, a natural number

VARIABLES stock, wip, settled

vars == <<stock, wip, settled>>

Init == stock = Pieces /\ wip = 0 /\ settled = 0

Issue(n) ==
    /\ n \in 1..stock
    /\ stock' = stock - n
    /\ wip' = wip + n
    /\ UNCHANGED settled

(* u pieces come back usable, d do not.                                    *)
Return(u, d) ==
    /\ u + d \in 1..wip
    /\ stock' = stock + u
    /\ wip' = wip - (u + d)
    /\ settled' = settled + d

Next == \/ \E n \in 1..Pieces : Issue(n)
        \/ \E u, d \in 0..Pieces : Return(u, d)

Spec == Init /\ [][Next]_vars

=============================================================================
