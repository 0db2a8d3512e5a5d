---------------------------- MODULE VendorAccount ----------------------------
(***************************************************************************)
(* What the books promise a vendor: an amount owed on bills and an amount  *)
(* paid in advance.  A purchase adds to the one, a payment settles some of *)
(* it and may add to the other, and applying advances takes the same from  *)
(* both, so that the net position changes by purchases and payments only.  *)
(***************************************************************************)
EXTENDS Integers

CONSTANT MaxMoney  \* bound: the largest amount of one step

VARIABLES owed, advance

vars == <<owed, advance>>

Init == owed = 0 /\ advance = 0

Purchase(n) == owed' = owed + n /\ UNCHANGED advance

Pay(n, surplus) ==
    /\ n <= owed
    /\ owed' = owed - n
    /\ advance' = advance + surplus

Apply(n) ==
    /\ n <= owed /\ n <= advance
    /\ owed' = owed - n
    /\ advance' = advance - n

Next ==
    \/ \E n \in 1..MaxMoney : Purchase(n)
    \/ \E n, x \in 0..MaxMoney : Pay(n, x)
    \/ \E n \in 1..MaxMoney : Apply(n)

Spec == Init /\ [][Next]_vars

=============================================================================
