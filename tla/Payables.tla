------------------------------ MODULE Payables ------------------------------
(***************************************************************************)
(* The bills of one vendor, and the payments, expenses and advances that   *)
(* settle them.                                                            *)
(*                                                                         *)
(* A payment, an expense and the application of advances lock the bills    *)
(* they name one by one, in the order of the request, and write after the  *)
(* last lock: one action per lock, one for the writes and the COMMIT.      *)
(* Amounts are in the smallest unit of currency.  Journal entries settle   *)
(* bills too: that is in Ledger, and in Receivables for invoices.          *)
(***************************************************************************)
EXTENDS Integers, Sequences, FiniteSets, Functions

CONSTANTS
    Bills,        \* purchase_notes.id of the vendor
    Sessions,     \* requests in flight at the same time
    Ops,          \* the handlers the users call
    GrandTotal,   \* grand_total of each bill
    MaxTotal,     \* the largest of them
    Extras,       \* amounts of a payment beyond its bills
    MaxExtra,     \* the largest of them
    MaxAdvances,  \* bound: rows of vendor_advances
    ManualLines   \* TRUE: payments may post their surplus to other accounts

ASSUME PayablesAssumption ==
    /\ IsFiniteSet(Bills) /\ IsFiniteSet(Sessions)
    /\ Ops \subseteq {"pay", "expense", "apply"}
    /\ MaxTotal \in Nat /\ GrandTotal \in [Bills -> 1..MaxTotal]
    /\ MaxExtra \in Nat /\ Extras \subseteq 0..MaxExtra /\ MaxAdvances \in Nat
    /\ ManualLines \in BOOLEAN

VARIABLES
    bill,      \* purchase_notes: grand_total and the stored settlement columns
    settled,   \* what the rows of each source's table say was settled of a bill
    advances,  \* vendor_advances, in FIFO order
    gl,        \* balances of the two control accounts
    sess       \* the requests in flight: what they ask, hold and have read

vars == <<bill, settled, advances, gl, sess>>

Bill == [total : Nat, paid : Int, due : Int, status : {"UNPAID", "PARTIAL", "PAID"}]
Source == [pay : Nat, exp : Nat, adv : Nat]
Advance == [amount : Nat, remaining : Nat, status : {"OPEN", "APPLIED"}]
Amounts == {a \in [Bills -> 0..MaxTotal] : \A b \in Bills : a[b] <= GrandTotal[b]}
Plans == [1..MaxAdvances -> 0..MaxTotal]

Named(alloc) == {b \in Bills : alloc[b] > 0}

(* The orders in which a request may list a set of bills.                  *)
Orders(S) == {o \in [1..Cardinality(S) -> S] : \A b \in S : \E i \in DOMAIN o : o[i] = b}

Idle == [op |-> "idle", held |-> {}]
Session == {Idle}
    \cup [op : {"pay", "expense"}, alloc : Amounts, extra : Extras \cup {0},
          manual : Extras \cup {0}, todo : Seq(Bills), held : SUBSET Bills]
    \cup [op : {"apply"}, bill : Bills, plan : Plans, auto : BOOLEAN,
          todo : Seq(Bills), held : SUBSET Bills]

-----------------------------------------------------------------------------
(* The settlement columns of a bill.                                       *)

NoBill == [total |-> 0, paid |-> 0, due |-> 0, status |-> "UNPAID"]
Exists(b) == bill[b].total > 0
Clip(n) == IF n > 0 THEN n ELSE 0

Columns(total, paid, due) ==
    [total |-> total, paid |-> paid, due |-> due,
     status |-> IF due = 0 THEN "PAID" ELSE IF paid > 0 THEN "PARTIAL" ELSE "UNPAID"]

(* After a payment: from the new amount_paid.                              *)
AfterPayment(r, amt) == Columns(r.total, r.paid + amt, Clip(r.total - (r.paid + amt)))

(* After an expense: from the old balance_due.                             *)
AfterExpense_Kept(r, amt) == Columns(r.total, r.paid + amt, r.due)
AfterExpense(r, amt) == Columns(r.total, r.paid + amt, Clip(r.due - amt))

-----------------------------------------------------------------------------
(* Row locks on bills, held until the transaction ends.                    *)

Free(b, s) == \A t \in Sessions \ {s} : b \notin sess[t].held

Start(s, request) ==
    /\ sess[s] = Idle
    /\ sess' = [sess EXCEPT ![s] = request]
    /\ UNCHANGED <<bill, settled, advances, gl>>

End(s) == sess' = [sess EXCEPT ![s] = Idle]

Hold(s, b) ==
    sess' = [sess EXCEPT ![s].held = @ \cup {b}, ![s].todo = Tail(@)]

Locking(s) == sess[s].op \in {"pay", "expense", "apply"} /\ sess[s].todo # <<>>
Ready(s, op) == sess[s].op = op /\ sess[s].todo = <<>>

(* A bill is refused when less is due than the request means to settle.    *)
Covered_Any(r, amt) == TRUE
Covered(r, amt) == amt <= r.due

LockBill(s) ==
    LET b == Head(sess[s].todo)
        enough == IF sess[s].op = "apply" THEN bill[b].paid < bill[b].total
                  ELSE Covered(bill[b], sess[s].alloc[b])
    IN  /\ Locking(s)
        /\ Free(b, s)
        /\ IF enough THEN Hold(s, b) ELSE End(s)
        /\ UNCHANGED <<bill, settled, advances, gl>>

(* lock_timeout: a request waits five seconds for a lock and is refused.   *)
lockTimeout_Never(s) == FALSE
lockTimeout(s) == ~Free(Head(sess[s].todo), s)

GiveUp(s) ==
    /\ Locking(s)
    /\ lockTimeout(s)
    /\ End(s)
    /\ UNCHANGED <<bill, settled, advances, gl>>

-----------------------------------------------------------------------------
(* POST /purchase-notes: the bill and its entry, credited to payables.     *)
CreateBill(b) ==
    /\ ~Exists(b)
    /\ bill' = [bill EXCEPT ![b] = Columns(GrandTotal[b], 0, GrandTotal[b])]
    /\ gl' = [gl EXCEPT !.payable = @ + GrandTotal[b]]
    /\ UNCHANGED <<settled, advances, sess>>

(* POST /payments: bills, and a surplus that becomes an advance.           *)
Surplus(s) == sess[s].op = "pay" /\ sess[s].extra > 0

RequestPayment(s, alloc, order, extra, manual) ==
    /\ "pay" \in Ops
    /\ order # <<>> \/ extra > 0
    /\ manual <= extra /\ (manual > 0 => ManualLines)
    /\ extra > 0 => Len(advances) + Cardinality({t \in Sessions : Surplus(t)}) < MaxAdvances
    /\ Start(s, [op |-> "pay", alloc |-> alloc, extra |-> extra, manual |-> manual,
                 todo |-> order, held |-> {}])

FinishPayment(s) ==
    LET r == sess[s]
    IN  /\ Ready(s, "pay")
        /\ bill' = [b \in Bills |-> IF r.alloc[b] > 0 THEN AfterPayment(bill[b], r.alloc[b])
                                    ELSE bill[b]]
        /\ settled' = [b \in Bills |-> [settled[b] EXCEPT !.pay = @ + r.alloc[b]]]
        /\ advances' = IF r.extra = 0 THEN advances
                       ELSE Append(advances, [amount |-> r.extra, remaining |-> r.extra,
                                              status |-> "OPEN"])
        /\ gl' = [payable |-> gl.payable - SumFunction(r.alloc),
                  advance |-> gl.advance + r.extra - r.manual]
        /\ End(s)

(* POST /expenses with a vendor: its lines, and bills settled with them.   *)
(* Without a vendor the bills would be neither locked nor checked; the     *)
(* page offers bills only when there is one.                               *)
RequestExpense(s, alloc, order) ==
    /\ "expense" \in Ops
    /\ order # <<>>
    /\ Start(s, [op |-> "expense", alloc |-> alloc, extra |-> 0, manual |-> 0,
                 todo |-> order, held |-> {}])

FinishExpense(s) ==
    LET alloc == sess[s].alloc
    IN  /\ Ready(s, "expense")
        /\ bill' = [b \in Bills |-> IF alloc[b] > 0 THEN AfterExpense(bill[b], alloc[b])
                                    ELSE bill[b]]
        /\ settled' = [b \in Bills |-> [settled[b] EXCEPT !.exp = @ + alloc[b]]]
        /\ gl' = [gl EXCEPT !.payable = @ - SumFunction(alloc)]
        /\ End(s)
        /\ UNCHANGED advances

-----------------------------------------------------------------------------
(* POST /vendor-advances/apply: the open advances are locked in FIFO order *)
(* with the bill in hand, and drawn down until the bill is settled or as   *)
(* the request plans.                                                      *)

RequestApply(s, b, plan, auto) ==
    /\ "apply" \in Ops
    /\ Exists(b)
    /\ Start(s, [op |-> "apply", bill |-> b, plan |-> plan, auto |-> auto,
                 todo |-> <<b>>, held |-> {}])

Open(k) == advances[k].status = "OPEN" /\ advances[k].remaining > 0
Available(k) == IF Open(k) THEN advances[k].remaining ELSE 0
AvailableBefore(k) == SumFunction([j \in 1..k-1 |-> Available(j)])

(* FIFO: an advance gives what the older ones leave of the balance.        *)
AtMost(n, m) == IF n < m THEN n ELSE m
FifoTake_Each(k, balance) == AtMost(Available(k), balance)
FifoTake(k, balance) == AtMost(Available(k), Clip(balance - AvailableBefore(k)))

Take(r, k, balance) == IF r.auto THEN FifoTake(k, balance) ELSE r.plan[k]

(* A plan names an advance at most once here.  One that named it twice     *)
(* would be checked entry by entry against what the advance has left       *)
(* before any of them.                                                     *)
Allowed(take, balance) ==
    /\ \A k \in DOMAIN advances : take[k] > 0 => Open(k) /\ take[k] <= advances[k].remaining
    /\ SumFunction(take) <= balance

DrawDown_Whole(a, n) ==
    IF n < a.remaining THEN a ELSE [a EXCEPT !.remaining = 0, !.status = "APPLIED"]
DrawDown(a, n) ==
    [a EXCEPT !.remaining = @ - n,
              !.status = IF n > 0 /\ a.remaining - n <= 0 THEN "APPLIED" ELSE @]

FinishApply(s) ==
    LET r == sess[s]
        balance == bill[r.bill].total - bill[r.bill].paid
        take == [k \in DOMAIN advances |-> Take(r, k, balance)]
        applied == SumFunction(take)
    IN  /\ Ready(s, "apply")
        /\ End(s)
        /\ IF applied \in Nat \ {0} /\ (r.auto \/ Allowed(take, balance))
           THEN /\ advances' = [k \in DOMAIN advances |-> DrawDown(advances[k], take[k])]
                /\ bill' = [bill EXCEPT ![r.bill] = Columns(@.total, @.paid + applied,
                                                            @.total - (@.paid + applied))]
                /\ settled' = [settled EXCEPT ![r.bill].adv = @ + applied]
                /\ gl' = [payable |-> gl.payable - applied, advance |-> gl.advance - applied]
           ELSE UNCHANGED <<bill, settled, advances, gl>>

(* An error or a lost connection: ROLLBACK.                                *)
Rollback(s) ==
    /\ sess[s] # Idle
    /\ End(s)
    /\ UNCHANGED <<bill, settled, advances, gl>>

-----------------------------------------------------------------------------
Init ==
    /\ bill = [b \in Bills |-> NoBill]
    /\ settled = [b \in Bills |-> [pay |-> 0, exp |-> 0, adv |-> 0]]
    /\ advances = <<>>
    /\ gl = [payable |-> 0, advance |-> 0]
    /\ sess = [s \in Sessions |-> Idle]

Request(s) ==
    \/ \E alloc \in Amounts : \E o \in Orders(Named(alloc)), x, m \in Extras \cup {0} :
          (\A b \in Named(alloc) : Exists(b)) /\ RequestPayment(s, alloc, o, x, m)
    \/ \E alloc \in Amounts : \E o \in Orders(Named(alloc)) :
          (\A b \in Named(alloc) : Exists(b)) /\ RequestExpense(s, alloc, o)
    \/ \E b \in Bills, plan \in Plans, auto \in BOOLEAN :
          (auto <=> \A k \in DOMAIN plan : plan[k] = 0) /\ RequestApply(s, b, plan, auto)

Proceed(s) ==
    \/ LockBill(s) \/ GiveUp(s)
    \/ FinishPayment(s) \/ FinishExpense(s) \/ FinishApply(s)

Next ==
    \/ \E b \in Bills : CreateBill(b)
    \/ \E s \in Sessions : Request(s) \/ Proceed(s) \/ Rollback(s)

Spec == Init /\ [][Next]_vars

(* The server goes on with every request it has taken; users owe nothing.  *)
FairSpec == Spec /\ \A s \in Sessions : WF_vars(Proceed(s))

-----------------------------------------------------------------------------
(* Properties.                                                             *)

(* The settlement columns stored with a bill are what the rows of all its  *)
(* sources add up to: three handlers write them, each in its own way, and   *)
(* the pages and the checks of the next payment read nothing else.         *)
SettledBy(b) == settled[b].pay + settled[b].exp + settled[b].adv
StoredMatchesSources ==
    \A b \in Bills : bill[b].paid = SettledBy(b) /\ bill[b].due = bill[b].total - bill[b].paid

(* Whatever races, a bill is never settled beyond its total: the check     *)
(* made under the lock of each bill still holds when the last lock of the  *)
(* request is taken and the rows are written.                              *)
NeverOverSettled == \A b \in Bills : SettledBy(b) <= bill[b].total

(* The control accounts agree with the documents: payables with what the   *)
(* bills leave open, vendor advances with what the advances leave unused;  *)
(* and what was drawn from advances is what was applied to bills, an       *)
(* advance being closed exactly when nothing is left of it.                *)
Remaining == SumFunction([k \in DOMAIN advances |-> advances[k].remaining])
Drawn == SumFunction([k \in DOMAIN advances |-> advances[k].amount - advances[k].remaining])

ControlAccountsAgree ==
    /\ gl.payable = SumFunction([b \in Bills |-> bill[b].total - SettledBy(b)])
    /\ gl.advance = Remaining
    /\ Drawn = SumFunction([b \in Bills |-> settled[b].adv])
    /\ \A k \in DOMAIN advances : advances[k].status = "APPLIED" <=> advances[k].remaining = 0

(* A request that settles bills is answered, also when two of them list    *)
(* the same bills in opposite orders and wait for each other.              *)
EveryRequestEnds == \A s \in Sessions : sess[s] # Idle ~> sess[s] = Idle

(* However requests interleave, each of them is one purchase, one payment  *)
(* or one application of advances on the vendor's account.                 *)
Account == INSTANCE VendorAccount WITH
    MaxMoney <- SumFunction(GrandTotal) + MaxExtra,
    owed <- SumFunction([b \in Bills |-> bill[b].due]),
    advance <- Remaining

OneAccount == Account!Spec

=============================================================================
