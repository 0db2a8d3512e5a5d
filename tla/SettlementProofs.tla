--------------------------- MODULE SettlementProofs -------------------------
(***************************************************************************)
(* Proofs about what settles bills and invoices, for any of them and any   *)
(* number of requests in flight: Payables, which this module extends, and  *)
(* after it Receivables, as the instance Sales.                            *)
(***************************************************************************)
EXTENDS Payables, InvoiceBooks, TableLemmas

-----------------------------------------------------------------------------
(* The inductive invariant.                                                *)

Rows ==
    /\ bill \in [Bills -> Bill]
    /\ settled \in [Bills -> Source]
    /\ sess \in [Sessions -> Session]

(* The books, and a bill that is not there yet has not been settled.       *)
BookOK(b) ==
    /\ bill[b].paid = settled[b].pay + settled[b].exp + settled[b].adv
    /\ bill[b].due = bill[b].total - bill[b].paid
    /\ ~Exists(b) => bill[b].paid = 0

(* The bills a request means to settle, each held or still to be locked.   *)
Asks(r, b) ==
    \/ r.op \in {"pay", "expense"} /\ r.alloc[b] > 0
    \/ r.op = "apply" /\ r.bill = b
RequestOK(s) ==
    \A b \in Bills : Asks(sess[s], b) =>
        /\ Exists(b)
        /\ b \in sess[s].held \/ \E i \in DOMAIN sess[s].todo : sess[s].todo[i] = b

(* What was checked under a lock is still true while the lock is held.     *)
CheckedOK(s) ==
    sess[s].op \in {"pay", "expense"} =>
        \A b \in sess[s].held : sess[s].alloc[b] <= bill[b].due

HeldOK == \A s, t \in Sessions : s # t => \A b \in sess[s].held : b \notin sess[t].held

IInv ==
    /\ Rows
    /\ \A b \in Bills : BookOK(b)
    /\ \A s \in Sessions : RequestOK(s) /\ CheckedOK(s)
    /\ HeldOK

-----------------------------------------------------------------------------
LEMMA Constants ==
    /\ IsFiniteSet(Bills) /\ MaxTotal \in Nat /\ MaxAdvances \in Nat
    /\ \A b \in Bills : GrandTotal[b] \in Nat /\ GrandTotal[b] > 0
    /\ \A x \in Extras : x \in Nat
  BY PayablesAssumption

(* The settlement columns of a bill are a bill.                            *)
LEMMA ColumnsType ==
    ASSUME NEW total \in Nat, NEW paid \in Int, NEW due \in Int
    PROVE  /\ Columns(total, paid, due) \in Bill
           /\ Columns(total, paid, due).total = total
           /\ Columns(total, paid, due).paid = paid
           /\ Columns(total, paid, due).due = due
  BY DEF Columns, Bill

LEMMA BillFields ==
    ASSUME NEW r \in Bill
    PROVE  r.total \in Nat /\ r.paid \in Int /\ r.due \in Int
  BY DEF Bill

LEMMA SourceFields ==
    ASSUME NEW r \in Source
    PROVE  r.pay \in Nat /\ r.exp \in Nat /\ r.adv \in Nat
  BY DEF Source

(* What a request in flight looks like.                                    *)
LEMMA SessionFields ==
    ASSUME NEW r \in Session
    PROVE  /\ r.held \in SUBSET Bills
           /\ r.op \in {"idle", "pay", "expense", "apply"}
           /\ r.op = "idle" <=> r = Idle
           /\ r.op # "idle" => r.todo \in Seq(Bills)
           /\ r.op \in {"pay", "expense"} => r.alloc \in [Bills -> Nat]
           /\ r.op = "apply" => r.bill \in Bills
  <1>1. Amounts \subseteq [Bills -> Nat]
    <2>1. 0..MaxTotal \subseteq Nat
      BY Constants
    <2> QED BY <2>1 DEF Amounts
  <1>2. CASE r = Idle
    BY <1>2 DEF Idle
  <1>3. CASE r \in [op : {"pay", "expense"}, alloc : Amounts, extra : Extras \cup {0},
                    manual : Extras \cup {0}, todo : Seq(Bills), held : SUBSET Bills]
    <2>1. r.op \in {"pay", "expense"} /\ r.alloc \in Amounts /\ r.todo \in Seq(Bills)
          /\ r.held \in SUBSET Bills
      BY <1>3
    <2>2. r # Idle
      BY <2>1 DEF Idle
    <2> QED BY <1>1, <2>1, <2>2
  <1>4. CASE r \in [op : {"apply"}, bill : Bills, plan : Plans, auto : BOOLEAN,
                    todo : Seq(Bills), held : SUBSET Bills]
    <2>1. r.op = "apply" /\ r.bill \in Bills /\ r.todo \in Seq(Bills) /\ r.held \in SUBSET Bills
      BY <1>4
    <2>2. r # Idle
      BY <2>1 DEF Idle
    <2> QED BY <2>1, <2>2
  <1> QED BY <1>2, <1>3, <1>4 DEF Session

(* Taking a lock changes what a request holds and has still to lock.       *)
Holding(r, b) == [r EXCEPT !.held = @ \cup {b}, !.todo = Tail(@)]

LEMMA HoldFields ==
    ASSUME NEW r \in Session, r.op \in {"pay", "expense", "apply"}, NEW b \in Bills,
           Tail(r.todo) \in Seq(Bills)
    PROVE  /\ Holding(r, b) \in Session /\ Holding(r, b).op = r.op
           /\ Holding(r, b).held = r.held \cup {b}
           /\ Holding(r, b).todo = Tail(r.todo)
           /\ (r.op \in {"pay", "expense"} =>
                 /\ Holding(r, b).alloc = r.alloc
                 /\ Holding(r, b).extra = r.extra /\ Holding(r, b).manual = r.manual)
           /\ (r.op = "apply" => Holding(r, b).bill = r.bill)
  <1>1. CASE r.op = "apply"
    <2>1. r \in [op : {"apply"}, bill : Bills, plan : Plans, auto : BOOLEAN,
                 todo : Seq(Bills), held : SUBSET Bills]
      BY <1>1 DEF Session, Idle
    <2> QED BY <1>1, <2>1 DEF Session, Holding
  <1>2. CASE r.op \in {"pay", "expense"}
    <2>1. r \in [op : {"pay", "expense"}, alloc : Amounts, extra : Extras \cup {0},
                 manual : Extras \cup {0}, todo : Seq(Bills), held : SUBSET Bills]
      BY <1>2 DEF Session, Idle
    <2> QED BY <1>2, <2>1 DEF Session, Holding
  <1> QED BY <1>1, <1>2

(* An order lists every bill of its set.                                   *)
LEMMA OrdersType ==
    ASSUME NEW S \in SUBSET Bills, NEW o \in Orders(S)
    PROVE  o \in Seq(Bills) /\ \A b \in S : \E i \in DOMAIN o : o[i] = b
  <1>1. Cardinality(S) \in Nat
    BY Constants, FS_Subset, FS_CardinalityType
  <1>2. o \in [1..Cardinality(S) -> S] /\ \A b \in S : \E i \in DOMAIN o : o[i] = b
    BY DEF Orders
  <1> QED BY <1>1, <1>2

-----------------------------------------------------------------------------
(* Steps and the requests they leave alone.                                *)

(* A request that ends may have changed the bills it held: what the others *)
(* hold and have checked is untouched.                                     *)
LEMMA OthersKeep ==
    ASSUME IInv, NEW s \in Sessions, End(s), bill' \in [Bills -> Bill],
           \A b \in Bills : /\ bill'[b].total = bill[b].total
                            /\ b \notin sess[s].held => bill'[b] = bill[b]
    PROVE  /\ sess' \in [Sessions -> Session]
           /\ \A t \in Sessions : RequestOK(t)' /\ CheckedOK(t)'
           /\ HeldOK'
  <1>1. Idle \in Session /\ Idle.op = "idle" /\ Idle.held = {}
    BY DEF Session, Idle
  <1>2. /\ sess' \in [Sessions -> Session] /\ sess'[s] = Idle
        /\ \A t \in Sessions \ {s} : sess'[t] = sess[t]
    BY <1>1 DEF End, IInv, Rows
  <1>3. ASSUME NEW t \in Sessions PROVE RequestOK(t)'
    BY <1>1, <1>2, <1>3 DEF RequestOK, Asks, Exists, IInv
  <1>4. ASSUME NEW t \in Sessions PROVE CheckedOK(t)'
    <2>1. CASE t = s
      BY <1>1, <1>2, <2>1 DEF CheckedOK
    <2>2. CASE t # s
      <3>1. \A b \in sess[t].held : b \in Bills /\ b \notin sess[s].held
        BY <2>2, SessionFields DEF IInv, Rows, HeldOK
      <3> QED BY <1>2, <2>2, <3>1 DEF CheckedOK, IInv
    <2> QED BY <2>1, <2>2
  <1>5. HeldOK'
    BY <1>1, <1>2 DEF HeldOK, IInv
  <1> QED BY <1>2, <1>3, <1>4, <1>5

(* A request that starts names bills that exist and holds none.            *)
LEMMA StartKeeps ==
    ASSUME IInv, NEW s \in Sessions, NEW r \in Session, Start(s, r), r.held = {},
           \A b \in Bills : Asks(r, b) =>
               Exists(b) /\ \E i \in DOMAIN r.todo : r.todo[i] = b
    PROVE  IInv'
  <1>1. /\ sess' \in [Sessions -> Session] /\ sess'[s] = r
        /\ \A t \in Sessions \ {s} : sess'[t] = sess[t]
        /\ bill' = bill /\ settled' = settled
    BY DEF Start, IInv, Rows
  <1>2. Rows' /\ \A b \in Bills : BookOK(b)'
    BY <1>1 DEF IInv, Rows, BookOK, Exists
  <1>3. ASSUME NEW t \in Sessions PROVE RequestOK(t)' /\ CheckedOK(t)'
    <2>1. CASE t = s
      BY <1>1, <2>1 DEF RequestOK, CheckedOK, Exists
    <2>2. CASE t # s
      BY <1>1, <2>2 DEF RequestOK, CheckedOK, Exists, IInv, Asks
    <2> QED BY <2>1, <2>2
  <1>4. HeldOK'
    BY <1>1 DEF HeldOK, IInv
  <1> QED BY <1>2, <1>3, <1>4 DEF IInv

LEMMA EndKeeps ==
    ASSUME IInv, NEW s \in Sessions, End(s), UNCHANGED <<bill, settled>>
    PROVE  IInv'
  BY OthersKeep DEF IInv, Rows, BookOK, Exists

-----------------------------------------------------------------------------
(* Each action preserves the invariant.                                    *)

LEMMA CreateBillKeeps ==
    ASSUME IInv, NEW b \in Bills, CreateBill(b)
    PROVE  IInv'
  <1> DEFINE new == Columns(GrandTotal[b], 0, GrandTotal[b])
  <1>1. new \in Bill /\ new.total = GrandTotal[b] /\ new.paid = 0 /\ new.due = GrandTotal[b]
    <2>1. GrandTotal[b] \in Nat
      BY Constants
    <2> QED BY <2>1 DEF Columns, Bill
  <1> HIDE DEF new
  <1>2. /\ bill' \in [Bills -> Bill] /\ bill'[b] = new
        /\ \A c \in Bills \ {b} : bill'[c] = bill[c]
        /\ settled' = settled /\ sess' = sess /\ ~Exists(b)
    BY <1>1 DEF CreateBill, IInv, Rows, new
  <1>3. bill[b].total = 0 /\ bill[b].paid = 0 /\ bill[b].due = 0
    BY <1>2, BillFields DEF Exists, BookOK, IInv, Rows
  <1>4. GrandTotal[b] \in Nat /\ GrandTotal[b] > 0
    BY Constants
  <1>5. Rows'
    BY <1>2 DEF IInv, Rows
  <1>6. ASSUME NEW c \in Bills PROVE BookOK(c)'
    <2>1. CASE c = b
      BY <1>1, <1>2, <1>3, <1>4, <2>1 DEF BookOK, Exists, IInv
    <2>2. CASE c # b
      BY <1>2, <2>2 DEF BookOK, Exists, IInv
    <2> QED BY <2>1, <2>2
  <1>7. ASSUME NEW c \in Bills PROVE (Exists(c) => Exists(c)') /\ bill[c].due <= bill'[c].due
    <2>1. CASE c = b
      BY <1>1, <1>2, <1>3, <1>4, <2>1 DEF Exists
    <2>2. CASE c # b
      BY <1>2, <2>2, BillFields DEF Exists, IInv, Rows
    <2> QED BY <2>1, <2>2
  <1>8. ASSUME NEW t \in Sessions PROVE RequestOK(t)' /\ CheckedOK(t)'
    <2>1. RequestOK(t)'
      BY <1>2, <1>7 DEF RequestOK, Asks, IInv
    <2>2. sess[t] \in Session
      BY DEF IInv, Rows
    <2>3. ASSUME sess[t].op \in {"pay", "expense"}, NEW c \in sess[t].held
          PROVE  sess[t].alloc[c] <= bill'[c].due
      <3>1. c \in Bills /\ sess[t].alloc[c] \in Nat
        BY <2>2, <2>3, SessionFields
      <3>2. sess[t].alloc[c] <= bill[c].due
        BY <2>3 DEF IInv, CheckedOK
      <3>3. bill[c].due \in Int /\ bill'[c].due \in Int
        BY <1>2, <3>1, BillFields DEF IInv, Rows
      <3> QED BY <1>7, <3>1, <3>2, <3>3
    <2> QED BY <1>2, <2>1, <2>3 DEF CheckedOK
  <1>9. HeldOK'
    BY <1>2 DEF HeldOK, IInv
  <1> QED BY <1>5, <1>6, <1>8, <1>9 DEF IInv

(* A lock is taken, after the check; the bill was free.                    *)
LEMMA LockBillKeeps ==
    ASSUME IInv, NEW s \in Sessions, LockBill(s)
    PROVE  IInv'
  <1> DEFINE r == sess[s]
             b == Head(r.todo)
             next == Holding(r, b)
  <1>1. r \in Session /\ r.op \in {"pay", "expense", "apply"} /\ r.todo # <<>>
    BY DEF LockBill, Locking, IInv, Rows
  <1>2. r.todo \in Seq(Bills) /\ r.held \in SUBSET Bills
    BY <1>1, SessionFields
  <1>3. b \in Bills /\ Tail(r.todo) \in Seq(Bills)
    BY <1>1, <1>2
  <1>4. CASE End(s)
    BY <1>4, EndKeeps DEF LockBill
  <1>5. CASE Hold(s, b) /\ (r.op # "apply" => Covered(bill[b], r.alloc[b]))
    <2>1. /\ next \in Session /\ next.op = r.op /\ next.held = r.held \cup {b}
          /\ next.todo = Tail(r.todo)
          /\ (r.op \in {"pay", "expense"} => next.alloc = r.alloc)
          /\ (r.op = "apply" => next.bill = r.bill)
      BY <1>1, <1>3, HoldFields
    <2>2. /\ sess' \in [Sessions -> Session] /\ sess'[s] = next
          /\ \A t \in Sessions \ {s} : sess'[t] = sess[t]
          /\ bill' = bill /\ settled' = settled
      BY <1>5, <2>1 DEF Hold, Holding, LockBill, IInv, Rows
    <2> HIDE DEF next
    <2>3. Rows' /\ \A c \in Bills : BookOK(c)'
      BY <2>2 DEF IInv, Rows, BookOK, Exists
    <2>4. ASSUME NEW t \in Sessions, t # s PROVE RequestOK(t)' /\ CheckedOK(t)'
      BY <2>2, <2>4 DEF RequestOK, CheckedOK, Exists, Asks, IInv
    <2>5. RequestOK(s)'
      <3> SUFFICES ASSUME NEW c \in Bills, Asks(next, c)
                   PROVE  /\ Exists(c)
                          /\ c \in next.held \/ \E i \in DOMAIN next.todo : next.todo[i] = c
        BY <2>2 DEF RequestOK, Exists
      <3>1. Asks(r, c)
        BY <1>1, <2>1 DEF Asks
      <3>2. Exists(c) /\ (c \in r.held \/ \E i \in DOMAIN r.todo : r.todo[i] = c)
        BY <3>1 DEF RequestOK, IInv
      <3>3. ASSUME NEW i \in DOMAIN r.todo, r.todo[i] = c
            PROVE  c = b \/ \E j \in DOMAIN Tail(r.todo) : Tail(r.todo)[j] = c
        <4>1. CASE i = 1
          BY <1>2, <3>3, <4>1
        <4>2. CASE i # 1
          <5>1. i - 1 \in DOMAIN Tail(r.todo) /\ Tail(r.todo)[i - 1] = r.todo[i]
            BY <1>1, <1>2, <4>2
          <5> QED BY <3>3, <5>1
        <4> QED BY <4>1, <4>2
      <3> QED BY <2>1, <3>2, <3>3
    <2>6. CheckedOK(s)'
      <3> SUFFICES ASSUME r.op \in {"pay", "expense"}, NEW c \in r.held \cup {b}
                   PROVE  r.alloc[c] <= bill[c].due
        BY <2>1, <2>2 DEF CheckedOK
      <3> QED BY <1>5 DEF Covered, CheckedOK, IInv
    <2>7. HeldOK'
      BY <1>2, <1>3, <2>1, <2>2 DEF HeldOK, IInv, LockBill, Free
    <2> QED BY <2>3, <2>4, <2>5, <2>6, <2>7 DEF IInv
  <1> QED BY <1>1, <1>4, <1>5 DEF LockBill

(* A request that has taken all its locks holds every bill it settles, and *)
(* its checks are still true.                                              *)
LEMMA ReadyHolds ==
    ASSUME IInv, NEW s \in Sessions, NEW op \in {"pay", "expense"}, Ready(s, op)
    PROVE  /\ sess[s].alloc \in [Bills -> Nat]
           /\ \A b \in Bills : sess[s].alloc[b] > 0 =>
                 b \in sess[s].held /\ Exists(b) /\ sess[s].alloc[b] <= bill[b].due
  <1>1. sess[s] \in Session /\ sess[s].op = op /\ sess[s].todo = <<>>
    BY DEF IInv, Rows, Ready
  <1>2. sess[s].alloc \in [Bills -> Nat]
    BY <1>1, SessionFields
  <1>3. ASSUME NEW b \in Bills, sess[s].alloc[b] > 0
        PROVE  b \in sess[s].held /\ Exists(b) /\ sess[s].alloc[b] <= bill[b].due
    <2>1. Asks(sess[s], b)
      BY <1>1, <1>3 DEF Asks
    <2>2. Exists(b) /\ b \in sess[s].held
      BY <1>1, <2>1 DEF RequestOK, IInv
    <2> QED BY <1>1, <2>2 DEF CheckedOK, IInv
  <1> QED BY <1>2, <1>3

(* Settling an amount that is due, in the way of either handler.           *)
LEMMA Settling ==
    ASSUME NEW r \in Bill, NEW amt \in Nat, amt <= r.due, r.due = r.total - r.paid
    PROVE  /\ AfterPayment(r, amt) = Columns(r.total, r.paid + amt, r.due - amt)
           /\ AfterExpense(r, amt) = Columns(r.total, r.paid + amt, r.due - amt)
  <1>1. r.total \in Nat /\ r.paid \in Int /\ r.due \in Int
    BY BillFields
  <1>2. Clip(r.total - (r.paid + amt)) = r.due - amt /\ Clip(r.due - amt) = r.due - amt
    BY <1>1 DEF Clip
  <1> QED BY <1>2 DEF AfterPayment, AfterExpense

(* A payment or an expense writes: for each bill it settles, the columns    *)
(* and the rows of its source move by the same amount.                     *)
LEMMA SettleKeeps ==
    ASSUME IInv, NEW s \in Sessions, NEW op \in {"pay", "expense"}, Ready(s, op), End(s),
           \A b \in Bills : bill'[b] =
               IF sess[s].alloc[b] > 0
               THEN Columns(bill[b].total, bill[b].paid + sess[s].alloc[b],
                            bill[b].due - sess[s].alloc[b])
               ELSE bill[b],
           bill' = [b \in Bills |-> bill'[b]],
           settled' \in [Bills -> Source],
           \A b \in Bills : settled'[b].pay + settled'[b].exp + settled'[b].adv
               = settled[b].pay + settled[b].exp + settled[b].adv + sess[s].alloc[b]
    PROVE  IInv'
  <1> DEFINE alloc == sess[s].alloc
  <1>1. /\ alloc \in [Bills -> Nat]
        /\ \A b \in Bills : alloc[b] > 0 => b \in sess[s].held /\ Exists(b)
    BY ReadyHolds
  <1> HIDE DEF alloc
  <1>2. ASSUME NEW b \in Bills
        PROVE  /\ bill'[b] \in Bill /\ bill'[b].total = bill[b].total
               /\ bill'[b].paid = bill[b].paid + alloc[b]
               /\ bill'[b].due = bill[b].due - alloc[b]
               /\ b \notin sess[s].held => bill'[b] = bill[b]
    <2>1. /\ bill[b] \in Bill /\ bill[b].total \in Nat /\ bill[b].paid \in Int
          /\ bill[b].due \in Int /\ alloc[b] \in Nat
      BY <1>1, BillFields DEF IInv, Rows
    <2>2. CASE alloc[b] > 0
      <3>1. bill'[b] = Columns(bill[b].total, bill[b].paid + alloc[b], bill[b].due - alloc[b])
        BY <2>2 DEF alloc
      <3>2. bill[b].paid + alloc[b] \in Int /\ bill[b].due - alloc[b] \in Int
        BY <2>1
      <3>3. /\ bill'[b] \in Bill /\ bill'[b].total = bill[b].total
            /\ bill'[b].paid = bill[b].paid + alloc[b]
            /\ bill'[b].due = bill[b].due - alloc[b]
        BY ONLY <2>1, <3>1, <3>2, ColumnsType
      <3> QED BY <1>1, <2>2, <3>3
    <2>3. CASE ~(alloc[b] > 0)
      <3>1. bill'[b] = bill[b] /\ alloc[b] = 0
        BY <2>1, <2>3 DEF alloc
      <3> QED BY <2>1, <3>1
    <2> QED BY <2>2, <2>3
  <1>3. bill' \in [Bills -> Bill]
    BY <1>2
  <1>4. ASSUME NEW b \in Bills PROVE BookOK(b)'
    <2>1. /\ bill[b].total \in Nat /\ bill[b].paid \in Int /\ bill[b].due \in Int
          /\ alloc[b] \in Nat /\ (alloc[b] > 0 => Exists(b))
      BY <1>1, BillFields DEF IInv, Rows
    <2>2. BookOK(b)
      BY DEF IInv
    <2>3. settled'[b].pay + settled'[b].exp + settled'[b].adv
            = settled[b].pay + settled[b].exp + settled[b].adv + alloc[b]
      BY DEF alloc
    <2>4. /\ bill'[b].total = bill[b].total /\ bill'[b].paid = bill[b].paid + alloc[b]
          /\ bill'[b].due = bill[b].due - alloc[b]
      BY <1>2
    <2> QED BY <2>1, <2>2, <2>3, <2>4 DEF BookOK, Exists
  <1>5. /\ sess' \in [Sessions -> Session]
        /\ \A t \in Sessions : RequestOK(t)' /\ CheckedOK(t)'
        /\ HeldOK'
    BY <1>2, <1>3, OthersKeep
  <1> QED BY <1>3, <1>4, <1>5 DEF IInv, Rows

LEMMA FinishPaymentKeeps ==
    ASSUME IInv, NEW s \in Sessions, FinishPayment(s)
    PROVE  IInv'
  <1>1. Ready(s, "pay") /\ End(s)
    BY DEF FinishPayment
  <1>2. /\ sess[s].alloc \in [Bills -> Nat]
        /\ \A b \in Bills : sess[s].alloc[b] > 0 => sess[s].alloc[b] <= bill[b].due
    BY <1>1, ReadyHolds
  <1>3. ASSUME NEW b \in Bills
        PROVE  bill'[b] = IF sess[s].alloc[b] > 0
                          THEN Columns(bill[b].total, bill[b].paid + sess[s].alloc[b],
                                       bill[b].due - sess[s].alloc[b])
                          ELSE bill[b]
    <2>1. bill'[b] = IF sess[s].alloc[b] > 0 THEN AfterPayment(bill[b], sess[s].alloc[b])
                     ELSE bill[b]
      BY DEF FinishPayment
    <2>2. bill[b] \in Bill /\ bill[b].due = bill[b].total - bill[b].paid
      BY DEF IInv, Rows, BookOK
    <2> QED BY <1>2, <2>1, <2>2, Settling
  <1>4. bill' = [b \in Bills |-> bill'[b]]
    BY DEF FinishPayment
  <1>5. ASSUME NEW b \in Bills
        PROVE  /\ settled'[b] \in Source
               /\ settled'[b].pay + settled'[b].exp + settled'[b].adv
                    = settled[b].pay + settled[b].exp + settled[b].adv + sess[s].alloc[b]
    <2>1. settled'[b] = [settled[b] EXCEPT !.pay = @ + sess[s].alloc[b]]
      BY DEF FinishPayment
    <2>2. settled[b] \in Source /\ sess[s].alloc[b] \in Nat
      BY <1>2 DEF IInv, Rows
    <2> QED BY <2>1, <2>2 DEF Source
  <1>6. settled' \in [Bills -> Source]
    BY <1>5 DEF FinishPayment
  <1> QED BY <1>1, <1>3, <1>4, <1>5, <1>6, SettleKeeps

LEMMA FinishExpenseKeeps ==
    ASSUME IInv, NEW s \in Sessions, FinishExpense(s)
    PROVE  IInv'
  <1>1. Ready(s, "expense") /\ End(s)
    BY DEF FinishExpense
  <1>2. /\ sess[s].alloc \in [Bills -> Nat]
        /\ \A b \in Bills : sess[s].alloc[b] > 0 => sess[s].alloc[b] <= bill[b].due
    BY <1>1, ReadyHolds
  <1>3. ASSUME NEW b \in Bills
        PROVE  bill'[b] = IF sess[s].alloc[b] > 0
                          THEN Columns(bill[b].total, bill[b].paid + sess[s].alloc[b],
                                       bill[b].due - sess[s].alloc[b])
                          ELSE bill[b]
    <2>1. bill'[b] = IF sess[s].alloc[b] > 0 THEN AfterExpense(bill[b], sess[s].alloc[b])
                     ELSE bill[b]
      BY DEF FinishExpense
    <2>2. bill[b] \in Bill /\ bill[b].due = bill[b].total - bill[b].paid
      BY DEF IInv, Rows, BookOK
    <2> QED BY <1>2, <2>1, <2>2, Settling
  <1>4. bill' = [b \in Bills |-> bill'[b]]
    BY DEF FinishExpense
  <1>5. ASSUME NEW b \in Bills
        PROVE  /\ settled'[b] \in Source
               /\ settled'[b].pay + settled'[b].exp + settled'[b].adv
                    = settled[b].pay + settled[b].exp + settled[b].adv + sess[s].alloc[b]
    <2>1. settled'[b] = [settled[b] EXCEPT !.exp = @ + sess[s].alloc[b]]
      BY DEF FinishExpense
    <2>2. settled[b] \in Source /\ sess[s].alloc[b] \in Nat
      BY <1>2 DEF IInv, Rows
    <2> QED BY <2>1, <2>2 DEF Source
  <1>6. settled' \in [Bills -> Source]
    BY <1>5 DEF FinishExpense
  <1> QED BY <1>1, <1>3, <1>4, <1>5, <1>6, SettleKeeps

(* Applying advances settles the one bill that is held.                    *)
LEMMA FinishApplyKeeps ==
    ASSUME IInv, NEW s \in Sessions, FinishApply(s)
    PROVE  IInv'
  <1>1. Ready(s, "apply") /\ End(s)
    BY DEF FinishApply
  <1>2. CASE UNCHANGED <<bill, settled>>
    BY <1>1, <1>2, EndKeeps
  <1>3. ASSUME NEW applied \in Nat \ {0}, NEW b \in Bills, b = sess[s].bill,
               bill' = [bill EXCEPT ![b] = Columns(@.total, @.paid + applied,
                                                   @.total - (@.paid + applied))],
               settled' = [settled EXCEPT ![b].adv = @ + applied]
        PROVE  IInv'
    <2>1. sess[s] \in Session /\ sess[s].op = "apply" /\ sess[s].todo = <<>> /\ applied \in Nat
      BY <1>1, Constants DEF Ready, IInv, Rows
    <2>2. Asks(sess[s], b)
      BY <1>3, <2>1 DEF Asks
    <2>3. Exists(b) /\ b \in sess[s].held
      BY <2>1, <2>2 DEF RequestOK, IInv
    <2>4. /\ bill[b] \in Bill /\ settled[b] \in Source /\ bill[b].total \in Nat
          /\ bill[b].paid \in Int
      BY BillFields DEF IInv, Rows
    <2> DEFINE new == Columns(bill[b].total, bill[b].paid + applied,
                              bill[b].total - (bill[b].paid + applied))
    <2>5. /\ new \in Bill /\ new.total = bill[b].total /\ new.paid = bill[b].paid + applied
          /\ new.due = new.total - new.paid
      <3>1. /\ bill[b].paid + applied \in Int
            /\ bill[b].total - (bill[b].paid + applied) \in Int
        BY <2>1, <2>4
      <3> QED BY <2>4, <3>1 DEF Columns, Bill
    <2>6. /\ bill' \in [Bills -> Bill] /\ bill'[b] = new
          /\ \A c \in Bills \ {b} : bill'[c] = bill[c]
      BY <1>3, <2>5 DEF IInv, Rows
    <2>7. /\ settled' \in [Bills -> Source] /\ settled'[b] = [settled[b] EXCEPT !.adv = @ + applied]
          /\ \A c \in Bills \ {b} : settled'[c] = settled[c]
      <3>1. [settled[b] EXCEPT !.adv = @ + applied] \in Source
        BY <2>1, <2>4 DEF Source
      <3> QED BY <1>3, <3>1 DEF IInv, Rows
    <2> HIDE DEF new
    <2>8. ASSUME NEW c \in Bills PROVE BookOK(c)'
      <3>1. CASE c = b
        <4>1. BookOK(b)
          BY DEF IInv
        <4>2. /\ settled'[b].pay = settled[b].pay /\ settled'[b].exp = settled[b].exp
              /\ settled'[b].adv = settled[b].adv + applied
          BY <2>4, <2>7 DEF Source
        <4>3. settled[b].pay \in Nat /\ settled[b].exp \in Nat /\ settled[b].adv \in Nat
          BY <2>4, SourceFields
        <4> QED BY <2>1, <2>3, <2>5, <2>6, <3>1, <4>1, <4>2, <4>3 DEF BookOK, Exists
      <3>2. CASE c # b
        BY <2>6, <2>7, <3>2 DEF BookOK, Exists, IInv
      <3> QED BY <3>1, <3>2
    <2>9. ASSUME NEW c \in Bills
          PROVE  bill'[c].total = bill[c].total /\ (c \notin sess[s].held => bill'[c] = bill[c])
      BY <2>3, <2>5, <2>6
    <2>10. /\ sess' \in [Sessions -> Session]
           /\ \A t \in Sessions : RequestOK(t)' /\ CheckedOK(t)'
           /\ HeldOK'
      BY <1>1, <2>6, <2>9, OthersKeep
    <2> QED BY <2>6, <2>7, <2>8, <2>10 DEF IInv, Rows
  <1>4. sess[s] \in Session /\ sess[s].op = "apply" /\ sess[s].bill \in Bills
    BY <1>1, SessionFields DEF Ready, IInv, Rows
  <1> QED BY <1>2, <1>3, <1>4 DEF FinishApply

LEMMA RequestKeeps ==
    ASSUME IInv, NEW s \in Sessions, Request(s)
    PROVE  IInv'
  <1>1. ASSUME NEW op \in {"pay", "expense"}, NEW alloc \in Amounts,
               NEW o \in Orders(Named(alloc)), NEW x \in Extras \cup {0}, NEW m \in Extras \cup {0},
               \A b \in Named(alloc) : Exists(b),
               Start(s, [op |-> op, alloc |-> alloc, extra |-> x, manual |-> m,
                         todo |-> o, held |-> {}])
        PROVE  IInv'
    <2> DEFINE r == [op |-> op, alloc |-> alloc, extra |-> x, manual |-> m,
                     todo |-> o, held |-> {}]
    <2>1. Named(alloc) \in SUBSET Bills
      BY DEF Named
    <2>2. o \in Seq(Bills) /\ \A b \in Named(alloc) : \E i \in DOMAIN o : o[i] = b
      BY <2>1, OrdersType
    <2>3. r \in Session
      BY <2>2 DEF Session
    <2>4. \A b \in Bills : Asks(r, b) => Exists(b) /\ \E i \in DOMAIN r.todo : r.todo[i] = b
      BY <1>1, <2>2 DEF Asks, Named
    <2> QED BY <1>1, <2>3, <2>4, StartKeeps
  <1>2. ASSUME NEW b \in Bills, NEW plan \in Plans, NEW auto \in BOOLEAN,
               RequestApply(s, b, plan, auto)
        PROVE  IInv'
    <2> DEFINE r == [op |-> "apply", bill |-> b, plan |-> plan, auto |-> auto,
                     todo |-> <<b>>, held |-> {}]
    <2>1. r \in Session
      BY DEF Session
    <2>2. \A c \in Bills : Asks(r, c) => Exists(c) /\ \E i \in DOMAIN r.todo : r.todo[i] = c
      BY <1>2 DEF Asks, RequestApply
    <2> QED BY <1>2, <2>1, <2>2, StartKeeps DEF RequestApply
  <1>3. ASSUME NEW alloc \in Amounts, NEW o \in Orders(Named(alloc)),
               NEW x \in Extras \cup {0}, NEW m \in Extras \cup {0},
               \A b \in Named(alloc) : Exists(b), RequestPayment(s, alloc, o, x, m)
        PROVE  IInv'
    BY <1>1, <1>3 DEF RequestPayment
  <1>4. ASSUME NEW alloc \in Amounts, NEW o \in Orders(Named(alloc)),
               \A b \in Named(alloc) : Exists(b), RequestExpense(s, alloc, o)
        PROVE  IInv'
    BY <1>1, <1>4 DEF RequestExpense
  <1> QED BY <1>2, <1>3, <1>4 DEF Request

-----------------------------------------------------------------------------
LEMMA Initially ==
    ASSUME Init
    PROVE  IInv
  <1>1. NoBill \in Bill /\ NoBill.total = 0 /\ NoBill.paid = 0 /\ NoBill.due = 0
    BY DEF NoBill, Bill
  <1>2. Idle \in Session /\ Idle.op = "idle" /\ Idle.held = {}
    BY DEF Idle, Session
  <1>3. Rows
    BY <1>1, <1>2 DEF Init, Rows, Source
  <1>4. \A b \in Bills : BookOK(b)
    BY <1>1 DEF Init, BookOK, Exists
  <1>5. /\ \A s \in Sessions : RequestOK(s) /\ CheckedOK(s)
        /\ HeldOK
    BY <1>2 DEF Init, RequestOK, CheckedOK, HeldOK, Asks
  <1> QED BY <1>3, <1>4, <1>5 DEF IInv

LEMMA NextKeeps ==
    ASSUME IInv, [Next]_vars
    PROVE  IInv'
  <1>1. ASSUME NEW b \in Bills, CreateBill(b) PROVE IInv'
    BY <1>1, CreateBillKeeps
  <1>2. ASSUME NEW s \in Sessions, Proceed(s) PROVE IInv'
    <2>1. CASE LockBill(s)
      BY <2>1, LockBillKeeps
    <2>2. CASE GiveUp(s)
      BY <2>2, EndKeeps DEF GiveUp
    <2>3. CASE FinishPayment(s)
      BY <2>3, FinishPaymentKeeps
    <2>4. CASE FinishExpense(s)
      BY <2>4, FinishExpenseKeeps
    <2>5. CASE FinishApply(s)
      BY <2>5, FinishApplyKeeps
    <2> QED BY <1>2, <2>1, <2>2, <2>3, <2>4, <2>5 DEF Proceed
  <1>3. ASSUME NEW s \in Sessions, Rollback(s) PROVE IInv'
    BY <1>3, EndKeeps DEF Rollback
  <1>4. CASE UNCHANGED vars
    BY <1>4 DEF vars, IInv, Rows, BookOK, Exists, RequestOK, CheckedOK, HeldOK
  <1> QED BY <1>1, <1>2, <1>3, <1>4, RequestKeeps DEF Next

(* The stored columns agree with what settles a bill, and what a request  *)
(* has checked of a bill it holds the lock of is still so.                 *)
THEOREM Invariant == Spec => []IInv
  <1>1. Init => IInv
    BY Initially
  <1>2. IInv /\ [Next]_vars => IInv'
    BY NextKeeps
  <1> QED BY <1>1, <1>2, PTL DEF Spec

(* The stored columns of a bill are what the rows of payments, expenses    *)
(* and advances add up to, whichever handlers race.                        *)
THEOREM StoredAgree == Spec => []StoredMatchesSources
  <1>1. IInv => StoredMatchesSources
    BY DEF IInv, BookOK, StoredMatchesSources, SettledBy
  <1> QED BY <1>1, Invariant, PTL

-----------------------------------------------------------------------------
(* First in, first out.  Taking of each what is there, as far as the       *)
(* balance goes, takes the smaller of the balance and of all there is.     *)

LEMMA FifoSum ==
    ASSUME NEW n \in Nat, NEW balance \in Nat, NEW f, NEW take,
           \A i \in 1..n : f[i] \in Nat,
           \A i \in 1..n :
               take[i] = AtMost(f[i], Clip(balance - SumFunctionOnSet(f, 1..i-1)))
    PROVE  /\ \A i \in 1..n : take[i] \in Nat /\ take[i] <= f[i]
           /\ SumFunctionOnSet(take, 1..n) = AtMost(SumFunctionOnSet(f, 1..n), balance)
  <1> DEFINE F(k) == SumFunctionOnSet(f, 1..k)
             T(k) == SumFunctionOnSet(take, 1..k)
             Wrong == {k \in 0..n : T(k) # AtMost(F(k), balance)}
  <1>1. ASSUME NEW k \in 0..n PROVE F(k) \in Nat
    <2>1. IsFiniteSet(1..k)
      BY FS_Interval
    <2> QED BY <2>1, SumNat
  <1> HIDE DEF F
  <1>2. ASSUME NEW i \in 1..n
        PROVE  /\ take[i] = AtMost(f[i], Clip(balance - F(i - 1)))
               /\ take[i] \in Nat /\ take[i] <= f[i]
    <2>1. take[i] = AtMost(f[i], Clip(balance - F(i - 1)))
      BY DEF F
    <2>2. F(i - 1) \in Nat /\ f[i] \in Nat
      BY <1>1
    <2> QED BY <2>1, <2>2 DEF AtMost, Clip
  <1>3. T(0) = AtMost(F(0), balance)
    <2>1. 1..0 = {}
      OBVIOUS
    <2>2. F(0) = 0 /\ T(0) = 0
      BY <2>1, SumEmpty, Zenon DEF F
    <2> QED BY <2>2 DEF AtMost
  <1>4. ASSUME NEW k \in 0..n, k + 1 \in 0..n, T(k) = AtMost(F(k), balance)
        PROVE  T(k + 1) = AtMost(F(k + 1), balance)
    <2>1. k \in Nat /\ k + 1 \in 1..n /\ \A i \in 1..k+1 : i \in 1..n
      BY <1>4
    <2>2. F(k + 1) = F(k) + f[k + 1]
      BY <2>1, SumNext DEF F
    <2>3. T(k + 1) = T(k) + take[k + 1]
      BY <1>2, <2>1, SumNext
    <2>4. take[k + 1] = AtMost(f[k + 1], Clip(balance - F(k)))
      <3>1. (k + 1) - 1 = k
        BY <2>1
      <3> QED BY <1>2, <2>1, <3>1
    <2>5. F(k) \in Nat /\ f[k + 1] \in Nat
      BY <1>1, <2>1
    <2> HIDE DEF T
    <2> QED BY <1>4, <2>2, <2>3, <2>4, <2>5 DEF AtMost, Clip
  <1>5. Wrong = {}
    <2> SUFFICES ASSUME Wrong # {} PROVE FALSE
      OBVIOUS
    <2>1. Wrong \subseteq Nat
      OBVIOUS
    <2>2. PICK m \in Wrong : \A x \in Wrong : m <= x
      BY <2>1, LeastNumber
    <2>3. m \in 0..n /\ T(m) # AtMost(F(m), balance)
      BY <2>2
    <2> HIDE DEF T
    <2>4. m # 0
      BY <1>3, <2>3
    <2>5. m - 1 \in 0..n /\ (m - 1) + 1 = m /\ ~(m <= m - 1)
      BY <2>3, <2>4
    <2>6. T(m - 1) = AtMost(F(m - 1), balance)
      BY <2>2, <2>5
    <2> QED BY <1>4, <2>3, <2>5, <2>6
  <1>6. T(n) = AtMost(F(n), balance)
    BY <1>5
  <1> QED BY <1>2, <1>6 DEF F

-----------------------------------------------------------------------------
(* Advances.  What is closed has nothing left, and there is a place for the *)
(* surplus of every payment in flight: a request plans with the advances   *)
(* there can be.                                                           *)

AdvancesOK ==
    /\ advances \in Seq(Advance)
    /\ \A k \in DOMAIN advances : advances[k].status = "APPLIED" <=> advances[k].remaining = 0

Pending == {t \in Sessions : Surplus(t)}
SlotsOK == Len(advances) + Cardinality(Pending) <= MaxAdvances

(* A bill is never settled beyond its total.                               *)
DueOK(b) == bill[b].due >= 0 /\ bill[b].total <= GrandTotal[b]

MoneyInv == IInv /\ AdvancesOK /\ SlotsOK /\ \A b \in Bills : DueOK(b)

LEMMA SessionAmounts ==
    ASSUME NEW r \in Session
    PROVE  /\ r.op \in {"pay", "expense"} =>
                 /\ \A b \in Bills : r.alloc[b] <= GrandTotal[b]
                 /\ r.extra \in 0..MaxExtra /\ r.manual \in Nat
           /\ r.op = "apply" => r.plan \in Plans /\ r.auto \in BOOLEAN
  <1>1. CASE r = Idle
    BY <1>1 DEF Idle
  <1>2. CASE r \in [op : {"pay", "expense"}, alloc : Amounts, extra : Extras \cup {0},
                    manual : Extras \cup {0}, todo : Seq(Bills), held : SUBSET Bills]
    <2>1. /\ r.op \in {"pay", "expense"} /\ r.alloc \in Amounts
          /\ r.extra \in Extras \cup {0} /\ r.manual \in Extras \cup {0}
      BY <1>2
    <2>2. Extras \cup {0} \subseteq 0..MaxExtra /\ MaxExtra \in Nat
      BY PayablesAssumption
    <2> QED BY <2>1, <2>2 DEF Amounts
  <1>3. CASE r \in [op : {"apply"}, bill : Bills, plan : Plans, auto : BOOLEAN,
                    todo : Seq(Bills), held : SUBSET Bills]
    BY <1>3
  <1> QED BY <1>1, <1>2, <1>3 DEF Session

(* A request that ends has no surplus pending.                             *)
LEMMA PendingEnds ==
    ASSUME IInv, NEW s \in Sessions, End(s)
    PROVE  Pending' = Pending \ {s}
  <1>1. Idle.op = "idle"
    BY DEF Idle
  <1>2. sess'[s] = Idle /\ \A t \in Sessions \ {s} : sess'[t] = sess[t]
    BY DEF End, IInv, Rows
  <1>3. ASSUME NEW t \in Sessions PROVE Surplus(t)' <=> Surplus(t) /\ t # s
    BY <1>1, <1>2 DEF Surplus
  <1> QED BY <1>3 DEF Pending

LEMMA PendingFinite ==
    /\ IsFiniteSet(Pending) /\ Cardinality(Pending) \in Nat
    /\ IsFiniteSet(Pending') /\ Cardinality(Pending') \in Nat
  <1>1. IsFiniteSet(Sessions)
    BY PayablesAssumption
  <1>2. Pending \in SUBSET Sessions /\ Pending' \in SUBSET Sessions
    BY DEF Pending
  <1>3. IsFiniteSet(Pending) /\ IsFiniteSet(Pending')
    BY <1>1, <1>2, FS_Subset
  <1> QED BY <1>3, FS_CardinalityType

(* No advance is added and no request with a surplus comes in.             *)
LEMMA SlotsKept ==
    ASSUME AdvancesOK, AdvancesOK', SlotsOK, Len(advances') = Len(advances), Pending' \subseteq Pending
    PROVE  SlotsOK'
  <1>1. Cardinality(Pending') <= Cardinality(Pending)
    BY PendingFinite, FS_Subset
  <1>2. Len(advances) \in Nat /\ MaxAdvances \in Nat
    BY Constants DEF AdvancesOK
  <1> QED BY <1>1, <1>2, PendingFinite DEF SlotsOK

LEMMA Started ==
    ASSUME IInv, NEW s \in Sessions, NEW r \in Session, Start(s, r)
    PROVE  Pending' = IF r.op = "pay" /\ r.extra > 0 THEN Pending \cup {s} ELSE Pending
  <1>1. /\ sess'[s] = r /\ sess[s] = Idle
        /\ \A t \in Sessions \ {s} : sess'[t] = sess[t]
    BY DEF Start, IInv, Rows
  <1>2. ~Surplus(s)
    BY <1>1 DEF Surplus, Idle
  <1>3. ASSUME NEW t \in Sessions, t # s PROVE Surplus(t)' <=> Surplus(t)
    BY <1>1, <1>3 DEF Surplus
  <1>4. Surplus(s)' <=> r.op = "pay" /\ r.extra > 0
    BY <1>1 DEF Surplus
  <1> QED BY <1>2, <1>3, <1>4 DEF Pending

(* Taking a lock leaves what a request asks for.                           *)
LEMMA LockedPending ==
    ASSUME IInv, NEW s \in Sessions, LockBill(s)
    PROVE  Pending' \subseteq Pending
  <1>1. CASE End(s)
    BY <1>1, PendingEnds
  <1>2. CASE Hold(s, Head(sess[s].todo))
    <2>1. /\ sess[s] \in Session /\ sess[s].op \in {"pay", "expense", "apply"}
          /\ sess[s].todo # <<>>
      BY DEF LockBill, Locking, IInv, Rows
    <2>2. sess[s].todo \in Seq(Bills)
      BY <2>1, SessionFields
    <2>3. Head(sess[s].todo) \in Bills /\ Tail(sess[s].todo) \in Seq(Bills)
      BY <2>1, <2>2
    <2> DEFINE next == Holding(sess[s], Head(sess[s].todo))
    <2>4. sess'[s] = next /\ \A t \in Sessions \ {s} : sess'[t] = sess[t]
      BY <1>2 DEF Hold, Holding, IInv, Rows
    <2>5. next.op = sess[s].op /\ (sess[s].op = "pay" => next.extra = sess[s].extra)
      BY <2>1, <2>3, HoldFields
    <2> HIDE DEF next
    <2>6. ASSUME NEW t \in Sessions PROVE Surplus(t)' => Surplus(t)
      BY <2>4, <2>5 DEF Surplus
    <2> QED BY <2>6 DEF Pending
  <1> QED BY <1>1, <1>2 DEF LockBill

-----------------------------------------------------------------------------
(* Applying advances.                                                      *)

Balance(s) == bill[sess[s].bill].total - bill[sess[s].bill].paid
Taken(s) == [k \in DOMAIN advances |-> Take(sess[s], k, Balance(s))]
Applied(s) == SumFunction(Taken(s))
Granted(s) ==
    Applied(s) \in Nat \ {0} /\ (sess[s].auto \/ Allowed(Taken(s), Balance(s)))

(* What is applied of an advance is there, and together it is not more     *)
(* than the bill leaves open: taken in FIFO order or as the request plans. *)
LEMMA TakenOK ==
    ASSUME MoneyInv, NEW s \in Sessions, Ready(s, "apply"), Granted(s)
    PROVE  /\ sess[s].bill \in Bills /\ Balance(s) = bill[sess[s].bill].due
           /\ \A k \in DOMAIN advances :
                 Taken(s)[k] \in Nat /\ Taken(s)[k] <= advances[k].remaining
           /\ Applied(s) <= Balance(s)
  <1> DEFINE b == sess[s].bill
             n == Len(advances)
             take == Taken(s)
             f == [k \in DOMAIN advances |-> Available(k)]
  <1>1. sess[s] \in Session /\ sess[s].op = "apply"
    BY DEF Ready, MoneyInv, IInv, Rows
  <1>2. b \in Bills /\ sess[s].plan \in Plans /\ sess[s].auto \in BOOLEAN
    BY <1>1, SessionFields, SessionAmounts
  <1>3. Balance(s) = bill[b].due /\ Balance(s) \in Nat
    <2>1. bill[b].due \in Int /\ bill[b].due >= 0
      BY <1>2, BillFields DEF MoneyInv, IInv, Rows, DueOK
    <2>2. Balance(s) = bill[b].due
      BY <1>2 DEF MoneyInv, IInv, BookOK, Balance
    <2> QED BY <2>1, <2>2
  <1>4. /\ n \in Nat /\ DOMAIN advances = 1..n
        /\ \A k \in 1..n : advances[k] \in Advance /\ advances[k].remaining \in Nat
    <2>1. advances \in Seq(Advance)
      BY DEF MoneyInv, AdvancesOK
    <2>2. n \in Nat /\ DOMAIN advances = 1..n /\ \A k \in 1..n : advances[k] \in Advance
      BY <2>1
    <2>3. \A a \in Advance : a.remaining \in Nat
      BY DEF Advance
    <2> QED BY <2>2, <2>3
  <1> HIDE DEF n
  <1>5. ASSUME NEW k \in 1..n
        PROVE  /\ Available(k) \in Nat /\ Available(k) <= advances[k].remaining
               /\ take[k] = Take(sess[s], k, Balance(s))
    BY <1>4 DEF Available, Taken
  <1>6. CASE sess[s].auto
    <2>1. ASSUME NEW i \in 1..n
          PROVE  take[i] = AtMost(f[i], Clip(Balance(s) - SumFunctionOnSet(f, 1..i-1)))
      <3> DEFINE g == [j \in 1..i-1 |-> Available(j)]
      <3>1. \A j \in 1..i-1 : j \in 1..n
        BY <1>4
      <3>2. \A j \in 1..i-1 : g[j] = f[j] /\ g[j] \in Int
        BY <1>4, <1>5, <3>1
      <3>3. IsFiniteSet(1..i-1) /\ DOMAIN g = 1..i-1
        BY <1>4, FS_Interval
      <3>4. SumFunction(g) = SumFunctionOnSet(g, 1..i-1)
        BY <3>3 DEF SumFunction
      <3> HIDE DEF g, f
      <3>5. SumFunction(g) = SumFunctionOnSet(f, 1..i-1)
        BY <3>2, <3>3, <3>4, SumSame
      <3>6. AvailableBefore(i) = SumFunctionOnSet(f, 1..i-1)
        BY <3>5 DEF AvailableBefore, g
      <3>7. f[i] = Available(i)
        BY <1>4 DEF f
      <3> QED BY <1>5, <1>6, <3>6, <3>7 DEF Take, FifoTake
    <2>2. \A i \in 1..n : f[i] = Available(i) /\ f[i] \in Nat
      BY <1>4, <1>5
    <2> HIDE DEF f, take
    <2>3. /\ \A i \in 1..n : take[i] \in Nat /\ take[i] <= f[i]
          /\ SumFunctionOnSet(take, 1..n) = AtMost(SumFunctionOnSet(f, 1..n), Balance(s))
      <3>1. n \in Nat /\ Balance(s) \in Nat /\ \A i \in 1..n : f[i] \in Nat
        BY <1>3, <1>4, <2>2
      <3> QED BY ONLY <2>1, <3>1, FifoSum, Zenon
    <2>4. SumFunctionOnSet(f, 1..n) \in Nat
      <3>1. IsFiniteSet(1..n)
        BY <1>4, FS_Interval
      <3> QED BY <2>2, <3>1, SumNat
    <2>5. SumFunctionOnSet(take, 1..n) <= Balance(s)
      BY <1>3, <2>3, <2>4 DEF AtMost
    <2>6. DOMAIN take = 1..n
      BY <1>4 DEF take, Taken
    <2>7. Applied(s) = SumFunctionOnSet(take, 1..n)
      BY <2>6 DEF Applied, take, SumFunction
    <2>8. ASSUME NEW k \in 1..n PROVE take[k] \in Nat /\ take[k] <= advances[k].remaining
      <3>1. PICK open \in Nat : open = f[k]
        BY <2>2
      <3>2. PICK rest \in Nat : rest = advances[k].remaining /\ open <= rest
        BY <1>4, <1>5, <2>2, <3>1
      <3>3. take[k] \in Nat /\ take[k] <= open
        BY <2>3, <3>1
      <3> QED BY ONLY <3>2, <3>3, open \in Nat, rest \in Nat
    <2> QED BY <1>2, <1>3, <1>4, <2>5, <2>7, <2>8 DEF take
  <1>7. CASE ~sess[s].auto
    <2>1. Allowed(take, Balance(s))
      BY <1>7 DEF Granted
    <2>2. n <= MaxAdvances /\ MaxAdvances \in Nat
      BY <1>4, Constants, PendingFinite DEF MoneyInv, SlotsOK, n
    <2>3. ASSUME NEW k \in 1..n PROVE take[k] \in Nat /\ take[k] <= advances[k].remaining
      <3>1. take[k] = sess[s].plan[k]
        BY <1>5, <1>7 DEF Take
      <3>2. sess[s].plan[k] \in Nat
        BY <1>2, <1>4, <2>2, Constants DEF Plans
      <3> HIDE DEF take
      <3>3. take[k] > 0 => take[k] <= advances[k].remaining
        BY <1>4, <2>1 DEF Allowed
      <3> QED BY <1>4, <3>1, <3>2, <3>3
    <2> QED BY <1>2, <1>3, <1>4, <2>1, <2>3 DEF Allowed, Applied
  <1> QED BY <1>6, <1>7

LEMMA AdvanceFields ==
    ASSUME NEW a \in Advance
    PROVE  a.amount \in Nat /\ a.remaining \in Nat /\ a.status \in {"OPEN", "APPLIED"}
  BY DEF Advance

LEMMA DrawDownIs ==
    ASSUME NEW a \in Advance, NEW n \in Nat, n <= a.remaining,
           a.status = "APPLIED" <=> a.remaining = 0
    PROVE  /\ DrawDown(a, n) \in Advance
           /\ DrawDown(a, n).amount = a.amount /\ DrawDown(a, n).remaining = a.remaining - n
           /\ DrawDown(a, n).status = "APPLIED" <=> DrawDown(a, n).remaining = 0
  <1>1. a.amount \in Nat /\ a.remaining \in Nat /\ a.status \in {"OPEN", "APPLIED"}
    BY AdvanceFields
  <1> DEFINE left == a.remaining - n
             mark == IF n > 0 /\ left <= 0 THEN "APPLIED" ELSE a.status
             one == [a EXCEPT !.remaining = left]
  <1>2. left \in Nat /\ mark \in {"OPEN", "APPLIED"} /\ (mark = "APPLIED" <=> left = 0)
    BY <1>1
  <1>3. DrawDown(a, n) = [one EXCEPT !.status = mark]
    BY DEF DrawDown
  <1> HIDE DEF left, mark
  <1>4. one \in Advance /\ one.amount = a.amount /\ one.remaining = left
    BY <1>2 DEF Advance
  <1> HIDE DEF one
  <1>5. /\ DrawDown(a, n) \in Advance /\ DrawDown(a, n).amount = one.amount
        /\ DrawDown(a, n).remaining = one.remaining /\ DrawDown(a, n).status = mark
    BY <1>2, <1>3, <1>4 DEF Advance
  <1> QED BY <1>2, <1>4, <1>5 DEF left

(* What a vendor is owed on bills, and what advances have settled of them. *)
Owed == SumFunction([b \in Bills |-> bill[b].due])
FromAdvances == SumFunction([b \in Bills |-> settled[b].adv])

LEMMA AdvanceRows ==
    ASSUME AdvancesOK
    PROVE  /\ Len(advances) \in Nat /\ DOMAIN advances = 1..Len(advances)
           /\ IsFiniteSet(DOMAIN advances)
           /\ \A k \in DOMAIN advances :
                 advances[k] \in Advance /\ advances[k].remaining \in Nat /\ advances[k].amount \in Nat
  <1>1. advances \in Seq(Advance)
    BY DEF AdvancesOK
  <1>2. Len(advances) \in Nat /\ DOMAIN advances = 1..Len(advances)
        /\ \A k \in DOMAIN advances : advances[k] \in Advance
    BY <1>1
  <1>3. IsFiniteSet(DOMAIN advances)
    BY <1>2, FS_Interval
  <1> QED BY <1>2, <1>3, AdvanceFields

(* The rows drawn down have less left, by what is applied.                 *)
LEMMA DrawnDown ==
    ASSUME MoneyInv, NEW s \in Sessions, Ready(s, "apply"), Granted(s),
           advances' = [k \in DOMAIN advances |-> DrawDown(advances[k], Taken(s)[k])]
    PROVE  /\ AdvancesOK' /\ Len(advances') = Len(advances)
           /\ Remaining' = Remaining - Applied(s) /\ Applied(s) <= Remaining
           /\ Drawn' = Drawn + Applied(s)
  <1> DEFINE n == Len(advances)
             take == Taken(s)
             rem == [k \in DOMAIN advances |-> advances[k].remaining]
             remNew == [k \in DOMAIN advances' |-> advances'[k].remaining]
             used == [k \in DOMAIN advances |-> advances[k].amount - advances[k].remaining]
             usedNew == [k \in DOMAIN advances' |-> advances'[k].amount - advances'[k].remaining]
  <1>1. /\ n \in Nat /\ DOMAIN advances = 1..n /\ IsFiniteSet(1..n)
        /\ \A k \in 1..n : /\ advances[k] \in Advance /\ advances[k].remaining \in Nat
                           /\ advances[k].amount \in Nat
    BY AdvanceRows DEF MoneyInv
  <1> HIDE DEF n
  <1>2. \A k \in 1..n : take[k] \in Nat /\ take[k] <= advances[k].remaining
    BY <1>1, TakenOK
  <1>3. ASSUME NEW k \in 1..n
        PROVE  /\ advances'[k] \in Advance /\ advances'[k].amount = advances[k].amount
               /\ advances'[k].remaining = advances[k].remaining - take[k]
               /\ advances'[k].status = "APPLIED" <=> advances'[k].remaining = 0
    <2>1. advances'[k] = DrawDown(advances[k], take[k])
      BY <1>1
    <2>2. advances[k].status = "APPLIED" <=> advances[k].remaining = 0
      BY <1>1 DEF MoneyInv, AdvancesOK
    <2> HIDE DEF take
    <2> QED BY <1>1, <1>2, <2>1, <2>2, DrawDownIs
  <1>4. advances' \in Seq(Advance) /\ Len(advances') = n /\ DOMAIN advances' = 1..n
    <2>1. advances' \in [1..n -> Advance]
      BY <1>1, <1>3
    <2> QED BY <1>1, <2>1, RewriteRows
  <1>5. AdvancesOK'
    BY <1>3, <1>4 DEF AdvancesOK
  <1>6. /\ DOMAIN take = 1..n /\ DOMAIN rem = 1..n /\ DOMAIN remNew = 1..n
        /\ DOMAIN used = 1..n /\ DOMAIN usedNew = 1..n
    BY <1>1, <1>4 DEF Taken
  <1>7. \A k \in 1..n : /\ take[k] \in Nat /\ rem[k] \in Nat /\ remNew[k] \in Nat
                        /\ used[k] \in Int /\ take[k] <= rem[k]
                        /\ rem[k] = remNew[k] + take[k] /\ usedNew[k] = used[k] + take[k]
    <2> SUFFICES ASSUME NEW k \in 1..n
                 PROVE  /\ take[k] \in Nat /\ rem[k] \in Nat /\ remNew[k] \in Nat
                        /\ used[k] \in Int /\ take[k] <= rem[k]
                        /\ rem[k] = remNew[k] + take[k] /\ usedNew[k] = used[k] + take[k]
      OBVIOUS
    <2>1. /\ rem[k] = advances[k].remaining /\ used[k] = advances[k].amount - advances[k].remaining
          /\ remNew[k] = advances'[k].remaining
          /\ usedNew[k] = advances'[k].amount - advances'[k].remaining
      BY <1>1, <1>4
    <2> HIDE DEF take, rem, remNew, used, usedNew
    <2> QED BY <1>1, <1>2, <1>3, <2>1
  <1>8. /\ Applied(s) = SumFunctionOnSet(take, 1..n)
        /\ Remaining = SumFunctionOnSet(rem, 1..n) /\ Remaining' = SumFunctionOnSet(remNew, 1..n)
        /\ Drawn = SumFunctionOnSet(used, 1..n) /\ Drawn' = SumFunctionOnSet(usedNew, 1..n)
    <2>1. /\ Applied(s) = SumFunctionOnSet(take, DOMAIN take)
          /\ Remaining = SumFunctionOnSet(rem, DOMAIN rem)
          /\ Remaining' = SumFunctionOnSet(remNew, DOMAIN remNew)
          /\ Drawn = SumFunctionOnSet(used, DOMAIN used)
          /\ Drawn' = SumFunctionOnSet(usedNew, DOMAIN usedNew)
      BY DEF Applied, Remaining, Drawn, SumFunction
    <2> HIDE DEF take, rem, remNew, used, usedNew
    <2> QED BY <1>6, <2>1, Zenon
  <1> HIDE DEF take, rem, remNew, used, usedNew
  <1>9. /\ SumFunctionOnSet(take, 1..n) \in Int /\ SumFunctionOnSet(rem, 1..n) \in Int
        /\ SumFunctionOnSet(remNew, 1..n) \in Int /\ SumFunctionOnSet(used, 1..n) \in Int
    <2>1. \A k \in 1..n : take[k] \in Int /\ rem[k] \in Int /\ remNew[k] \in Int /\ used[k] \in Int
      BY <1>7
    <2> QED BY <1>1, <2>1, SumInt
  <1>10. SumFunctionOnSet(rem, 1..n) = SumFunctionOnSet(remNew, 1..n) + SumFunctionOnSet(take, 1..n)
    <2>1. \A k \in 1..n : remNew[k] \in Int /\ take[k] \in Int /\ rem[k] = remNew[k] + take[k]
      BY <1>7
    <2> QED BY <1>1, <2>1, SumPlus
  <1>11. SumFunctionOnSet(usedNew, 1..n) = SumFunctionOnSet(used, 1..n) + SumFunctionOnSet(take, 1..n)
    <2>1. \A k \in 1..n : used[k] \in Int /\ take[k] \in Int /\ usedNew[k] = used[k] + take[k]
      BY <1>7
    <2> QED BY <1>1, <2>1, SumPlus
  <1>12. SumFunctionOnSet(take, 1..n) <= SumFunctionOnSet(rem, 1..n)
    <2>1. \A k \in 1..n : take[k] \in Int /\ rem[k] \in Int /\ take[k] <= rem[k]
      BY <1>7
    <2> QED BY <1>1, <2>1, SumLeq
  <1> QED BY <1>4, <1>5, <1>8, <1>9, <1>10, <1>11, <1>12 DEF n

-----------------------------------------------------------------------------
(* What each step does to the sums.                                        *)

LEMMA SumOfBills ==
    ASSUME NEW f, \A b \in Bills : f[b] \in Int, DOMAIN f = Bills
    PROVE  SumFunction(f) = SumFunctionOnSet(f, Bills) /\ SumFunction(f) \in Int
  <1>1. SumFunction(f) = SumFunctionOnSet(f, Bills)
    BY Zenon DEF SumFunction
  <1> QED BY <1>1, Constants, SumInt

(* A payment or an expense takes from each bill it names what it settles.  *)
LEMMA Settles ==
    ASSUME MoneyInv, NEW s \in Sessions, FinishPayment(s) \/ FinishExpense(s)
    PROVE  /\ End(s) /\ sess[s] \in Session /\ sess[s].op \in {"pay", "expense"}
           /\ sess[s].alloc \in [Bills -> Nat]
           /\ \A b \in Bills :
                 /\ sess[s].alloc[b] <= GrandTotal[b] /\ sess[s].alloc[b] <= bill[b].due
                 /\ bill'[b].total = bill[b].total
                 /\ bill'[b].due = bill[b].due - sess[s].alloc[b]
                 /\ settled'[b].adv = settled[b].adv
  <1> DEFINE alloc == sess[s].alloc
  <1>1. PICK op \in {"pay", "expense"} : Ready(s, op) /\ End(s)
    BY DEF FinishPayment, FinishExpense
  <1>2. IInv
    BY DEF MoneyInv
  <1>3. /\ alloc \in [Bills -> Nat]
        /\ \A b \in Bills : alloc[b] > 0 => alloc[b] <= bill[b].due
    BY <1>1, <1>2, ReadyHolds
  <1>4. sess[s] \in Session /\ sess[s].op \in {"pay", "expense"}
    BY <1>1 DEF Ready, MoneyInv, IInv, Rows
  <1>5. ASSUME NEW b \in Bills
        PROVE  /\ alloc[b] <= GrandTotal[b] /\ alloc[b] <= bill[b].due
               /\ bill'[b].total = bill[b].total
               /\ bill'[b].due = bill[b].due - alloc[b]
               /\ settled'[b].adv = settled[b].adv
    <2>1. alloc[b] <= GrandTotal[b]
      BY <1>4, SessionAmounts
    <2>2. /\ bill[b] \in Bill /\ bill[b].total \in Nat /\ bill[b].paid \in Int
          /\ bill[b].due \in Int /\ bill[b].due >= 0 /\ settled[b] \in Source
          /\ bill[b].due = bill[b].total - bill[b].paid
      BY <1>2, BillFields DEF MoneyInv, IInv, Rows, DueOK, BookOK
    <2>3. alloc[b] \in Nat /\ alloc[b] <= bill[b].due
      BY <1>3, <2>2
    <2>4. settled'[b].adv = settled[b].adv
      BY <2>2 DEF FinishPayment, FinishExpense, Source
    <2>5. bill'[b] = IF alloc[b] > 0
                     THEN Columns(bill[b].total, bill[b].paid + alloc[b], bill[b].due - alloc[b])
                     ELSE bill[b]
      <3>1. \/ bill'[b] = IF alloc[b] > 0 THEN AfterPayment(bill[b], alloc[b]) ELSE bill[b]
            \/ bill'[b] = IF alloc[b] > 0 THEN AfterExpense(bill[b], alloc[b]) ELSE bill[b]
        BY DEF FinishPayment, FinishExpense
      <3> HIDE DEF alloc
      <3> QED BY <2>2, <2>3, <3>1, Settling
    <2> HIDE DEF alloc
    <2>6. CASE alloc[b] > 0
      <3>1. PICK paid \in Int : paid = bill[b].paid + alloc[b]
        BY <2>2, <2>3
      <3>3. PICK due \in Int : due = bill[b].due - alloc[b]
        BY <2>2, <2>3
      <3>4. bill'[b] = Columns(bill[b].total, paid, due) /\ bill[b].total \in Nat
        BY <2>2, <2>5, <2>6, <3>1, <3>3
      <3>5. bill'[b].total = bill[b].total /\ bill'[b].due = due
        BY ONLY <3>4 DEF Columns
      <3>2. bill'[b].total = bill[b].total /\ bill'[b].due = bill[b].due - alloc[b]
        BY <3>3, <3>5
      <3> QED BY ONLY <2>1, <2>3, <2>4, <3>2
    <2>7. CASE ~(alloc[b] > 0)
      BY <2>1, <2>2, <2>3, <2>4, <2>5, <2>7
    <2> QED BY <2>6, <2>7
  <1> QED BY <1>1, <1>3, <1>4, <1>5

LEMMA SettlingSums ==
    ASSUME MoneyInv, NEW s \in Sessions, FinishPayment(s) \/ FinishExpense(s)
    PROVE  /\ SumFunction(sess[s].alloc) \in Nat
           /\ SumFunction(sess[s].alloc) <= Owed
           /\ SumFunction(sess[s].alloc) <= SumFunction(GrandTotal)
           /\ Owed' = Owed - SumFunction(sess[s].alloc)
           /\ FromAdvances' = FromAdvances
           /\ \A b \in Bills : DueOK(b)'
  <1> DEFINE alloc == sess[s].alloc
             due == [b \in Bills |-> bill[b].due]
             dueNew == [b \in Bills |-> bill'[b].due]
             adv == [b \in Bills |-> settled[b].adv]
             advNew == [b \in Bills |-> settled'[b].adv]
  <1>1. /\ alloc \in [Bills -> Nat]
        /\ \A b \in Bills :
              /\ alloc[b] <= GrandTotal[b] /\ alloc[b] <= bill[b].due
              /\ bill'[b].total = bill[b].total /\ bill'[b].due = bill[b].due - alloc[b]
              /\ settled'[b].adv = settled[b].adv
    BY Settles
  <1>2. \A b \in Bills :
           /\ bill[b].due \in Int /\ bill[b].total <= GrandTotal[b] /\ settled[b].adv \in Int
           /\ GrandTotal[b] \in Int
    BY BillFields, SourceFields, Constants DEF MoneyInv, IInv, Rows, DueOK
  <1> HIDE DEF alloc
  <1>3. \A b \in Bills :
           /\ alloc[b] \in Int /\ due[b] \in Int /\ dueNew[b] \in Int /\ GrandTotal[b] \in Int
           /\ alloc[b] <= due[b] /\ alloc[b] <= GrandTotal[b] /\ due[b] = dueNew[b] + alloc[b]
           /\ adv[b] \in Int /\ advNew[b] = adv[b]
    BY <1>1, <1>2
  <1>4. \A b \in Bills : alloc[b] \in Nat
    BY <1>1
  <1>5. \A b \in Bills : DueOK(b)'
    BY <1>1, <1>2 DEF DueOK
  <1>6. /\ DOMAIN alloc = Bills /\ DOMAIN due = Bills /\ DOMAIN dueNew = Bills
        /\ DOMAIN adv = Bills /\ DOMAIN advNew = Bills /\ DOMAIN GrandTotal = Bills
    BY <1>1, PayablesAssumption
  <1>7. /\ Owed = SumFunction(due) /\ Owed' = SumFunction(dueNew)
        /\ FromAdvances = SumFunction(adv) /\ FromAdvances' = SumFunction(advNew)
    BY DEF Owed, FromAdvances
  <1> HIDE DEF due, dueNew, adv, advNew
  <1>8. adv = advNew
    BY <1>3 DEF adv, advNew
  <1>9. /\ SumFunction(alloc) = SumFunctionOnSet(alloc, Bills) /\ SumFunction(alloc) \in Int
        /\ SumFunction(due) = SumFunctionOnSet(due, Bills) /\ SumFunction(due) \in Int
        /\ SumFunction(dueNew) = SumFunctionOnSet(dueNew, Bills) /\ SumFunction(dueNew) \in Int
        /\ SumFunction(GrandTotal) = SumFunctionOnSet(GrandTotal, Bills)
    BY <1>3, <1>6, SumOfBills
  <1>10. IsFiniteSet(Bills)
    BY Constants
  <1>11. SumFunctionOnSet(due, Bills) = SumFunctionOnSet(dueNew, Bills) + SumFunctionOnSet(alloc, Bills)
    BY <1>3, <1>10, SumPlus
  <1>12. SumFunctionOnSet(alloc, Bills) <= SumFunctionOnSet(due, Bills)
    BY <1>3, <1>10, SumLeq
  <1>13. SumFunctionOnSet(alloc, Bills) <= SumFunctionOnSet(GrandTotal, Bills)
    BY <1>3, <1>10, SumLeq
  <1>14. SumFunctionOnSet(alloc, Bills) \in Nat
    BY <1>4, <1>10, SumNat
  <1> QED BY <1>5, <1>7, <1>8, <1>9, <1>11, <1>12, <1>13, <1>14 DEF alloc

(* The surplus of a payment becomes an advance.                            *)
LEMMA PaymentAdvances ==
    ASSUME MoneyInv, NEW s \in Sessions, FinishPayment(s)
    PROVE  /\ AdvancesOK' /\ SlotsOK'
           /\ sess[s].extra \in 0..MaxExtra
           /\ Remaining' = Remaining + sess[s].extra /\ Drawn' = Drawn
  <1> DEFINE n == Len(advances)
             x == sess[s].extra
             row == [amount |-> x, remaining |-> x, status |-> "OPEN"]
  <1>1. /\ n \in Nat /\ DOMAIN advances = 1..n /\ IsFiniteSet(1..n)
        /\ \A k \in 1..n : /\ advances[k] \in Advance /\ advances[k].remaining \in Nat
                           /\ advances[k].amount \in Nat
    BY AdvanceRows DEF MoneyInv
  <1>2. x \in 0..MaxExtra /\ x \in Nat
    BY Settles, SessionAmounts, PayablesAssumption
  <1>3. Pending' = Pending \ {s}
    BY PendingEnds DEF MoneyInv, FinishPayment
  <1>4. Remaining \in Int /\ Drawn \in Int
    <2> DEFINE rem == [k \in DOMAIN advances |-> advances[k].remaining]
               used == [k \in DOMAIN advances |-> advances[k].amount - advances[k].remaining]
    <2>1. \A k \in 1..n : rem[k] \in Int /\ used[k] \in Int
      BY <1>1
    <2>2. DOMAIN rem = 1..n /\ DOMAIN used = 1..n
      BY <1>1
    <2>3. Remaining = SumFunctionOnSet(rem, DOMAIN rem) /\ Drawn = SumFunctionOnSet(used, DOMAIN used)
      BY DEF Remaining, Drawn, SumFunction
    <2> HIDE DEF rem, used, n
    <2>4. Remaining = SumFunctionOnSet(rem, 1..n) /\ Drawn = SumFunctionOnSet(used, 1..n)
      BY <2>2, <2>3, Zenon
    <2> QED BY <1>1, <2>1, <2>4, SumInt
  <1>5. CASE x = 0
    <2>1. advances' = advances
      BY <1>5 DEF FinishPayment
    <2>2. AdvancesOK'
      BY <2>1 DEF MoneyInv, AdvancesOK
    <2>3. SlotsOK'
      BY <1>3, <2>1, <2>2, SlotsKept DEF MoneyInv
    <2>4. Remaining' = Remaining /\ Drawn' = Drawn
      BY <2>1 DEF Remaining, Drawn
    <2> QED BY <1>2, <1>4, <1>5, <2>2, <2>3, <2>4
  <1>6. CASE x # 0
    <2>1. advances' = Append(advances, row) /\ row \in Advance
      BY <1>2, <1>6 DEF FinishPayment, Advance
    <2>2. row.amount = x /\ row.remaining = x /\ row.status = "OPEN"
      OBVIOUS
    <2> HIDE DEF row
    <2>3. advances \in Seq(Advance)
      BY DEF MoneyInv, AdvancesOK
    <2>4. /\ advances' \in Seq(Advance) /\ Len(advances') = n + 1
          /\ advances'[n + 1] = row /\ \A k \in 1..n : advances'[k] = advances[k]
      BY <1>1, <2>1, <2>3, AppendRow
    <2>5. DOMAIN advances' = 1..n+1
      BY <2>4
    <2>6. \A k \in 1..n+1 : k \in 1..n \/ k = n + 1
      BY <1>1
    <2>7. AdvancesOK'
      <3>1. \A k \in 1..n : advances[k].status = "APPLIED" <=> advances[k].remaining = 0
        BY <1>1 DEF MoneyInv, AdvancesOK
      <3> QED BY <1>6, <2>2, <2>4, <2>5, <2>6, <3>1 DEF AdvancesOK
    <2>8. SlotsOK'
      <3>1. Surplus(s)
        BY <1>2, <1>6 DEF Surplus, FinishPayment, Ready
      <3>2. s \in Pending
        BY <3>1 DEF Pending
      <3>3. Cardinality(Pending') = Cardinality(Pending) - 1
        BY <1>3, <3>2, PendingFinite, FS_RemoveElement
      <3>4. n + Cardinality(Pending) <= MaxAdvances
        BY DEF MoneyInv, SlotsOK
      <3> QED BY <1>1, <2>4, <3>3, <3>4, PendingFinite, Constants DEF SlotsOK
    <2> DEFINE rem == [k \in DOMAIN advances |-> advances[k].remaining]
               remNew == [k \in DOMAIN advances' |-> advances'[k].remaining]
               used == [k \in DOMAIN advances |-> advances[k].amount - advances[k].remaining]
               usedNew == [k \in DOMAIN advances' |-> advances'[k].amount - advances'[k].remaining]
    <2>9. \A k \in 1..n : remNew[k] = rem[k] /\ usedNew[k] = used[k]
                          /\ rem[k] \in Int /\ used[k] \in Int
      BY <1>1, <2>4, <2>5
    <2>10. remNew[n + 1] = x /\ usedNew[n + 1] = 0
      <3>1. n + 1 \in DOMAIN advances'
        BY <1>1, <2>5
      <3>2. remNew[n + 1] = x /\ usedNew[n + 1] = x - x
        BY <2>2, <2>4, <3>1
      <3> QED BY <1>2, <3>2
    <2>11. /\ DOMAIN rem = 1..n /\ DOMAIN remNew = 1..n+1
           /\ DOMAIN used = 1..n /\ DOMAIN usedNew = 1..n+1
      BY <1>1, <2>5
    <2>12. /\ Remaining = SumFunctionOnSet(rem, DOMAIN rem)
           /\ Remaining' = SumFunctionOnSet(remNew, DOMAIN remNew)
           /\ Drawn = SumFunctionOnSet(used, DOMAIN used)
           /\ Drawn' = SumFunctionOnSet(usedNew, DOMAIN usedNew)
      BY DEF Remaining, Drawn, SumFunction
    <2> HIDE DEF rem, remNew, used, usedNew, n, x
    <2>13. /\ Remaining = SumFunctionOnSet(rem, 1..n)
           /\ Remaining' = SumFunctionOnSet(remNew, 1..n+1)
           /\ Drawn = SumFunctionOnSet(used, 1..n)
           /\ Drawn' = SumFunctionOnSet(usedNew, 1..n+1)
      BY <2>11, <2>12, Zenon
    <2>14. \A k \in 1..n+1 : remNew[k] \in Int /\ usedNew[k] \in Int
      BY <1>2, <2>6, <2>9, <2>10
    <2>15. SumFunctionOnSet(remNew, 1..n+1) = SumFunctionOnSet(rem, 1..n) + remNew[n + 1]
      BY <1>1, <2>9, <2>14, SumNext
    <2>16. SumFunctionOnSet(usedNew, 1..n+1) = SumFunctionOnSet(used, 1..n) + usedNew[n + 1]
      BY <1>1, <2>9, <2>14, SumNext
    <2> QED BY <1>2, <1>4, <2>7, <2>8, <2>10, <2>13, <2>15, <2>16 DEF x
  <1> QED BY <1>5, <1>6

LEMMA FinishApplyIs ==
    ASSUME NEW s \in Sessions, FinishApply(s)
    PROVE  /\ Ready(s, "apply") /\ End(s)
           /\ \/ UNCHANGED <<bill, settled, advances, gl>>
              \/ /\ Granted(s)
                 /\ advances' = [k \in DOMAIN advances |-> DrawDown(advances[k], Taken(s)[k])]
                 /\ bill' = [bill EXCEPT ![sess[s].bill] =
                        Columns(@.total, @.paid + Applied(s), @.total - (@.paid + Applied(s)))]
                 /\ settled' = [settled EXCEPT ![sess[s].bill].adv = @ + Applied(s)]
                 /\ gl' = [payable |-> gl.payable - Applied(s), advance |-> gl.advance - Applied(s)]
  <1>1. Ready(s, "apply") /\ End(s)
    BY DEF FinishApply
  <1>2. \A k \in DOMAIN advances : Taken(s)[k] = Take(sess[s], k, Balance(s))
    BY DEF Taken
  <1>3. \/ UNCHANGED <<bill, settled, advances, gl>>
        \/ /\ Granted(s)
           /\ advances' = [k \in DOMAIN advances |-> DrawDown(advances[k], Taken(s)[k])]
           /\ bill' = [bill EXCEPT ![sess[s].bill] =
                  Columns(@.total, @.paid + Applied(s), @.total - (@.paid + Applied(s)))]
           /\ settled' = [settled EXCEPT ![sess[s].bill].adv = @ + Applied(s)]
           /\ gl' = [payable |-> gl.payable - Applied(s), advance |-> gl.advance - Applied(s)]
    BY <1>2, Zenon DEF FinishApply, Granted, Applied, Taken, Balance
  <1> QED BY <1>1, <1>3

LEMMA ApplyingSums ==
    ASSUME MoneyInv, NEW s \in Sessions, Ready(s, "apply"), Granted(s),
           bill' = [bill EXCEPT ![sess[s].bill] =
               Columns(@.total, @.paid + Applied(s), @.total - (@.paid + Applied(s)))],
           settled' = [settled EXCEPT ![sess[s].bill].adv = @ + Applied(s)]
    PROVE  /\ Applied(s) <= Owed /\ Applied(s) <= SumFunction(GrandTotal)
           /\ Owed' = Owed - Applied(s)
           /\ FromAdvances' = FromAdvances + Applied(s)
           /\ \A b \in Bills : DueOK(b)'
  <1> DEFINE b == sess[s].bill
             n == Applied(s)
             due == [c \in Bills |-> bill[c].due]
             dueNew == [c \in Bills |-> bill'[c].due]
             adv == [c \in Bills |-> settled[c].adv]
             advNew == [c \in Bills |-> settled'[c].adv]
  <1>1. b \in Bills /\ n \in Nat /\ n <= bill[b].due
    BY TakenOK DEF Granted
  <1>2. ASSUME NEW c \in Bills
        PROVE  /\ bill[c] \in Bill /\ bill[c].total \in Nat /\ bill[c].paid \in Int
               /\ bill[c].due \in Nat /\ bill[c].due = bill[c].total - bill[c].paid
               /\ bill[c].total <= GrandTotal[c] /\ GrandTotal[c] \in Nat
               /\ settled[c] \in Source /\ settled[c].adv \in Nat
    BY BillFields, SourceFields, Constants DEF MoneyInv, IInv, Rows, DueOK, BookOK
  <1>3. bill[b].paid <= bill[b].total
    <2>1. bill[b].due >= 0
      BY <1>1, <1>2
    <2> QED BY <1>1, <1>2, <2>1
  <1> HIDE DEF b, n
  <1>4. /\ \A c \in Bills \ {b} : bill'[c] = bill[c] /\ settled'[c] = settled[c]
        /\ bill'[b].due = bill[b].due - n /\ bill'[b].total = bill[b].total
        /\ settled'[b].adv = settled[b].adv + n
    <2>1. \A c \in Bills \ {b} : bill'[c] = bill[c] /\ settled'[c] = settled[c]
      BY DEF MoneyInv, IInv, Rows, b
    <2>2. bill'[b] = Columns(bill[b].total, bill[b].paid + n, bill[b].total - (bill[b].paid + n))
      BY <1>1 DEF MoneyInv, IInv, Rows, b, n
    <2>3. settled'[b] = [settled[b] EXCEPT !.adv = @ + n]
      BY <1>1 DEF MoneyInv, IInv, Rows, b, n
    <2>4. settled'[b].adv = settled[b].adv + n
      BY <1>1, <1>2, <2>3 DEF Source
    <2>5. bill[b].paid + n \in Int /\ bill[b].total - (bill[b].paid + n) \in Int
      BY <1>1, <1>2
    <2>6. bill'[b].total = bill[b].total
          /\ bill'[b].due = bill[b].total - (bill[b].paid + n)
      <3>1. PICK paid \in Int, left \in Int :
               paid = bill[b].paid + n /\ left = bill[b].total - (bill[b].paid + n)
        BY <2>5
      <3>2. PICK total \in Nat : total = bill[b].total
        BY <1>1, <1>2
      <3>3. bill'[b] = Columns(total, paid, left)
        BY ONLY <2>2, <3>1, <3>2
      <3>4. Columns(total, paid, left).total = total /\ Columns(total, paid, left).due = left
        BY ColumnsType
      <3>. QED
        BY <3>1, <3>2, <3>3, <3>4
    <2>7. /\ bill[b].total \in Nat /\ bill[b].paid \in Int
          /\ bill[b].due = bill[b].total - bill[b].paid
      BY <1>1, <1>2
    <2>8. bill'[b].due = bill[b].due - n
      BY <1>1, <2>6, <2>7
    <2> QED BY <2>1, <2>4, <2>6, <2>8
  <1>5. \A c \in Bills : DueOK(c)'
    <2>1. ASSUME NEW c \in Bills PROVE DueOK(c)'
      <3>1. CASE c = b
        <4>1. PICK owed \in Nat : owed = bill[b].due /\ n <= owed
          BY <1>1, <1>2
        <4>2. owed - n >= 0
          BY ONLY owed \in Nat, <1>1, <4>1
        <4>3. bill'[c].due >= 0 /\ bill'[c].total <= GrandTotal[c]
          BY <1>2, <1>4, <3>1, <4>1, <4>2
        <4> QED BY ONLY <4>3 DEF DueOK
      <3>2. CASE c # b
        <4>1. bill'[c] = bill[c] /\ bill[c].due \in Nat /\ bill[c].total <= GrandTotal[c]
          BY <1>2, <1>4, <3>2
        <4> QED BY ONLY <4>1 DEF DueOK
      <3> QED BY <3>1, <3>2
    <2> QED BY <2>1
  <1>6. /\ \A c \in Bills : due[c] \in Nat /\ due[c] \in Int /\ adv[c] \in Int /\ GrandTotal[c] \in Int
                            /\ GrandTotal[c] \in Nat
        /\ \A c \in Bills : c # b => dueNew[c] = due[c] /\ advNew[c] = adv[c]
        /\ dueNew[b] = due[b] - n /\ advNew[b] = adv[b] + n
        /\ n <= due[b] /\ due[b] <= GrandTotal[b]
    <2>1. bill[b].due <= GrandTotal[b]
      <3>1. bill[b].paid >= 0
        BY <1>1, <1>2, SourceFields DEF MoneyInv, IInv, BookOK
      <3> QED BY <1>1, <1>2, <3>1
    <2>2. \A c \in Bills : due[c] \in Nat /\ due[c] \in Int /\ adv[c] \in Int
                           /\ GrandTotal[c] \in Int /\ GrandTotal[c] \in Nat
      BY <1>2
    <2>3. \A c \in Bills : /\ due[c] = bill[c].due /\ dueNew[c] = bill'[c].due
                           /\ adv[c] = settled[c].adv /\ advNew[c] = settled'[c].adv
      OBVIOUS
    <2> HIDE DEF due, dueNew, adv, advNew
    <2>4. ASSUME NEW c \in Bills, c # b PROVE dueNew[c] = due[c] /\ advNew[c] = adv[c]
      <3>1. bill'[c] = bill[c] /\ settled'[c] = settled[c]
        BY <1>4, <2>4
      <3>2. /\ due[c] = bill[c].due /\ dueNew[c] = bill'[c].due
            /\ adv[c] = settled[c].adv /\ advNew[c] = settled'[c].adv
        BY <2>3, <2>4
      <3> QED BY <3>1, <3>2
    <2>5. /\ due[b] = bill[b].due /\ dueNew[b] = bill'[b].due
          /\ adv[b] = settled[b].adv /\ advNew[b] = settled'[b].adv
      BY <1>1, <2>3
    <2> QED BY <1>1, <1>4, <2>1, <2>2, <2>4, <2>5
  <1>7. /\ DOMAIN due = Bills /\ DOMAIN dueNew = Bills /\ DOMAIN adv = Bills /\ DOMAIN advNew = Bills
        /\ DOMAIN GrandTotal = Bills
    BY PayablesAssumption
  <1>8. /\ Owed = SumFunction(due) /\ Owed' = SumFunction(dueNew)
        /\ FromAdvances = SumFunction(adv) /\ FromAdvances' = SumFunction(advNew)
    BY DEF Owed, FromAdvances
  <1> HIDE DEF due, dueNew, adv, advNew
  <1>9. \A c \in Bills : dueNew[c] \in Int /\ advNew[c] \in Int
    BY <1>1, <1>6
  <1>10. /\ SumFunction(due) = SumFunctionOnSet(due, Bills) /\ SumFunction(due) \in Int
         /\ SumFunction(dueNew) = SumFunctionOnSet(dueNew, Bills)
         /\ SumFunction(adv) = SumFunctionOnSet(adv, Bills) /\ SumFunction(adv) \in Int
         /\ SumFunction(advNew) = SumFunctionOnSet(advNew, Bills)
         /\ SumFunction(GrandTotal) = SumFunctionOnSet(GrandTotal, Bills)
         /\ SumFunction(GrandTotal) \in Int
    BY <1>6, <1>7, <1>9, SumOfBills
  <1>11. IsFiniteSet(Bills)
    BY Constants
  <1>12. SumFunctionOnSet(dueNew, Bills) = SumFunctionOnSet(due, Bills) + dueNew[b] - due[b]
    BY <1>1, <1>6, <1>9, <1>11, SumChange
  <1>13. SumFunctionOnSet(advNew, Bills) = SumFunctionOnSet(adv, Bills) + advNew[b] - adv[b]
    BY <1>1, <1>6, <1>9, <1>11, SumChange
  <1>14. due[b] <= SumFunctionOnSet(due, Bills)
    BY <1>1, <1>6, <1>11, SumTerm
  <1>15. GrandTotal[b] <= SumFunctionOnSet(GrandTotal, Bills)
    BY <1>1, <1>6, <1>11, SumTerm
  <1>16. due[b] \in Int /\ adv[b] \in Int /\ GrandTotal[b] \in Int
    BY <1>1, <1>6
  <1>17. Applied(s) = n
    BY DEF n
  <1> QED
    BY <1>1, <1>5, <1>6, <1>8, <1>10, <1>12, <1>13, <1>14, <1>15, <1>16, <1>17

LEMMA PurchaseSums ==
    ASSUME MoneyInv, NEW b \in Bills, CreateBill(b)
    PROVE  /\ GrandTotal[b] \in Nat \ {0} /\ GrandTotal[b] <= SumFunction(GrandTotal)
           /\ Owed' = Owed + GrandTotal[b] /\ FromAdvances' = FromAdvances
           /\ \A c \in Bills : DueOK(c)'
  <1> DEFINE due == [c \in Bills |-> bill[c].due]
             dueNew == [c \in Bills |-> bill'[c].due]
             new == Columns(GrandTotal[b], 0, GrandTotal[b])
  <1>1. \A c \in Bills : GrandTotal[c] \in Nat /\ GrandTotal[c] > 0
    BY Constants
  <1>2. \A c \in Bills :
           /\ bill[c] \in Bill /\ bill[c].due \in Nat /\ bill[c].total \in Nat
           /\ bill[c].total <= GrandTotal[c]
           /\ bill[c].due = bill[c].total - bill[c].paid
           /\ (~Exists(c) => bill[c].paid = 0)
    BY BillFields DEF MoneyInv, IInv, Rows, DueOK, BookOK
  <1>3. new.total = GrandTotal[b] /\ new.due = GrandTotal[b]
    BY DEF Columns
  <1> HIDE DEF new
  <1>4. /\ bill'[b] = new /\ \A c \in Bills \ {b} : bill'[c] = bill[c]
        /\ settled' = settled /\ ~Exists(b)
    BY DEF CreateBill, MoneyInv, IInv, Rows, new
  <1>5. bill[b].due = 0
    BY <1>2, <1>4 DEF Exists
  <1>6. \A c \in Bills : due[c] = bill[c].due /\ dueNew[c] = bill'[c].due
    OBVIOUS
  <1>7. Owed = SumFunction(due) /\ Owed' = SumFunction(dueNew)
    BY DEF Owed
  <1>8. DOMAIN due = Bills /\ DOMAIN dueNew = Bills /\ DOMAIN GrandTotal = Bills
    BY PayablesAssumption
  <1> HIDE DEF due, dueNew
  <1>9. /\ \A c \in Bills : due[c] \in Int /\ dueNew[c] \in Int /\ GrandTotal[c] \in Int
        /\ \A c \in Bills : c # b => dueNew[c] = due[c]
        /\ dueNew[b] = GrandTotal[b] /\ due[b] = 0
    <2>1. ASSUME NEW c \in Bills
          PROVE  /\ due[c] \in Int /\ dueNew[c] \in Int /\ GrandTotal[c] \in Int
                 /\ (c # b => dueNew[c] = due[c])
      <3>1. CASE c = b
        BY <1>1, <1>2, <1>3, <1>4, <1>6, <3>1
      <3>2. CASE c # b
        <4>1. bill'[c] = bill[c]
          BY <1>4, <3>2
        <4>2. due[c] = bill[c].due /\ dueNew[c] = bill[c].due
          BY <1>6, <4>1
        <4> QED BY <1>1, <1>2, <4>2
      <3> QED BY <3>1, <3>2
    <2> QED BY <1>3, <1>4, <1>5, <1>6, <2>1
  <1>10. /\ SumFunction(due) = SumFunctionOnSet(due, Bills) /\ SumFunction(due) \in Int
         /\ SumFunction(dueNew) = SumFunctionOnSet(dueNew, Bills)
         /\ SumFunction(GrandTotal) = SumFunctionOnSet(GrandTotal, Bills)
    BY <1>8, <1>9, SumOfBills
  <1>11. SumFunctionOnSet(dueNew, Bills) = SumFunctionOnSet(due, Bills) + dueNew[b] - due[b]
    BY <1>9, Constants, SumChange
  <1>12. GrandTotal[b] <= SumFunctionOnSet(GrandTotal, Bills)
    BY <1>1, Constants, SumTerm
  <1>13. \A c \in Bills : DueOK(c)'
    <2>1. ASSUME NEW c \in Bills PROVE DueOK(c)'
      <3>1. CASE c = b
        BY <1>1, <1>3, <1>4, <3>1 DEF DueOK
      <3>2. CASE c # b
        BY <1>2, <1>4, <3>2 DEF DueOK
      <3> QED BY <3>1, <3>2
    <2> QED BY <2>1
  <1>14. FromAdvances' = FromAdvances
    BY <1>4 DEF FromAdvances
  <1> QED BY <1>1, <1>7, <1>9, <1>10, <1>11, <1>12, <1>13, <1>14

(* Every other step leaves the tables alone.                               *)
LEMMA Quiet ==
    ASSUME [Next]_vars, \A b \in Bills : ~CreateBill(b),
           \A s \in Sessions : ~FinishPayment(s) /\ ~FinishExpense(s) /\ ~FinishApply(s)
    PROVE  UNCHANGED <<bill, settled, advances, gl>>
  <1>1. ASSUME NEW s \in Sessions, Request(s) PROVE UNCHANGED <<bill, settled, advances, gl>>
    <2>1. ASSUME NEW r, Start(s, r) PROVE UNCHANGED <<bill, settled, advances, gl>>
      BY <2>1 DEF Start
    <2> QED BY <1>1, <2>1 DEF Request, RequestPayment, RequestExpense, RequestApply
  <1>2. ASSUME NEW s \in Sessions, LockBill(s) \/ GiveUp(s) \/ Rollback(s)
        PROVE  UNCHANGED <<bill, settled, advances, gl>>
    BY <1>2 DEF LockBill, GiveUp, Rollback
  <1>3. CASE UNCHANGED vars
    BY <1>3 DEF vars
  <1> QED BY <1>1, <1>2, <1>3 DEF Next, Proceed

(* The surplus of a request that comes in has a place.                     *)
LEMMA RequestSlots ==
    ASSUME MoneyInv, NEW s \in Sessions, Request(s), advances' = advances
    PROVE  SlotsOK'
  <1>1. IInv /\ SlotsOK
    BY DEF MoneyInv
  <1>2. AdvancesOK /\ AdvancesOK'
    BY DEF MoneyInv, AdvancesOK
  <1>3. ASSUME NEW r \in Session, Start(s, r), ~(r.op = "pay" /\ r.extra > 0) PROVE SlotsOK'
    <2>1. Pending' \subseteq Pending
      BY <1>1, <1>3, Started
    <2> QED BY <1>1, <1>2, <2>1, SlotsKept
  <1>4. ASSUME NEW r \in Session, Start(s, r), Len(advances) + Cardinality(Pending) < MaxAdvances
        PROVE  SlotsOK'
    <2>1. Pending' = Pending \cup {s} \/ Pending' = Pending
      BY <1>1, <1>4, Started
    <2>2. Cardinality(Pending') <= Cardinality(Pending) + 1
      BY <2>1, PendingFinite, FS_AddElement
    <2>3. Len(advances) \in Nat
      BY <1>2, AdvanceRows
    <2> QED BY <1>4, <2>2, <2>3, PendingFinite, Constants DEF SlotsOK
  <1>5. ASSUME NEW alloc \in Amounts, NEW o \in Orders(Named(alloc)),
               NEW x \in Extras \cup {0}, NEW m \in Extras \cup {0}, RequestPayment(s, alloc, o, x, m)
        PROVE  SlotsOK'
    <2> DEFINE r == [op |-> "pay", alloc |-> alloc, extra |-> x, manual |-> m,
                     todo |-> o, held |-> {}]
    <2>1. Start(s, r) /\ (x > 0 => Len(advances) + Cardinality(Pending) < MaxAdvances)
      BY <1>5 DEF RequestPayment, Pending
    <2>2. Named(alloc) \in SUBSET Bills
      BY DEF Named
    <2>3. o \in Seq(Bills)
      BY <2>2, OrdersType
    <2>4. r \in Session /\ r.extra = x
      BY <2>3 DEF Session
    <2> HIDE DEF r
    <2> QED BY <1>3, <1>4, <2>1, <2>4
  <1>6. ASSUME NEW alloc \in Amounts, NEW o \in Orders(Named(alloc)), RequestExpense(s, alloc, o)
        PROVE  SlotsOK'
    <2> DEFINE r == [op |-> "expense", alloc |-> alloc, extra |-> 0, manual |-> 0,
                     todo |-> o, held |-> {}]
    <2>1. Start(s, r)
      BY <1>6 DEF RequestExpense
    <2>2. Named(alloc) \in SUBSET Bills
      BY DEF Named
    <2>3. o \in Seq(Bills)
      BY <2>2, OrdersType
    <2>4. r \in Session /\ r.op = "expense"
      BY <2>3 DEF Session
    <2> HIDE DEF r
    <2> QED BY <1>3, <2>1, <2>4
  <1>7. ASSUME NEW b \in Bills, NEW plan \in Plans, NEW auto \in BOOLEAN, RequestApply(s, b, plan, auto)
        PROVE  SlotsOK'
    <2> DEFINE r == [op |-> "apply", bill |-> b, plan |-> plan, auto |-> auto,
                     todo |-> <<b>>, held |-> {}]
    <2>1. Start(s, r) /\ r \in Session /\ r.op = "apply"
      BY <1>7 DEF RequestApply, Session
    <2> HIDE DEF r
    <2> QED BY <1>3, <2>1
  <1> QED BY <1>5, <1>6, <1>7 DEF Request

(* Each step preserves the invariant.                                      *)
LEMMA MoneyKept ==
    ASSUME MoneyInv, [Next]_vars
    PROVE  MoneyInv'
  <1>1. IInv'
    BY NextKeeps DEF MoneyInv
  <1>2. SUFFICES AdvancesOK' /\ SlotsOK' /\ \A b \in Bills : DueOK(b)'
    BY <1>1 DEF MoneyInv
  <1>3. ASSUME advances' = advances, Pending' \subseteq Pending PROVE AdvancesOK' /\ SlotsOK'
    <2>1. AdvancesOK /\ AdvancesOK' /\ SlotsOK
      BY <1>3 DEF MoneyInv, AdvancesOK
    <2> QED BY <1>3, <2>1, SlotsKept
  <1>4. ASSUME NEW b \in Bills, CreateBill(b)
        PROVE  AdvancesOK' /\ SlotsOK' /\ \A c \in Bills : DueOK(c)'
    <2>1. advances' = advances /\ sess' = sess
      BY <1>4 DEF CreateBill
    <2>2. Pending' = Pending
      BY <2>1 DEF Pending, Surplus
    <2> QED BY <1>3, <1>4, <2>1, <2>2, PurchaseSums
  <1>5. ASSUME NEW s \in Sessions, FinishPayment(s)
        PROVE  AdvancesOK' /\ SlotsOK' /\ \A c \in Bills : DueOK(c)'
    BY <1>5, SettlingSums, PaymentAdvances
  <1>6. ASSUME NEW s \in Sessions, FinishExpense(s)
        PROVE  AdvancesOK' /\ SlotsOK' /\ \A c \in Bills : DueOK(c)'
    <2>1. advances' = advances /\ End(s) /\ IInv
      BY <1>6 DEF FinishExpense, MoneyInv
    <2>2. Pending' \subseteq Pending
      BY <2>1, PendingEnds
    <2> QED BY <1>3, <1>6, <2>1, <2>2, SettlingSums
  <1>7. ASSUME UNCHANGED <<bill, settled, advances, gl>>,
               SlotsOK' \/ Pending' \subseteq Pending
        PROVE  AdvancesOK' /\ SlotsOK' /\ \A c \in Bills : DueOK(c)'
    <2>1. \A c \in Bills : DueOK(c)'
      BY <1>7 DEF DueOK, MoneyInv
    <2>2. AdvancesOK'
      BY <1>7 DEF AdvancesOK, MoneyInv
    <2> QED BY <1>3, <1>7, <2>1, <2>2
  <1>8. ASSUME NEW s \in Sessions, FinishApply(s)
        PROVE  AdvancesOK' /\ SlotsOK' /\ \A c \in Bills : DueOK(c)'
    <2>1. Ready(s, "apply") /\ Pending' \subseteq Pending
      BY <1>8, FinishApplyIs, PendingEnds DEF MoneyInv
    <2>2. CASE UNCHANGED <<bill, settled, advances, gl>>
      BY <1>7, <2>1, <2>2
    <2>3. CASE /\ Granted(s)
               /\ advances' = [k \in DOMAIN advances |-> DrawDown(advances[k], Taken(s)[k])]
               /\ bill' = [bill EXCEPT ![sess[s].bill] =
                      Columns(@.total, @.paid + Applied(s), @.total - (@.paid + Applied(s)))]
               /\ settled' = [settled EXCEPT ![sess[s].bill].adv = @ + Applied(s)]
      <3>1. AdvancesOK' /\ Len(advances') = Len(advances)
        BY <2>1, <2>3, DrawnDown
      <3>2. SlotsOK'
        BY <2>1, <3>1, SlotsKept DEF MoneyInv
      <3>3. \A c \in Bills : DueOK(c)'
        BY <2>1, <2>3, ApplyingSums
      <3> QED BY <3>1, <3>2, <3>3
    <2> QED BY <1>8, <2>2, <2>3, FinishApplyIs
  <1>9. ASSUME UNCHANGED <<bill, settled, advances, gl>>
        PROVE  AdvancesOK' /\ SlotsOK' /\ \A c \in Bills : DueOK(c)'
    <2>1. IInv
      BY DEF MoneyInv
    <2>2. ASSUME NEW s \in Sessions, Request(s) PROVE SlotsOK'
      BY <1>9, <2>2, RequestSlots
    <2>3. ASSUME NEW s \in Sessions, Proceed(s) \/ Rollback(s) PROVE Pending' \subseteq Pending
      <3>1. CASE LockBill(s)
        BY <2>1, <3>1, LockedPending
      <3>2. CASE End(s)
        BY <2>1, <3>2, PendingEnds
      <3> QED BY <2>3, <3>1, <3>2
              DEF Proceed, Rollback, GiveUp, FinishPayment, FinishExpense, FinishApply
    <2>4. ASSUME NEW b \in Bills, CreateBill(b) PROVE Pending' \subseteq Pending
      BY <2>4 DEF CreateBill, Pending, Surplus
    <2>5. CASE UNCHANGED vars
      <3>1. Pending' = Pending
        BY <2>5 DEF vars, Pending, Surplus
      <3> QED BY <1>7, <1>9, <3>1
    <2> QED BY <1>7, <1>9, <2>2, <2>3, <2>4, <2>5 DEF Next
  <1> QED BY <1>4, <1>5, <1>6, <1>8, <1>9, Quiet

LEMMA MoneyInitially ==
    ASSUME Init
    PROVE  MoneyInv /\ Owed = 0 /\ FromAdvances = 0 /\ Remaining = 0 /\ Drawn = 0
  <1>1. IInv
    BY Initially
  <1>2. advances = <<>> /\ AdvancesOK
    BY DEF Init, AdvancesOK
  <1>3. SlotsOK
    <2>1. Pending = {}
      BY DEF Init, Pending, Surplus, Idle
    <2>2. Cardinality(Pending) = 0
      BY <2>1, FS_EmptySet
    <2> QED BY <1>2, <2>2, Constants DEF SlotsOK
  <1>4. \A b \in Bills : /\ bill[b].due = 0 /\ bill[b].total = 0 /\ settled[b].adv = 0
                         /\ GrandTotal[b] \in Nat
    BY Constants DEF Init, NoBill
  <1>5. \A b \in Bills : DueOK(b)
    BY <1>4 DEF DueOK
  <1> DEFINE due == [b \in Bills |-> bill[b].due]
             adv == [b \in Bills |-> settled[b].adv]
             rem == [k \in DOMAIN advances |-> advances[k].remaining]
             used == [k \in DOMAIN advances |-> advances[k].amount - advances[k].remaining]
  <1>6. Owed = 0 /\ FromAdvances = 0
    <2>1. \A b \in Bills : due[b] = 0 /\ adv[b] = 0
      BY <1>4
    <2>2. DOMAIN due = Bills /\ DOMAIN adv = Bills
      OBVIOUS
    <2>3. Owed = SumFunctionOnSet(due, DOMAIN due) /\ FromAdvances = SumFunctionOnSet(adv, DOMAIN adv)
      BY DEF Owed, FromAdvances, SumFunction
    <2> HIDE DEF due, adv
    <2>4. Owed = SumFunctionOnSet(due, Bills) /\ FromAdvances = SumFunctionOnSet(adv, Bills)
      BY <2>2, <2>3, Zenon
    <2> QED BY <2>1, <2>4, Constants, SumZero
  <1>7. Remaining = 0 /\ Drawn = 0
    <2>1. DOMAIN rem = {} /\ DOMAIN used = {}
      BY <1>2
    <2>2. Remaining = SumFunctionOnSet(rem, DOMAIN rem) /\ Drawn = SumFunctionOnSet(used, DOMAIN used)
      BY DEF Remaining, Drawn, SumFunction
    <2> HIDE DEF rem, used
    <2>3. Remaining = SumFunctionOnSet(rem, {}) /\ Drawn = SumFunctionOnSet(used, {})
      BY <2>1, <2>2, Zenon
    <2> QED BY <2>3, SumEmpty
  <1> QED BY <1>1, <1>2, <1>3, <1>5, <1>6, <1>7 DEF MoneyInv

(* What is due of a bill is never negative, what is closed of an advance   *)
(* is used up, and every surplus in flight has a place.                    *)
THEOREM MoneyInvariant == Spec => []MoneyInv
  <1>1. Init => MoneyInv
    BY MoneyInitially
  <1>2. MoneyInv /\ [Next]_vars => MoneyInv'
    BY MoneyKept
  <1> QED BY <1>1, <1>2, PTL DEF Spec

(* Payments, expenses and applications of advances that lock any bills in   *)
(* any order never settle a bill beyond its total, though each checks all  *)
(* its bills before it writes any, and an application draws on rows that   *)
(* others draw on too.                                                     *)
THEOREM NotOverSettled == Spec => []NeverOverSettled
  <1>1. ASSUME MoneyInv PROVE NeverOverSettled
    <2>1. ASSUME NEW b \in Bills PROVE SettledBy(b) <= bill[b].total
      <3>1. /\ bill[b].total \in Nat /\ bill[b].paid \in Int /\ bill[b].due \in Int
            /\ bill[b].due >= 0 /\ bill[b].paid = SettledBy(b)
            /\ bill[b].due = bill[b].total - bill[b].paid
        BY <1>1, BillFields DEF MoneyInv, IInv, Rows, DueOK, BookOK, SettledBy
      <3> QED BY <3>1
    <2> QED BY <2>1 DEF NeverOverSettled
  <1> QED BY <1>1, MoneyInvariant, PTL

-----------------------------------------------------------------------------
(* The control accounts.                                                   *)

NoManual(s) == sess[s].op \in {"pay", "expense"} => sess[s].manual = 0

(* Payables are what is owed, advances what is left of them, unless a      *)
(* payment posted its surplus elsewhere.                                   *)
AccountsInv ==
    /\ gl \in [payable : Int, advance : Int]
    /\ gl.payable = Owed
    /\ gl.advance = Remaining
    /\ Drawn = FromAdvances
    /\ \A s \in Sessions : NoManual(s)

LEMMA SumsInt ==
    ASSUME MoneyInv
    PROVE  Owed \in Int /\ FromAdvances \in Int /\ Remaining \in Nat /\ Drawn \in Int
  <1> DEFINE due == [b \in Bills |-> bill[b].due]
             adv == [b \in Bills |-> settled[b].adv]
             rem == [k \in DOMAIN advances |-> advances[k].remaining]
             used == [k \in DOMAIN advances |-> advances[k].amount - advances[k].remaining]
  <1>1. \A b \in Bills : due[b] \in Int /\ adv[b] \in Int
    BY BillFields, SourceFields DEF MoneyInv, IInv, Rows
  <1>2. IsFiniteSet(DOMAIN advances)
        /\ \A k \in DOMAIN advances : rem[k] \in Nat /\ used[k] \in Int
    BY AdvanceRows DEF MoneyInv
  <1>3. /\ DOMAIN due = Bills /\ DOMAIN adv = Bills
        /\ DOMAIN rem = DOMAIN advances /\ DOMAIN used = DOMAIN advances
    OBVIOUS
  <1>4. /\ Owed = SumFunction(due) /\ FromAdvances = SumFunction(adv)
        /\ Remaining = SumFunction(rem) /\ Drawn = SumFunction(used)
    BY DEF Owed, FromAdvances, Remaining, Drawn
  <1> HIDE DEF due, adv, rem, used
  <1>5. SumFunction(due) \in Int /\ SumFunction(adv) \in Int
    BY <1>1, <1>3, SumOfBills
  <1>6. /\ SumFunction(rem) = SumFunctionOnSet(rem, DOMAIN advances)
        /\ SumFunction(used) = SumFunctionOnSet(used, DOMAIN advances)
    BY <1>3, Zenon DEF SumFunction
  <1>7. SumFunctionOnSet(rem, DOMAIN advances) \in Nat
    BY <1>2, SumNat
  <1>8. SumFunctionOnSet(used, DOMAIN advances) \in Int
    BY <1>2, SumInt
  <1> QED BY <1>4, <1>5, <1>6, <1>7, <1>8

LEMMA NoManualKept ==
    ASSUME ~ManualLines, IInv, [Next]_vars, \A s \in Sessions : NoManual(s)
    PROVE  \A s \in Sessions : NoManual(s)'
  <1>1. ASSUME NEW s \in Sessions, End(s) PROVE \A t \in Sessions : NoManual(t)'
    BY <1>1 DEF End, Idle, NoManual, IInv, Rows
  <1>2. ASSUME NEW s \in Sessions, LockBill(s) PROVE \A t \in Sessions : NoManual(t)'
    <2>1. CASE End(s)
      BY <1>1, <2>1
    <2>2. CASE Hold(s, Head(sess[s].todo))
      <3>1. /\ sess[s] \in Session /\ sess[s].op \in {"pay", "expense", "apply"}
            /\ sess[s].todo # <<>>
        BY <1>2 DEF LockBill, Locking, IInv, Rows
      <3>2. sess[s].todo \in Seq(Bills)
        BY <3>1, SessionFields
      <3>3. Head(sess[s].todo) \in Bills /\ Tail(sess[s].todo) \in Seq(Bills)
        BY <3>1, <3>2
      <3> DEFINE next == Holding(sess[s], Head(sess[s].todo))
      <3>4. sess'[s] = next /\ \A t \in Sessions \ {s} : sess'[t] = sess[t]
        BY <2>2 DEF Hold, Holding, IInv, Rows
      <3>5. next.op = sess[s].op
            /\ (sess[s].op \in {"pay", "expense"} => next.manual = sess[s].manual)
        BY <3>1, <3>3, HoldFields
      <3> HIDE DEF next
      <3> QED BY <3>4, <3>5 DEF NoManual
    <2> QED BY <1>2, <2>1, <2>2 DEF LockBill
  <1>3. ASSUME NEW s \in Sessions, Request(s) PROVE \A t \in Sessions : NoManual(t)'
    <2>1. ASSUME NEW r, Start(s, r), r.op \in {"pay", "expense"} => r.manual = 0
          PROVE  \A t \in Sessions : NoManual(t)'
      BY <2>1 DEF Start, NoManual, IInv, Rows
    <2>2. ASSUME NEW alloc, NEW o, NEW x \in Extras \cup {0}, NEW m \in Extras \cup {0},
                 RequestPayment(s, alloc, o, x, m)
          PROVE  \A t \in Sessions : NoManual(t)'
      <3>1. m = 0
        <4>1. m \in Nat
          BY Constants
        <4> QED BY <2>2, <4>1 DEF RequestPayment
      <3> QED BY <2>1, <2>2, <3>1 DEF RequestPayment
    <2>3. ASSUME NEW alloc, NEW o, RequestExpense(s, alloc, o) PROVE \A t \in Sessions : NoManual(t)'
      BY <2>1, <2>3 DEF RequestExpense
    <2>4. ASSUME NEW b, NEW plan, NEW auto, RequestApply(s, b, plan, auto)
          PROVE  \A t \in Sessions : NoManual(t)'
      BY <2>1, <2>4 DEF RequestApply
    <2> QED BY <1>3, <2>2, <2>3, <2>4 DEF Request
  <1>4. ASSUME sess' = sess PROVE \A t \in Sessions : NoManual(t)'
    BY <1>4 DEF NoManual
  <1> QED BY <1>1, <1>2, <1>3, <1>4
          DEF Next, Proceed, Rollback, GiveUp, FinishPayment, FinishExpense, FinishApply,
              CreateBill, vars

LEMMA AccountsKept ==
    ASSUME ~ManualLines, MoneyInv, AccountsInv, [Next]_vars
    PROVE  AccountsInv'
  <1> DEFINE GL == [payable : Int, advance : Int]
  <1>1. SUFFICES gl' \in GL /\ gl'.payable = Owed' /\ gl'.advance = Remaining'
                 /\ Drawn' = FromAdvances'
    BY NoManualKept DEF AccountsInv, MoneyInv
  <1>2. /\ gl \in GL /\ gl.payable = Owed /\ gl.advance = Remaining /\ Drawn = FromAdvances
        /\ Owed \in Int /\ Remaining \in Int /\ Drawn \in Int
    BY SumsInt DEF AccountsInv
  <1>3. ASSUME NEW b \in Bills, CreateBill(b)
        PROVE  gl' \in GL /\ gl'.payable = Owed' /\ gl'.advance = Remaining' /\ Drawn' = FromAdvances'
    <2>1. GrandTotal[b] \in Nat /\ Owed' = Owed + GrandTotal[b] /\ FromAdvances' = FromAdvances
      BY <1>3, PurchaseSums
    <2>2. gl' = [gl EXCEPT !.payable = @ + GrandTotal[b]] /\ advances' = advances
      BY <1>3 DEF CreateBill
    <2>3. Remaining' = Remaining /\ Drawn' = Drawn
      BY <2>2 DEF Remaining, Drawn
    <2> QED BY <1>2, <2>1, <2>2, <2>3
  <1>4. ASSUME NEW s \in Sessions, FinishPayment(s)
        PROVE  gl' \in GL /\ gl'.payable = Owed' /\ gl'.advance = Remaining' /\ Drawn' = FromAdvances'
    <2>1. /\ SumFunction(sess[s].alloc) \in Nat
          /\ Owed' = Owed - SumFunction(sess[s].alloc) /\ FromAdvances' = FromAdvances
      BY <1>4, SettlingSums
    <2>2. sess[s].extra \in Int /\ Remaining' = Remaining + sess[s].extra /\ Drawn' = Drawn
      BY <1>4, PaymentAdvances
    <2>3. sess[s].manual = 0
      BY <1>4 DEF AccountsInv, NoManual, FinishPayment, Ready
    <2>4. gl' = [payable |-> gl.payable - SumFunction(sess[s].alloc),
                 advance |-> gl.advance + sess[s].extra - sess[s].manual]
      BY <1>4 DEF FinishPayment
    <2> QED BY <1>2, <2>1, <2>2, <2>3, <2>4
  <1>5. ASSUME NEW s \in Sessions, FinishExpense(s)
        PROVE  gl' \in GL /\ gl'.payable = Owed' /\ gl'.advance = Remaining' /\ Drawn' = FromAdvances'
    <2>1. /\ SumFunction(sess[s].alloc) \in Nat
          /\ Owed' = Owed - SumFunction(sess[s].alloc) /\ FromAdvances' = FromAdvances
      BY <1>5, SettlingSums
    <2>2. gl' = [gl EXCEPT !.payable = @ - SumFunction(sess[s].alloc)] /\ advances' = advances
      BY <1>5 DEF FinishExpense
    <2>3. Remaining' = Remaining /\ Drawn' = Drawn
      BY <2>2 DEF Remaining, Drawn
    <2> QED BY <1>2, <2>1, <2>2, <2>3
  <1>6. ASSUME UNCHANGED <<bill, settled, advances, gl>>
        PROVE  gl' \in GL /\ gl'.payable = Owed' /\ gl'.advance = Remaining' /\ Drawn' = FromAdvances'
    <2>1. Remaining' = Remaining /\ Drawn' = Drawn /\ Owed' = Owed /\ FromAdvances' = FromAdvances
      BY <1>6 DEF Remaining, Drawn, Owed, FromAdvances
    <2> QED BY <1>2, <1>6, <2>1
  <1>7. ASSUME NEW s \in Sessions, FinishApply(s)
        PROVE  gl' \in GL /\ gl'.payable = Owed' /\ gl'.advance = Remaining' /\ Drawn' = FromAdvances'
    <2>1. CASE UNCHANGED <<bill, settled, advances, gl>>
      BY <1>6, <2>1
    <2>2. CASE ~UNCHANGED <<bill, settled, advances, gl>>
      <3>1. /\ Ready(s, "apply") /\ Granted(s)
            /\ advances' = [k \in DOMAIN advances |-> DrawDown(advances[k], Taken(s)[k])]
            /\ bill' = [bill EXCEPT ![sess[s].bill] =
                   Columns(@.total, @.paid + Applied(s), @.total - (@.paid + Applied(s)))]
            /\ settled' = [settled EXCEPT ![sess[s].bill].adv = @ + Applied(s)]
            /\ gl' = [payable |-> gl.payable - Applied(s), advance |-> gl.advance - Applied(s)]
        BY <1>7, <2>2, FinishApplyIs
      <3>2. Applied(s) \in Nat
        BY <3>1 DEF Granted
      <3>3. Remaining' = Remaining - Applied(s) /\ Drawn' = Drawn + Applied(s)
        BY <3>1, DrawnDown
      <3>4. Owed' = Owed - Applied(s) /\ FromAdvances' = FromAdvances + Applied(s)
        BY <3>1, ApplyingSums
      <3>5. gl' = [payable |-> gl.payable - Applied(s), advance |-> gl.advance - Applied(s)]
        BY <3>1
      <3> QED BY <1>2, <3>2, <3>3, <3>4, <3>5
    <2> QED BY <2>1, <2>2
  <1> QED BY <1>3, <1>4, <1>5, <1>6, <1>7, Quiet

(* As long as no payment posts its surplus to an account of its own choice,*)
(* the control accounts agree with the bills and the advances at every     *)
(* moment, whichever requests race.                                        *)
THEOREM AccountsAgree ==
    ASSUME ~ManualLines
    PROVE  Spec => []ControlAccountsAgree
  <1>1. Init => AccountsInv
    <2> SUFFICES ASSUME Init PROVE AccountsInv
      OBVIOUS
    <2>1. \A s \in Sessions : NoManual(s)
      BY DEF Init, NoManual, Idle
    <2> QED BY <2>1, MoneyInitially DEF Init, AccountsInv
  <1>2. MoneyInv /\ AccountsInv /\ [Next]_vars => AccountsInv'
    BY AccountsKept
  <1>3. ASSUME MoneyInv, AccountsInv PROVE ControlAccountsAgree
    <2>1. \A b \in Bills : bill[b].due = bill[b].total - SettledBy(b)
      BY <1>3 DEF MoneyInv, IInv, BookOK, SettledBy
    <2>2. Owed = SumFunction([b \in Bills |-> bill[b].total - SettledBy(b)])
      <3>1. [b \in Bills |-> bill[b].due] = [b \in Bills |-> bill[b].total - SettledBy(b)]
        BY <2>1
      <3> QED BY <3>1, Zenon DEF Owed
    <2> QED BY <1>3, <2>2 DEF ControlAccountsAgree, AccountsInv, FromAdvances, MoneyInv, AdvancesOK
  <1> QED BY <1>1, <1>2, <1>3, MoneyInvariant, PTL DEF Spec

-----------------------------------------------------------------------------
(* The vendor's account: every step is one of its steps, or none.          *)

MaxMoney == SumFunction(GrandTotal) + MaxExtra

LEMMA TotalsNat == SumFunction(GrandTotal) \in Nat /\ MaxExtra \in Nat
  <1>1. \A b \in Bills : GrandTotal[b] \in Nat /\ GrandTotal[b] \in Int
    BY Constants
  <1>2. DOMAIN GrandTotal = Bills
    BY PayablesAssumption
  <1>3. SumFunction(GrandTotal) = SumFunctionOnSet(GrandTotal, Bills)
    BY <1>1, <1>2, SumOfBills
  <1>4. SumFunctionOnSet(GrandTotal, Bills) \in Nat
    BY <1>1, Constants, SumNat
  <1> QED BY <1>3, <1>4, PayablesAssumption

LEMMA AccountStep ==
    ASSUME MoneyInv, [Next]_vars
    PROVE  \/ \E n \in 1..MaxMoney : Owed' = Owed + n /\ Remaining' = Remaining
           \/ \E n, x \in 0..MaxMoney :
                 n <= Owed /\ Owed' = Owed - n /\ Remaining' = Remaining + x
           \/ \E n \in 1..MaxMoney : /\ n <= Owed /\ n <= Remaining
                                     /\ Owed' = Owed - n /\ Remaining' = Remaining - n
           \/ Owed' = Owed /\ Remaining' = Remaining
  <1>1. Owed \in Int /\ Remaining \in Int
    BY SumsInt
  <1>2. ASSUME NEW b \in Bills, CreateBill(b)
        PROVE  \E n \in 1..MaxMoney : Owed' = Owed + n /\ Remaining' = Remaining
    <2>1. GrandTotal[b] \in 1..MaxMoney /\ Owed' = Owed + GrandTotal[b]
      BY <1>2, PurchaseSums, TotalsNat DEF MaxMoney
    <2>2. Remaining' = Remaining
      BY <1>2 DEF CreateBill, Remaining
    <2> QED BY <2>1, <2>2
  <1>3. ASSUME NEW s \in Sessions, FinishPayment(s) \/ FinishExpense(s)
        PROVE  \E n, x \in 0..MaxMoney :
                   n <= Owed /\ Owed' = Owed - n /\ Remaining' = Remaining + x
    <2> DEFINE n == SumFunction(sess[s].alloc)
    <2>1. n \in 0..MaxMoney /\ n <= Owed /\ Owed' = Owed - n
      BY <1>3, SettlingSums, TotalsNat DEF MaxMoney
    <2>2. \E x \in 0..MaxMoney : Remaining' = Remaining + x
      <3>1. CASE FinishPayment(s)
        <4>1. sess[s].extra \in 0..MaxExtra /\ Remaining' = Remaining + sess[s].extra
          BY <3>1, PaymentAdvances
        <4>2. sess[s].extra \in 0..MaxMoney
          BY <4>1, TotalsNat DEF MaxMoney
        <4> QED BY <4>1, <4>2
      <3>2. CASE FinishExpense(s)
        <4>1. Remaining' = Remaining
          BY <3>2 DEF FinishExpense, Remaining
        <4>2. Remaining' = Remaining + 0 /\ 0 \in 0..MaxMoney
          BY <1>1, <4>1, TotalsNat DEF MaxMoney
        <4> QED BY <4>2
      <3> QED BY <1>3, <3>1, <3>2
    <2> HIDE DEF n
    <2> QED BY <2>1, <2>2
  <1>4. ASSUME NEW s \in Sessions, FinishApply(s), ~UNCHANGED <<bill, settled, advances, gl>>
        PROVE  \E n \in 1..MaxMoney : /\ n <= Owed /\ n <= Remaining
                                      /\ Owed' = Owed - n /\ Remaining' = Remaining - n
    <2>1. /\ Ready(s, "apply") /\ Granted(s)
          /\ advances' = [k \in DOMAIN advances |-> DrawDown(advances[k], Taken(s)[k])]
          /\ bill' = [bill EXCEPT ![sess[s].bill] =
                 Columns(@.total, @.paid + Applied(s), @.total - (@.paid + Applied(s)))]
          /\ settled' = [settled EXCEPT ![sess[s].bill].adv = @ + Applied(s)]
      BY <1>4, FinishApplyIs
    <2>2. Applied(s) <= Remaining /\ Remaining' = Remaining - Applied(s)
      BY <2>1, DrawnDown
    <2>3. /\ Applied(s) <= Owed /\ Applied(s) <= SumFunction(GrandTotal)
          /\ Owed' = Owed - Applied(s)
      BY <2>1, ApplyingSums
    <2>4. Applied(s) \in Nat /\ Applied(s) # 0
      BY <2>1 DEF Granted
    <2>5. Applied(s) \in 1..MaxMoney
      BY <2>3, <2>4, TotalsNat DEF MaxMoney
    <2> QED BY <2>2, <2>3, <2>5
  <1>5. ASSUME UNCHANGED <<bill, settled, advances, gl>>
        PROVE  Owed' = Owed /\ Remaining' = Remaining
    BY <1>5 DEF Owed, Remaining
  <1> QED BY <1>2, <1>3, <1>4, <1>5, Quiet

(* Whatever interleaving of locks and writes, the vendor sees purchases,   *)
(* payments and applications of advances, each as one step of the account. *)
THEOREM Refines == Spec => OneAccount
  <1>1. ASSUME Init PROVE Account!Init
    <2>1. Owed = 0 /\ Remaining = 0
      BY <1>1, MoneyInitially
    <2> QED BY <2>1 DEF Account!Init, Owed
  <1>2. ASSUME MoneyInv, [Next]_vars PROVE [Account!Next]_(Account!vars)
    <2>1. \/ \E n \in 1..MaxMoney : Account!Purchase(n)
          \/ \E n, x \in 0..MaxMoney : Account!Pay(n, x)
          \/ \E n \in 1..MaxMoney : Account!Apply(n)
          \/ UNCHANGED Account!vars
      BY <1>2, AccountStep
         DEF Account!Purchase, Account!Pay, Account!Apply, Account!vars, Owed
    <2> QED BY <2>1 DEF Account!Next, MaxMoney
  <1> QED BY <1>1, <1>2, MoneyInvariant, PTL DEF Spec, OneAccount, Account!Spec

-----------------------------------------------------------------------------
(* The other side of settlement: Receivables, whose handlers settle the    *)
(* invoices of a customer.  It shares nothing with the bills above.        *)

CONSTANTS NoEntry, Callers, Surpluses, MaxInvoiced, MaxCredited
VARIABLE requests

Sales == INSTANCE Receivables
           WITH Sessions <- Callers, Extras <- Surpluses, sess <- requests

(* What Receivables assumes of its constants.                              *)
SalesAssumption ==
    /\ IsFiniteSet(Invoices) /\ IsFiniteSet(Entries)
    /\ NoEntry \notin Entries
    /\ Surpluses \subseteq Nat /\ MaxInvoiced \in Nat /\ MaxCredited \in Nat

-----------------------------------------------------------------------------
(* The inductive invariant of the receivables.                             *)

Invoice == [total : Nat, paid : Int, due : Nat, status : {"PAID", "PARTIAL", "UNPAID"}]
Settlement ==
    [op : {"receipt", "allocate", "unallocate"}, entry : Entries \cup {NoEntry},
     alloc : [Invoices -> Nat], extra : Nat, manual : Nat, todo : Seq(Invoices), held : SUBSET Invoices,
     seen : Int, found : [Invoices -> Int]]

SaleTables ==
    /\ SalesAssumption
    /\ invoice \in [Invoices -> Invoice]
    /\ received \in [Invoices -> Nat]
    /\ jeAlloc \in [Entries -> [Invoices -> Nat]]
    /\ outstanding \in Int /\ receivable \in Int /\ credited \in Int
    /\ orphaned \in [Invoices -> Nat]

(* The invoices a request means to settle exist for that much, and each is *)
(* held or still to be locked; a removal takes away what its entry settles.*)
AskedOK(s) ==
    LET r == requests[s]
    IN  r # Sales!Idle =>
          /\ r.op # "receipt" => r.entry \in Entries
          /\ \A i \in Invoices :
                /\ r.alloc[i] <= invoice[i].total
                /\ r.op = "unallocate" => r.alloc[i] <= jeAlloc[r.entry][i]
                /\ r.alloc[i] > 0 =>
                      i \in r.held \/ \E k \in DOMAIN r.todo : r.todo[k] = i

(* What was checked under a lock: a receipt's check stays true while the   *)
(* lock is held, an allocation's was of what the look had found.           *)
PassedOK(s) ==
    LET r == requests[s]
    IN  r # Sales!Idle =>
          \A i \in r.held :
             /\ r.op = "receipt" => r.alloc[i] <= invoice[i].due
             /\ r.op = "allocate" => r.alloc[i] <= r.found[i]

LocksApart == \A s, t \in Callers : s # t => \A i \in requests[s].held : i \notin requests[t].held

(* Two removals never take away the same row.                              *)
Removes(s, e, i) ==
    /\ requests[s] # Sales!Idle
    /\ requests[s].op = "unallocate" /\ requests[s].entry = e /\ requests[s].alloc[i] > 0
RemovalsApart ==
    \A s, t \in Callers, e \in Entries, i \in Invoices :
        Removes(s, e, i) /\ Removes(t, e, i) => s = t

SaleRequests ==
    /\ requests \in [Callers -> Settlement \cup {Sales!Idle}]
    /\ \A s \in Callers : AskedOK(s) /\ PassedOK(s)
    /\ LocksApart
    /\ RemovalsApart

(* An invoice that is not there yet has not been settled, and as long as   *)
(* no removal stored a stale balance, receipts took no more than its total.*)
UnbegunOK(i) ==
    ~Sales!Exists(i) =>
        received[i] = 0 /\ orphaned[i] = 0 /\ \A e \in Entries : jeAlloc[e][i] = 0
InvoiceOK(i) ==
    "unallocate" \notin stale[i] =>
        /\ invoice[i].due = Sales!Max0(invoice[i].total - (Sales!Settled(i) + orphaned[i]))
        /\ invoice[i].paid = invoice[i].total - invoice[i].due
        /\ received[i] <= invoice[i].total
OverOK(i) == Sales!Settled(i) > invoice[i].total => stale[i] # {}

SaleBooks ==
    /\ SaleTables
    /\ \A i \in Invoices : UnbegunOK(i) /\ InvoiceOK(i) /\ OverOK(i)
    /\ Sales!CustomerAgrees

SaleInv == SaleBooks /\ SaleRequests

-----------------------------------------------------------------------------
LEMMA InvoiceFields ==
    ASSUME NEW r \in Invoice
    PROVE  r.total \in Nat /\ r.paid \in Int /\ r.due \in Nat
  BY DEF Invoice

LEMMA Max0Nat ==
    ASSUME NEW n \in Int
    PROVE  /\ Sales!Max0(n) \in Nat
           /\ n >= 0 => Sales!Max0(n) = n
           /\ n <= 0 => Sales!Max0(n) = 0
  BY DEF Sales!Max0

LEMMA SaleColumns ==
    ASSUME NEW total \in Nat, NEW paid \in Int, NEW due \in Nat
    PROVE  /\ Sales!Columns(total, paid, due) \in Invoice
           /\ Sales!Columns(total, paid, due).total = total
           /\ Sales!Columns(total, paid, due).paid = paid
           /\ Sales!Columns(total, paid, due).due = due
  BY DEF Sales!Columns, Invoice

LEMMA SettlementFields ==
    ASSUME NEW r \in Settlement
    PROVE  /\ r.op \in {"receipt", "allocate", "unallocate"} /\ r # Sales!Idle
           /\ r.entry \in Entries \cup {NoEntry} /\ r.alloc \in [Invoices -> Nat]
           /\ r.extra \in Nat /\ r.manual \in Nat /\ r.todo \in Seq(Invoices) /\ r.held \in SUBSET Invoices
           /\ r.seen \in Int /\ r.found \in [Invoices -> Int]
  BY DEF Settlement, Sales!Idle

LEMMA IdleFields ==
    /\ Sales!Idle.op = "idle" /\ Sales!Idle.held = {} /\ Sales!Idle.todo = <<>>
  BY DEF Sales!Idle

(* Of whatever a request is, what it holds is a set of invoices.           *)
LEMMA HeldType ==
    ASSUME SaleRequests, NEW s \in Callers
    PROVE  /\ requests[s].held \in SUBSET Invoices
           /\ requests[s] # Sales!Idle => requests[s] \in Settlement
  BY SettlementFields, IdleFields DEF SaleRequests

(* No look has found what stands for none.                                *)
LEMMA UnseenInt == SalesAssumption => Sales!Unseen \in Int
  BY DEF Sales!Unseen, SalesAssumption

(* A lock taken: the fields it changes and those it leaves.                *)
Locked(r, i) == [r EXCEPT !.held = @ \cup {i}, !.todo = Tail(@), !.seen = Sales!Unseen,
                          !.found[i] = r.seen]

LEMMA LockedFields ==
    ASSUME SalesAssumption, NEW r \in Settlement, NEW i \in Invoices,
           Tail(r.todo) \in Seq(Invoices)
    PROVE  /\ Locked(r, i) \in Settlement /\ Locked(r, i).op = r.op
           /\ Locked(r, i).entry = r.entry /\ Locked(r, i).alloc = r.alloc
           /\ Locked(r, i).held = r.held \cup {i} /\ Locked(r, i).todo = Tail(r.todo)
           /\ Locked(r, i).found[i] = r.seen
           /\ \A j \in Invoices \ {i} : Locked(r, i).found[j] = r.found[j]
  BY UnseenInt, SettlementFields DEF Locked, Settlement

(* An order lists every invoice of its set.                                *)
LEMMA SaleOrders ==
    ASSUME SalesAssumption, NEW S \in SUBSET Invoices, NEW o \in Sales!Orders(S)
    PROVE  o \in Seq(Invoices) /\ \A i \in S : \E k \in DOMAIN o : o[k] = i
<1>1. Cardinality(S) \in Nat
  BY FS_Subset, FS_CardinalityType DEF SalesAssumption
<1>2. Sales!Cardinality(S) = Cardinality(S)
  BY DEF Sales!Cardinality, Cardinality
<1>3. o \in [1..Cardinality(S) -> S] /\ \A i \in S : \E k \in DOMAIN o : o[k] = i
  BY <1>2 DEF Sales!Orders
<1>. QED
  BY <1>1, <1>3

(* The instance has its own names for what it takes from the library.      *)
LEMMA SameSum == \A f : Sales!SumFunction(f) = SumFunction(f)
  BY DEF Sales!SumFunction, Sales!SumFunctionOnSet, Sales!FoldFunctionOnSet, Sales!MapThenFoldSet,
         SumFunction, SumFunctionOnSet, FoldFunctionOnSet, MapThenFoldSet

(* What the entries settle of an invoice, and what one entry's rows make   *)
(* of it.                                                                  *)
EntrySum(tab, i) == SumFunction([e \in Entries |-> tab[e][i]])

LEMMA EntrySumNat ==
    ASSUME SalesAssumption, NEW tab \in [Entries -> [Invoices -> Nat]], NEW i \in Invoices
    PROVE  EntrySum(tab, i) \in Nat
<1>. DEFINE f == [e \in Entries |-> tab[e][i]]
<1>1. IsFiniteSet(Entries) /\ \A e \in Entries : f[e] \in Nat
  BY DEF SalesAssumption
<1>2. EntrySum(tab, i) = SumFunctionOnSet(f, Entries)
  BY Zenon DEF EntrySum, SumFunction
<1>. HIDE DEF f
<1>. QED
  BY <1>1, <1>2, SumNat

LEMMA EntrySumChange ==
    ASSUME SalesAssumption, NEW i \in Invoices, NEW e \in Entries,
           NEW tab \in [Entries -> [Invoices -> Nat]], NEW new \in [Entries -> [Invoices -> Nat]],
           \A d \in Entries \ {e} : new[d][i] = tab[d][i]
    PROVE  EntrySum(new, i) = EntrySum(tab, i) + new[e][i] - tab[e][i]
<1>. DEFINE f == [d \in Entries |-> tab[d][i]]
            g == [d \in Entries |-> new[d][i]]
<1>1. /\ IsFiniteSet(Entries)
      /\ \A d \in Entries : f[d] \in Int /\ g[d] \in Int
      /\ \A d \in Entries : d # e => g[d] = f[d]
  BY DEF SalesAssumption
<1>2. EntrySum(tab, i) = SumFunctionOnSet(f, Entries) /\ EntrySum(new, i) = SumFunctionOnSet(g, Entries)
  BY Zenon DEF EntrySum, SumFunction
<1>3. f[e] = tab[e][i] /\ g[e] = new[e][i]
  OBVIOUS
<1>. HIDE DEF f, g
<1>. QED
  BY <1>1, <1>2, <1>3, SumChange

LEMMA SettledIs ==
    ASSUME NEW i \in Invoices
    PROVE  Sales!JeSettled(i) = EntrySum(jeAlloc, i) /\ Sales!Settled(i) = received[i] + EntrySum(jeAlloc, i)
  BY SameSum DEF Sales!Settled, Sales!JeSettled, EntrySum

-----------------------------------------------------------------------------
(* Steps and the requests they leave alone.                                *)

(* A step of one request: the others ask for what they asked for.          *)
LEMMA OnlyOne ==
    ASSUME SaleRequests, NEW s \in Callers, NEW r \in Settlement \cup {Sales!Idle},
           requests' = [requests EXCEPT ![s] = r]
    PROVE  /\ requests' \in [Callers -> Settlement \cup {Sales!Idle}]
           /\ requests'[s] = r
           /\ \A t \in Callers \ {s} : requests'[t] = requests[t]
  BY DEF SaleRequests

(* A request that ends may have changed the invoices it held, and may have *)
(* taken away rows that it alone removes.                                  *)
LEMMA SaleEnds ==
    ASSUME SaleRequests, NEW s \in Callers, Sales!End(s),
           SaleTables, invoice' \in [Invoices -> Invoice],
           jeAlloc' \in [Entries -> [Invoices -> Nat]],
           \A i \in Invoices : /\ invoice'[i].total = invoice[i].total
                               /\ i \notin requests[s].held => invoice'[i] = invoice[i],
           \A e \in Entries, i \in Invoices :
               Removes(s, e, i) \/ jeAlloc[e][i] <= jeAlloc'[e][i]
    PROVE  SaleRequests'
<1>1. /\ requests' \in [Callers -> Settlement \cup {Sales!Idle}]
      /\ requests'[s] = Sales!Idle
      /\ \A t \in Callers \ {s} : requests'[t] = requests[t]
  BY OnlyOne DEF Sales!End
<1>2. ASSUME NEW t \in Callers
      PROVE  AskedOK(t)'
  <2>1. CASE t = s
    BY <1>1, <2>1 DEF AskedOK
  <2>2. CASE t # s
    <3>1. AskedOK(t) /\ requests'[t] = requests[t]
      BY <1>1, <2>2 DEF SaleRequests
    <3>2. ASSUME requests[t] # Sales!Idle, NEW i \in Invoices, requests[t].op = "unallocate"
          PROVE  requests[t].alloc[i] <= jeAlloc'[requests[t].entry][i]
      <4>1. requests[t].entry \in Entries /\ requests[t].alloc[i] <= jeAlloc[requests[t].entry][i]
        BY <3>1, <3>2 DEF AskedOK
      <4>2. requests[t].alloc[i] \in Nat
        BY <3>2, HeldType, SettlementFields
      <4>3. jeAlloc[requests[t].entry][i] \in Nat /\ jeAlloc'[requests[t].entry][i] \in Nat
        BY <4>1 DEF SaleTables
      <4>4. CASE requests[t].alloc[i] > 0
        <5>1. Removes(t, requests[t].entry, i)
          BY <3>2, <4>4 DEF Removes
        <5>2. ~Removes(s, requests[t].entry, i)
          BY <2>2, <4>1, <5>1 DEF SaleRequests, RemovalsApart
        <5>. QED
          BY <4>1, <4>2, <4>3, <5>2
      <4>. QED
        BY <4>2, <4>3, <4>4
    <3>. QED
      BY <3>1, <3>2 DEF AskedOK
  <2>. QED
    BY <2>1, <2>2
<1>3. ASSUME NEW t \in Callers
      PROVE  PassedOK(t)'
  <2>1. CASE t = s
    BY <1>1, <2>1 DEF PassedOK
  <2>2. CASE t # s
    <3>1. PassedOK(t) /\ requests'[t] = requests[t]
      BY <1>1, <2>2 DEF SaleRequests
    <3>2. \A i \in requests[t].held : invoice'[i] = invoice[i]
      BY <2>2, HeldType DEF SaleRequests, LocksApart
    <3>. QED
      BY <3>1, <3>2 DEF PassedOK
  <2>. QED
    BY <2>1, <2>2
<1>4. LocksApart'
  BY <1>1, IdleFields DEF SaleRequests, LocksApart
<1>5. RemovalsApart'
  BY <1>1 DEF SaleRequests, RemovalsApart, Removes
<1>. QED
  BY <1>1, <1>2, <1>3, <1>4, <1>5 DEF SaleRequests

(* Nothing of the books changes.                                           *)
LEMMA BooksStay ==
    ASSUME SaleBooks, UNCHANGED Sales!books
    PROVE  SaleBooks'
<1>1. /\ invoice' = invoice /\ received' = received /\ jeAlloc' = jeAlloc
      /\ outstanding' = outstanding /\ receivable' = receivable /\ credited' = credited
      /\ orphaned' = orphaned /\ stale' = stale
  BY DEF Sales!books
<1>. QED
  BY <1>1 DEF SaleBooks, SaleTables, UnbegunOK, InvoiceOK, OverOK, Sales!Exists, Sales!Settled,
       Sales!JeSettled, Sales!CustomerAgrees

(* A request that ends without a write, for whatever reason.               *)
LEMMA SaleEndKeeps ==
    ASSUME SaleInv, NEW s \in Callers, Sales!End(s), UNCHANGED Sales!books
    PROVE  SaleInv'
<1>1. invoice' = invoice /\ jeAlloc' = jeAlloc
  BY DEF Sales!books
<1>2. \A e \in Entries, i \in Invoices : jeAlloc[e][i] <= jeAlloc'[e][i]
  BY <1>1 DEF SaleInv, SaleBooks, SaleTables
<1>3. SaleRequests'
  BY <1>1, <1>2, SaleEnds DEF SaleInv, SaleBooks, SaleTables
<1>. QED
  BY <1>3, BooksStay DEF SaleInv

(* A request that starts holds nothing, names invoices that exist for that *)
(* much, and removes what no other request removes.                        *)
MayStart(r) ==
    /\ r.held = {}
    /\ r.op # "receipt" => r.entry \in Entries
    /\ \A i \in Invoices :
          /\ r.alloc[i] <= invoice[i].total
          /\ r.op = "unallocate" => r.alloc[i] <= jeAlloc[r.entry][i]
          /\ r.alloc[i] > 0 => \E k \in DOMAIN r.todo : r.todo[k] = i
    /\ r.op = "unallocate" =>
          \A t \in Callers, i \in Invoices : Removes(t, r.entry, i) => ~(r.alloc[i] > 0)

LEMMA SaleStartKeeps ==
    ASSUME SaleInv, NEW s \in Callers, UNCHANGED Sales!books, NEW r \in Settlement,
           requests' = [requests EXCEPT ![s] = r], MayStart(r)
    PROVE  SaleInv'
<1>1. SaleRequests
  BY DEF SaleInv
<1>2. /\ requests' \in [Callers -> Settlement \cup {Sales!Idle}]
      /\ requests'[s] = r
      /\ \A t \in Callers \ {s} : requests'[t] = requests[t]
  BY <1>1, OnlyOne
<1>3. invoice' = invoice /\ jeAlloc' = jeAlloc
  BY DEF Sales!books
<1>4. ASSUME NEW t \in Callers
      PROVE  AskedOK(t)' /\ PassedOK(t)'
  <2>1. CASE t = s
    BY <1>2, <1>3, <2>1 DEF AskedOK, PassedOK, MayStart
  <2>2. CASE t # s
    BY <1>1, <1>2, <1>3, <2>2 DEF AskedOK, PassedOK, SaleRequests
  <2>. QED
    BY <2>1, <2>2
<1>5. LocksApart'
  BY <1>1, <1>2 DEF SaleRequests, LocksApart, MayStart
<1>6. ASSUME NEW t \in Callers, NEW u \in Callers, NEW e \in Entries, NEW i \in Invoices,
             Removes(t, e, i)', Removes(u, e, i)', t # u
      PROVE  FALSE
  <2>1. CASE t = s
    <3>1. Removes(u, r.entry, i) /\ r.op = "unallocate" /\ r.alloc[i] > 0
      BY <1>2, <1>6, <2>1 DEF Removes
    <3>. QED
      BY <3>1 DEF MayStart
  <2>2. CASE u = s
    <3>1. Removes(t, r.entry, i) /\ r.op = "unallocate" /\ r.alloc[i] > 0
      BY <1>2, <1>6, <2>2 DEF Removes
    <3>. QED
      BY <3>1 DEF MayStart
  <2>3. CASE t # s /\ u # s
    BY <1>1, <1>2, <1>6, <2>3 DEF Removes, SaleRequests, RemovalsApart
  <2>. QED
    BY <2>1, <2>2, <2>3
<1>7. RemovalsApart'
  BY <1>6 DEF RemovalsApart
<1>. QED
  BY <1>2, <1>4, <1>5, <1>7, BooksStay DEF SaleInv, SaleRequests

-----------------------------------------------------------------------------
(* The requests that start.                                                *)

Begun(op, entry, alloc, extra, manual, order) ==
    [op |-> op, entry |-> entry, alloc |-> alloc, extra |-> extra, manual |-> manual, todo |-> order,
     held |-> {}, seen |-> Sales!Unseen, found |-> [i \in Invoices |-> Sales!Unseen]]

(* What every request checks when it starts, and who may start one that is *)
(* no removal.                                                             *)
LEMMA SaleStarts ==
    ASSUME SaleInv, NEW s \in Callers, NEW op \in {"receipt", "allocate"},
           NEW entry \in Entries \cup {NoEntry}, NEW alloc \in Sales!Amounts, NEW extra \in Nat,
           NEW manual \in Nat, NEW order \in Sales!Orders(Sales!Named(alloc)),
           op # "receipt" => entry \in Entries,
           Sales!Start(s, op, entry, alloc, extra, manual, order)
    PROVE  SaleInv'
<1>1. SalesAssumption
  BY DEF SaleInv, SaleBooks, SaleTables
<1>2. alloc \in [Invoices -> Nat]
  <2>1. 0..MaxInvoiced \subseteq Nat
    BY <1>1 DEF SalesAssumption
  <2>. QED
    BY <2>1 DEF Sales!Amounts
<1>3. order \in Seq(Invoices) /\ \A i \in Sales!Named(alloc) : \E k \in DOMAIN order : order[k] = i
  <2>1. Sales!Named(alloc) \in SUBSET Invoices
    BY DEF Sales!Named
  <2>. QED
    BY <1>1, <2>1, SaleOrders
<1>. DEFINE r == Begun(op, entry, alloc, extra, manual, order)
<1>4. /\ r \in Settlement /\ r.op = op /\ r.entry = entry /\ r.alloc = alloc
      /\ r.todo = order /\ r.held = {}
  <2>1. op \in {"receipt", "allocate", "unallocate"}
    OBVIOUS
  <2>. QED
    BY <1>1, <1>2, <1>3, <2>1, UnseenInt DEF Begun, Settlement
<1>5. requests' = [requests EXCEPT ![s] = r] /\ UNCHANGED Sales!books
  BY DEF Sales!Start, Begun
<1>6. \A i \in Invoices : alloc[i] > 0 => alloc[i] <= invoice[i].total
  BY DEF Sales!Start, Sales!Named
<1>7. \A i \in Invoices : alloc[i] <= invoice[i].total
  <2>1. \A i \in Invoices : alloc[i] \in Nat /\ invoice[i].total \in Nat
    BY <1>2, InvoiceFields DEF SaleInv, SaleBooks, SaleTables
  <2>. QED
    BY <1>6, <2>1
<1>8. \A i \in Invoices : alloc[i] > 0 => \E k \in DOMAIN order : order[k] = i
  BY <1>3 DEF Sales!Named
<1>. HIDE DEF r
<1>9. MayStart(r)
  <2>1. r.op # "unallocate" /\ (r.op # "receipt" => r.entry \in Entries)
    BY <1>4
  <2>2. \A i \in Invoices :
           /\ r.alloc[i] <= invoice[i].total
           /\ r.alloc[i] > 0 => \E k \in DOMAIN r.todo : r.todo[k] = i
    BY <1>4, <1>7, <1>8
  <2>. QED
    BY ONLY <1>4, <2>1, <2>2 DEF MayStart
<1>. QED
  BY <1>4, <1>5, <1>9, SaleStartKeeps

LEMMA ReceiptStarts ==
    ASSUME SaleInv, NEW s \in Callers, NEW alloc \in Sales!Amounts,
           NEW order \in Sales!Orders(Sales!Named(alloc)), NEW extra \in Surpluses \cup {0},
           NEW manual \in Surpluses \cup {0}, Sales!RequestReceipt(s, alloc, extra, manual, order)
    PROVE  SaleInv'
<1>1. extra \in Nat /\ manual \in Nat
  BY DEF SaleInv, SaleBooks, SaleTables, SalesAssumption
<1>. QED
  BY <1>1, SaleStarts DEF Sales!RequestReceipt

LEMMA AllocateStarts ==
    ASSUME SaleInv, NEW s \in Callers, NEW e \in Entries, NEW alloc \in Sales!Amounts,
           NEW order \in Sales!Orders(Sales!Named(alloc)),
           Sales!RequestAllocate(s, e, alloc, order)
    PROVE  SaleInv'
  BY SaleStarts DEF Sales!RequestAllocate

(* A removal names the rows of its entry, none of which another removes.   *)
LEMMA UnallocateStarts ==
    ASSUME SaleInv, NEW s \in Callers, NEW e \in Entries, NEW S \in SUBSET Invoices,
           NEW order \in Sales!Orders(S), Sales!RequestUnallocate(s, e, S, order)
    PROVE  SaleInv'
<1>. DEFINE rows == [i \in Invoices |-> IF i \in S THEN jeAlloc[e][i] ELSE 0]
            r == Begun("unallocate", e, rows, 0, 0, order)
<1>1. SalesAssumption /\ jeAlloc[e] \in [Invoices -> Nat]
  BY DEF SaleInv, SaleBooks, SaleTables
<1>2. rows \in [Invoices -> Nat] /\ \A i \in Invoices : rows[i] <= jeAlloc[e][i]
  BY <1>1
<1>3. order \in Seq(Invoices) /\ \A i \in S : \E k \in DOMAIN order : order[k] = i
  BY <1>1, SaleOrders
<1>4. /\ S = Sales!Named(rows)
      /\ \A t \in Callers : requests[t].op = "unallocate" /\ requests[t].entry = e =>
             Sales!Named(requests[t].alloc) \cap S = {}
      /\ requests' = [requests EXCEPT ![s] = r] /\ UNCHANGED Sales!books
      /\ \A i \in Sales!Named(rows) : rows[i] <= invoice[i].total
  BY DEF Sales!RequestUnallocate, Sales!Start, Begun
<1>. HIDE DEF rows
<1>5. /\ r \in Settlement /\ r.op = "unallocate" /\ r.entry = e /\ r.alloc = rows
      /\ r.todo = order /\ r.held = {}
  <2>1. "unallocate" \in {"receipt", "allocate", "unallocate"} /\ 0 \in Nat /\ e \in Entries \cup {NoEntry}
    OBVIOUS
  <2>. QED
    BY <1>1, <1>2, <1>3, <2>1, UnseenInt DEF Begun, Settlement
<1>. HIDE DEF r
<1>6. \A i \in Invoices : rows[i] > 0 <=> i \in S
  BY <1>4 DEF Sales!Named
<1>7. \A i \in Invoices : rows[i] <= invoice[i].total
  <2>1. \A i \in Invoices : rows[i] \in Nat /\ invoice[i].total \in Nat
    BY <1>2, InvoiceFields DEF SaleInv, SaleBooks, SaleTables
  <2>. QED
    BY <1>4, <1>6, <2>1
<1>8. \A t \in Callers, i \in Invoices : Removes(t, e, i) => ~(rows[i] > 0)
  BY <1>4, <1>6 DEF Removes, Sales!Named
<1>9. /\ r.entry \in Entries
      /\ \A i \in Invoices :
            /\ r.alloc[i] <= invoice[i].total
            /\ r.alloc[i] <= jeAlloc[r.entry][i]
            /\ r.alloc[i] > 0 => \E k \in DOMAIN r.todo : r.todo[k] = i
      /\ \A t \in Callers, i \in Invoices : Removes(t, r.entry, i) => ~(r.alloc[i] > 0)
  BY <1>2, <1>3, <1>5, <1>6, <1>7, <1>8
<1>10. MayStart(r)
  BY ONLY <1>5, <1>9 DEF MayStart
<1>. QED
  BY <1>4, <1>5, <1>10, SaleStartKeeps

-----------------------------------------------------------------------------
(* The looks and the locks.                                                *)

LEMMA OpenIs ==
    ASSUME SaleTables, NEW i \in Invoices
    PROVE  /\ Sales!Open(i) \in Int /\ EntrySum(jeAlloc, i) \in Nat
           /\ Sales!Open(i) = invoice[i].total - received[i] - EntrySum(jeAlloc, i)
<1>1. EntrySum(jeAlloc, i) \in Nat
  BY EntrySumNat DEF SaleTables
<1>2. invoice[i].total \in Nat /\ received[i] \in Nat
  BY InvoiceFields DEF SaleTables
<1>. QED
  BY <1>1, <1>2, SettledIs DEF Sales!Open

LEMMA LookKeeps ==
    ASSUME SaleInv, NEW s \in Callers, Sales!Look(s)
    PROVE  SaleInv'
<1>. DEFINE r == requests[s]
            seen == Sales!OpenTo(r, Head(r.todo))
            next == [r EXCEPT !.seen = seen]
<1>1. SaleRequests /\ SaleTables
  BY DEF SaleInv, SaleBooks
<1>2. r \in Settlement /\ r.todo # <<>>
  BY <1>1, HeldType, IdleFields DEF Sales!Look, Sales!Visiting
<1>3. /\ r.op \in {"receipt", "allocate", "unallocate"} /\ r.todo \in Seq(Invoices)
      /\ r.held \in SUBSET Invoices /\ r.alloc \in [Invoices -> Nat] /\ r # Sales!Idle
  BY <1>2, SettlementFields
<1>4. Head(r.todo) \in Invoices
  BY <1>2, <1>3
<1>5. seen \in Int
  BY <1>1, <1>3, <1>4, OpenIs DEF Sales!OpenTo
<1>6. requests' = [requests EXCEPT ![s] = next] /\ UNCHANGED Sales!books
  BY DEF Sales!Look
<1>. HIDE DEF seen
<1>7. /\ next \in Settlement /\ next.op = r.op /\ next.entry = r.entry /\ next.alloc = r.alloc
      /\ next.held = r.held /\ next.todo = r.todo /\ next.found = r.found
  BY <1>2, <1>5 DEF Settlement
<1>8. next # Sales!Idle
  BY <1>7, SettlementFields
<1>. HIDE DEF next
<1>9. /\ requests' \in [Callers -> Settlement \cup {Sales!Idle}]
      /\ requests'[s] = next
      /\ \A t \in Callers \ {s} : requests'[t] = requests[t]
  BY <1>1, <1>6, <1>7, OnlyOne
<1>10. invoice' = invoice /\ jeAlloc' = jeAlloc
  BY <1>6 DEF Sales!books
<1>11. ASSUME NEW t \in Callers
       PROVE  AskedOK(t)' /\ PassedOK(t)'
  <2>1. AskedOK(t) /\ PassedOK(t)
    BY <1>1 DEF SaleRequests
  <2>2. CASE t = s
    BY <1>3, <1>7, <1>9, <1>10, <2>1, <2>2 DEF AskedOK, PassedOK
  <2>3. CASE t # s
    BY <1>9, <1>10, <2>1, <2>3 DEF AskedOK, PassedOK
  <2>. QED
    BY <2>2, <2>3
<1>12. LocksApart'
  BY <1>1, <1>7, <1>9 DEF SaleRequests, LocksApart
<1>13. \A t \in Callers, e \in Entries, i \in Invoices : Removes(t, e, i)' <=> Removes(t, e, i)
  BY <1>3, <1>7, <1>8, <1>9 DEF Removes
<1>14. RemovalsApart'
  BY <1>1, <1>13 DEF SaleRequests, RemovalsApart
<1>. QED
  BY <1>6, <1>9, <1>11, <1>12, <1>14, BooksStay DEF SaleInv, SaleRequests

(* The head of what is still to be locked is locked, after the check.      *)
LEMMA LockKeeps ==
    ASSUME SaleInv, NEW s \in Callers, Sales!Lock(s)
    PROVE  SaleInv'
<1>. DEFINE r == requests[s]
            i == Head(r.todo)
            next == Locked(r, i)
<1>1. SaleRequests /\ SaleTables /\ SalesAssumption
  BY DEF SaleInv, SaleBooks, SaleTables
<1>2. r \in Settlement /\ r.todo # <<>> /\ UNCHANGED Sales!books
  BY <1>1, HeldType, IdleFields DEF Sales!Lock, Sales!Visiting
<1>3. /\ r.op \in {"receipt", "allocate", "unallocate"} /\ r.todo \in Seq(Invoices)
      /\ r.held \in SUBSET Invoices /\ r.alloc \in [Invoices -> Nat] /\ r # Sales!Idle
  BY <1>2, SettlementFields
<1>4. i \in Invoices /\ Tail(r.todo) \in Seq(Invoices)
  BY <1>2, <1>3
<1>5. CASE Sales!End(s)
  BY <1>2, <1>5, SaleEndKeeps
<1>6. CASE Sales!Accepts(r, i) /\ requests' = [requests EXCEPT ![s] = next]
  <2>1. /\ next \in Settlement /\ next.op = r.op /\ next.entry = r.entry /\ next.alloc = r.alloc
        /\ next.held = r.held \cup {i} /\ next.todo = Tail(r.todo) /\ next.found[i] = r.seen
        /\ \A j \in Invoices \ {i} : next.found[j] = r.found[j]
    BY <1>1, <1>2, <1>4, LockedFields
  <2>2. next # Sales!Idle
    BY <2>1, SettlementFields
  <2>. HIDE DEF next
  <2>3. /\ requests' \in [Callers -> Settlement \cup {Sales!Idle}]
        /\ requests'[s] = next
        /\ \A t \in Callers \ {s} : requests'[t] = requests[t]
    BY <1>1, <1>6, <2>1, OnlyOne
  <2>4. invoice' = invoice /\ jeAlloc' = jeAlloc
    BY <1>2 DEF Sales!books
  <2>5. ASSUME NEW t \in Callers, t # s
        PROVE  AskedOK(t)' /\ PassedOK(t)'
    BY <1>1, <2>3, <2>4, <2>5 DEF AskedOK, PassedOK, SaleRequests
  <2>6. AskedOK(s)'
    <3>1. AskedOK(s)
      BY <1>1 DEF SaleRequests
    <3>2. ASSUME NEW j \in Invoices, r.alloc[j] > 0
          PROVE  j \in next.held \/ \E k \in DOMAIN next.todo : next.todo[k] = j
      <4>1. j \in r.held \/ \E k \in DOMAIN r.todo : r.todo[k] = j
        BY <1>3, <3>1, <3>2 DEF AskedOK
      <4>2. ASSUME NEW k \in DOMAIN r.todo, r.todo[k] = j
            PROVE  j = i \/ \E m \in DOMAIN Tail(r.todo) : Tail(r.todo)[m] = j
        <5>1. CASE k = 1
          BY <1>3, <4>2, <5>1
        <5>2. CASE k # 1
          <6>1. PICK q \in Seq(Invoices) : q = r.todo
            BY <1>3
          <6>2. q # <<>> /\ k \in DOMAIN q /\ k # 1
            BY <1>2, <4>2, <5>2, <6>1
          <6>3. k - 1 \in DOMAIN Tail(q) /\ Tail(q)[k - 1] = q[k]
            BY ONLY <6>1, <6>2, SMTT(30)
          <6>. QED
            BY <4>2, <6>1, <6>3
        <5>. QED
          BY <5>1, <5>2
      <4>. QED
        BY <2>1, <4>1, <4>2
    <3>. QED
      BY <1>3, <2>1, <2>3, <2>4, <3>1, <3>2 DEF AskedOK
  <2>7. PassedOK(s)'
    <3>1. PassedOK(s)
      BY <1>1 DEF SaleRequests
    <3>2. ASSUME NEW j \in next.held
          PROVE  /\ r.op = "receipt" => r.alloc[j] <= invoice[j].due
                 /\ r.op = "allocate" => r.alloc[j] <= next.found[j]
      <4>1. CASE j = i
        BY <1>6, <2>1, <4>1 DEF Sales!Accepts
      <4>2. CASE j # i
        <5>1. j \in r.held /\ j \in Invoices \ {i}
          BY <1>3, <2>1, <3>2, <4>2
        <5>. QED
          BY <1>3, <2>1, <3>1, <5>1 DEF PassedOK
      <4>. QED
        BY <4>1, <4>2
    <3>. QED
      BY <2>1, <2>3, <2>4, <3>2 DEF PassedOK
  <2>8. LocksApart'
    <3>1. \A t \in Callers \ {s} : i \notin requests[t].held
      BY DEF Sales!Lock, Sales!Free
    <3>. QED
      BY <1>1, <2>1, <2>3, <3>1 DEF SaleRequests, LocksApart
  <2>9. \A t \in Callers, e \in Entries, j \in Invoices : Removes(t, e, j)' <=> Removes(t, e, j)
    BY <1>3, <2>1, <2>2, <2>3 DEF Removes
  <2>10. RemovalsApart'
    BY <1>1, <2>9 DEF SaleRequests, RemovalsApart
  <2>. QED
    BY <1>2, <2>3, <2>5, <2>6, <2>7, <2>8, <2>10, BooksStay DEF SaleInv, SaleRequests
<1>. QED
  BY <1>5, <1>6 DEF Sales!Lock, Locked

-----------------------------------------------------------------------------
(* The steps that change the books.                                        *)

(* A sum over the invoices.                                                *)
LEMMA SumOfInvoices ==
    ASSUME SalesAssumption, NEW f, DOMAIN f = Invoices, \A i \in Invoices : f[i] \in Int
    PROVE  Sales!SumFunction(f) = SumFunctionOnSet(f, Invoices) /\ SumFunctionOnSet(f, Invoices) \in Int
<1>1. SumFunction(f) = SumFunctionOnSet(f, Invoices)
  BY Zenon DEF SumFunction
<1>. QED
  BY <1>1, SameSum, SumInt DEF SalesAssumption

(* What receipts leave of an invoice.                                      *)
Left == [i \in Invoices |-> invoice[i].total - received[i]]

LEMMA LeftType ==
    ASSUME SaleTables
    PROVE  /\ DOMAIN Left = Invoices
           /\ \A i \in Invoices : Left[i] = invoice[i].total - received[i] /\ Left[i] \in Int
  BY InvoiceFields DEF SaleTables, Left

(* No step forgets that a removal has stored a stale balance.              *)
Remembered == \A i \in Invoices : "unallocate" \in stale[i] => "unallocate" \in stale'[i]

(* Entries settle invoices without a word to the customer.                 *)
LEMMA CustomerStays ==
    ASSUME SaleBooks, Remembered, UNCHANGED <<received, outstanding, receivable, credited>>,
           \A i \in Invoices : invoice'[i].total = invoice[i].total
    PROVE  Sales!CustomerAgrees'
<1>1. [i \in Invoices |-> invoice'[i].total - received'[i]]
        = [i \in Invoices |-> invoice[i].total - received[i]]
  OBVIOUS
<1>2. /\ received' = received /\ outstanding' = outstanding /\ receivable' = receivable
      /\ credited' = credited
  OBVIOUS
<1>. QED
  BY <1>1, <1>2 DEF SaleBooks, Sales!CustomerAgrees, Remembered

(* A request that has taken all its locks holds every invoice it settles,  *)
(* and what it has checked of each.                                        *)
LEMMA SaleReady ==
    ASSUME SaleRequests, NEW s \in Callers, NEW op \in {"receipt", "allocate", "unallocate"},
           Sales!Ready(s, op)
    PROVE  /\ requests[s] \in Settlement /\ requests[s] # Sales!Idle /\ requests[s].op = op
           /\ requests[s].alloc \in [Invoices -> Nat]
           /\ op # "receipt" => requests[s].entry \in Entries
           /\ \A i \in Invoices :
                 /\ requests[s].alloc[i] <= invoice[i].total
                 /\ op = "unallocate" => requests[s].alloc[i] <= jeAlloc[requests[s].entry][i]
                 /\ requests[s].alloc[i] > 0 =>
                       /\ i \in requests[s].held
                       /\ op = "receipt" => requests[s].alloc[i] <= invoice[i].due
                       /\ op = "allocate" => requests[s].alloc[i] <= requests[s].found[i]
<1>1. requests[s].op = op /\ requests[s].todo = <<>>
  BY DEF Sales!Ready, Sales!Visiting
<1>2. requests[s] # Sales!Idle /\ requests[s] \in Settlement
  BY <1>1, IdleFields, HeldType
<1>3. AskedOK(s) /\ PassedOK(s)
  BY DEF SaleRequests
<1>4. requests[s].alloc \in [Invoices -> Nat]
  BY <1>2, SettlementFields
<1>5. \A i \in Invoices : requests[s].alloc[i] > 0 => i \in requests[s].held
  BY <1>1, <1>2, <1>3 DEF AskedOK
<1>. QED
  BY <1>1, <1>2, <1>3, <1>4, <1>5 DEF AskedOK, PassedOK

(* An invoice is created: nothing has been settled of it, and nobody can   *)
(* be about to.                                                            *)
LEMMA CreateKeeps ==
    ASSUME SaleInv, NEW i \in Invoices, NEW n \in 1..MaxInvoiced, Sales!CreateInvoice(i, n)
    PROVE  SaleInv'
<1>. DEFINE new == Sales!Columns(n, 0, n)
<1>1. SaleBooks /\ SaleTables /\ SaleRequests /\ SalesAssumption
  BY DEF SaleInv, SaleBooks, SaleTables
<1>2. n \in Nat /\ n > 0
  BY <1>1 DEF SalesAssumption
<1>3. new \in Invoice /\ new.total = n /\ new.paid = 0 /\ new.due = n
  BY <1>2, SaleColumns
<1>. HIDE DEF new
<1>4. /\ invoice' \in [Invoices -> Invoice] /\ invoice'[i] = new
      /\ \A j \in Invoices \ {i} : invoice'[j] = invoice[j]
      /\ received' = received /\ jeAlloc' = jeAlloc /\ stale' = stale /\ requests' = requests
      /\ orphaned' = orphaned
      /\ outstanding' = outstanding + n /\ receivable' = receivable + n /\ credited' = credited
      /\ ~Sales!Exists(i)
  BY <1>1, <1>3 DEF Sales!CreateInvoice, SaleTables, new
<1>5. /\ invoice[i].total = 0 /\ received[i] = 0 /\ orphaned[i] = 0
      /\ \A e \in Entries : jeAlloc[e][i] = 0
  <2>1. invoice[i].total \in Nat
    BY <1>1, InvoiceFields DEF SaleTables
  <2>. QED
    BY <1>1, <1>4, <2>1 DEF SaleBooks, UnbegunOK, Sales!Exists
<1>6. SaleTables'
  BY <1>1, <1>2, <1>4 DEF SaleTables
<1>7. Sales!Settled(i) = 0
  <2>. DEFINE f == [e \in Entries |-> jeAlloc[e][i]]
  <2>1. IsFiniteSet(Entries) /\ \A e \in Entries : f[e] = 0
    BY <1>1, <1>5 DEF SalesAssumption
  <2>2. EntrySum(jeAlloc, i) = SumFunctionOnSet(f, Entries)
    BY Zenon DEF EntrySum, SumFunction
  <2>. HIDE DEF f
  <2>3. EntrySum(jeAlloc, i) = 0
    BY <2>1, <2>2, SumZero
  <2>. QED
    BY <1>5, <2>3, SettledIs
<1>8. \A j \in Invoices : Sales!Settled(j)' = Sales!Settled(j)
  BY <1>4 DEF Sales!Settled, Sales!JeSettled
<1>9. ASSUME NEW j \in Invoices
      PROVE  UnbegunOK(j)' /\ InvoiceOK(j)' /\ OverOK(j)'
  <2>1. UnbegunOK(j) /\ InvoiceOK(j) /\ OverOK(j)
    BY <1>1 DEF SaleBooks
  <2>2. CASE j = i
    <3>1. invoice'[j].total = n /\ invoice'[j].paid = 0 /\ invoice'[j].due = n
          /\ Sales!Settled(j)' = 0 /\ received'[j] = 0 /\ orphaned'[j] = 0
      BY <1>3, <1>4, <1>5, <1>7, <1>8, <2>2
    <3>2. UnbegunOK(j)'
      BY <1>4, <1>5, <2>2 DEF UnbegunOK
    <3>3. Sales!Max0(n - (0 + 0)) = n
      BY <1>2 DEF Sales!Max0
    <3>4. InvoiceOK(j)'
      BY <1>2, <3>1, <3>3 DEF InvoiceOK, Sales!Max0
    <3>5. OverOK(j)'
      BY <1>2, <3>1 DEF OverOK
    <3>. QED
      BY <3>2, <3>4, <3>5
  <2>3. CASE j # i
    <3>1. invoice'[j] = invoice[j] /\ Sales!Settled(j)' = Sales!Settled(j)
      BY <1>4, <1>8, <2>3
    <3>. QED
      BY <1>4, <2>1, <3>1 DEF UnbegunOK, InvoiceOK, OverOK, Sales!Exists, Sales!Max0
  <2>. QED
    BY <2>2, <2>3
<1>10. Sales!CustomerAgrees'
  <2>1. SUFFICES ASSUME \A j \in Invoices : "unallocate" \notin stale[j]
                 PROVE  /\ outstanding' = receivable' + credited'
                        /\ outstanding' = Sales!SumFunction(Left')
    BY <1>4 DEF Sales!CustomerAgrees, Left
  <2>2. outstanding = receivable + credited /\ outstanding = Sales!SumFunction(Left)
    BY <1>1, <2>1 DEF SaleBooks, Sales!CustomerAgrees, Left
  <2>3. PICK f : f = Left
    OBVIOUS
  <2>4. PICK g : g = Left'
    OBVIOUS
  <2>5. DOMAIN f = Invoices /\ \A j \in Invoices : f[j] \in Int
    BY <1>1, <2>3, LeftType
  <2>6. DOMAIN g = Invoices /\ \A j \in Invoices : g[j] = invoice'[j].total - received'[j] /\ g[j] \in Int
    BY <1>6, <2>4, InvoiceFields DEF SaleTables, Left
  <2>7. \A j \in Invoices : j # i => g[j] = f[j]
    BY <1>1, <1>4, <2>3, <2>6, LeftType
  <2>8. f[i] = 0 /\ g[i] = n
    BY <1>1, <1>3, <1>4, <1>5, <2>3, <2>6, LeftType
  <2>9. SumFunctionOnSet(g, Invoices) = SumFunctionOnSet(f, Invoices) + g[i] - f[i]
    BY <1>1, <2>5, <2>6, <2>7, SumChange DEF SalesAssumption
  <2>10. /\ Sales!SumFunction(f) = SumFunctionOnSet(f, Invoices) /\ SumFunctionOnSet(f, Invoices) \in Int
         /\ Sales!SumFunction(g) = SumFunctionOnSet(g, Invoices)
    BY <1>1, <2>5, <2>6, SumOfInvoices
  <2>. QED
    BY <1>1, <1>2, <1>4, <2>2, <2>3, <2>4, <2>8, <2>9, <2>10 DEF SaleTables
<1>11. ASSUME NEW t \in Callers
       PROVE  AskedOK(t)' /\ PassedOK(t)'
  <2>1. AskedOK(t) /\ PassedOK(t) /\ requests'[t] = requests[t]
    BY <1>1, <1>4 DEF SaleRequests
  <2>2. CASE requests[t] = Sales!Idle
    BY <2>1, <2>2 DEF AskedOK, PassedOK
  <2>3. CASE requests[t] # Sales!Idle
    <3>1. requests[t].alloc \in [Invoices -> Nat] /\ requests[t].held \in SUBSET Invoices
      BY <1>1, <2>3, HeldType, SettlementFields
    <3>2. requests[t].alloc[i] = 0
      BY <1>5, <2>1, <2>3, <3>1 DEF AskedOK
    <3>3. ASSUME NEW j \in Invoices
          PROVE  /\ requests[t].alloc[j] <= invoice'[j].total
                 /\ requests[t].alloc[j] <= invoice[j].due => requests[t].alloc[j] <= invoice'[j].due
      <4>1. CASE j = i
        BY <1>2, <1>3, <1>4, <3>2, <4>1
      <4>2. CASE j # i
        BY <1>4, <2>1, <2>3, <4>2 DEF AskedOK
      <4>. QED
        BY <4>1, <4>2
    <3>4. AskedOK(t)'
      BY <1>4, <2>1, <3>3 DEF AskedOK
    <3>5. PassedOK(t)'
      BY <2>1, <3>1, <3>3 DEF PassedOK
    <3>. QED
      BY <3>4, <3>5
  <2>. QED
    BY <2>2, <2>3
<1>12. LocksApart' /\ RemovalsApart'
  BY <1>1, <1>4 DEF SaleRequests, LocksApart, RemovalsApart, Removes
<1>. QED
  BY <1>1, <1>4, <1>6, <1>9, <1>10, <1>11, <1>12 DEF SaleInv, SaleBooks, SaleRequests

(* What an allocation or a removal changes in the table of its entry.      *)
LEMMA SettledChange ==
    ASSUME SaleTables, NEW i \in Invoices, NEW e \in Entries,
           jeAlloc' \in [Entries -> [Invoices -> Nat]],
           \A d \in Entries \ {e} : jeAlloc'[d] = jeAlloc[d]
    PROVE  EntrySum(jeAlloc', i) = EntrySum(jeAlloc, i) + jeAlloc'[e][i] - jeAlloc[e][i]
<1>1. PICK tab : tab = jeAlloc
  OBVIOUS
<1>2. PICK new : new = jeAlloc'
  OBVIOUS
<1>. QED
  BY <1>1, <1>2, EntrySumChange DEF SaleTables

LEMMA SettledNext ==
    ASSUME NEW i \in Invoices
    PROVE  Sales!Settled(i)' = received'[i] + EntrySum(jeAlloc', i)
<1>1. PICK tab : tab = jeAlloc'
  OBVIOUS
<1>2. Sales!Settled(i)' = received'[i] + Sales!SumFunction([e \in Entries |-> jeAlloc'[e][i]])
  BY DEF Sales!Settled, Sales!JeSettled
<1>. QED
  BY <1>1, <1>2, SameSum DEF EntrySum

(* One invoice of a receipt.                                               *)
LEMMA ReceiptSettles ==
    ASSUME NEW r \in Invoice, NEW amt \in Nat, NEW rec \in Nat, NEW je \in Nat, NEW row,
           amt <= r.due, amt <= r.total, row = Sales!AfterReceipt(r, amt)
    PROVE  /\ row \in Invoice /\ row.total = r.total
           /\ (/\ r.due = Sales!Max0(r.total - (rec + je))
               /\ r.paid = r.total - r.due
               /\ amt > 0)
              => /\ row.due = Sales!Max0(row.total - ((rec + amt) + je))
                 /\ row.paid = row.total - row.due
                 /\ rec + amt + je <= r.total
<1>1. r.total \in Nat /\ r.paid \in Int /\ r.due \in Nat
  BY InvoiceFields
<1>. DEFINE left == r.total - (r.paid + amt)
<1>2. left \in Int /\ Sales!Max0(left) \in Nat
  BY <1>1, Max0Nat
<1>3. row = Sales!Columns(r.total, r.paid + amt, Sales!Max0(left))
  BY DEF Sales!AfterReceipt
<1>. HIDE DEF left
<1>4. /\ row \in Invoice /\ row.total = r.total /\ row.paid = r.paid + amt
      /\ row.due = Sales!Max0(left)
  <2>1. r.paid + amt \in Int
    BY <1>1
  <2>. QED
    BY <1>1, <1>2, <1>3, <2>1 DEF Sales!Columns, Invoice
<1>5. ASSUME r.due = Sales!Max0(r.total - (rec + je)), r.paid = r.total - r.due, amt > 0
      PROVE  /\ row.due = Sales!Max0(row.total - ((rec + amt) + je))
             /\ row.paid = row.total - row.due
             /\ rec + amt + je <= r.total
  <2>1. r.due = r.total - (rec + je)
    BY <1>1, <1>5, Max0Nat
  <2>2. left = r.due - amt /\ left >= 0 /\ left = r.total - ((rec + amt) + je)
    BY <1>1, <1>5, <2>1 DEF left
  <2>3. Sales!Max0(left) = left
    BY <1>2, <2>2, Max0Nat
  <2>. QED
    BY <1>1, <1>4, <1>5, <2>1, <2>2, <2>3
<1>. QED
  BY <1>4, <1>5

(* A receipt settles what is due, and the customer owes that much less.    *)
LEMMA FinishReceiptKeeps ==
    ASSUME SaleInv, NEW s \in Callers, Sales!FinishReceipt(s)
    PROVE  SaleInv'
<1>. DEFINE r == requests[s]
<1>1. SaleBooks /\ SaleTables /\ SaleRequests /\ SalesAssumption
  BY DEF SaleInv, SaleBooks, SaleTables
<1>2. Sales!Ready(s, "receipt") /\ Sales!End(s)
  BY DEF Sales!FinishReceipt
<1>3. /\ r # Sales!Idle /\ r.op = "receipt" /\ r.alloc \in [Invoices -> Nat] /\ r.manual \in Nat
      /\ \A i \in Invoices :
            /\ r.alloc[i] <= invoice[i].total
            /\ r.alloc[i] > 0 => i \in r.held /\ r.alloc[i] <= invoice[i].due
  BY <1>1, <1>2, SaleReady, SettlementFields
<1>4. /\ invoice' = [i \in Invoices |->
             IF r.alloc[i] > 0 THEN Sales!AfterReceipt(invoice[i], r.alloc[i]) ELSE invoice[i]]
      /\ received' = [i \in Invoices |-> received[i] + r.alloc[i]]
      /\ receivable' = receivable - Sales!SumFunction(r.alloc) - r.manual
      /\ credited' = credited + r.manual
      /\ outstanding' = Sales!Max0(outstanding - Sales!SumFunction(r.alloc))
      /\ jeAlloc' = jeAlloc /\ orphaned' = orphaned /\ stale' = stale
  BY DEF Sales!FinishReceipt, Sales!appliedToInvoices, Sales!reduceBy
<1>5. PICK alloc : alloc = r.alloc
  OBVIOUS
<1>6. ASSUME NEW i \in Invoices
      PROVE  /\ invoice[i] \in Invoice /\ received[i] \in Nat /\ EntrySum(jeAlloc, i) \in Nat
             /\ r.alloc[i] \in Nat /\ orphaned[i] \in Nat
             /\ invoice'[i] \in Invoice /\ invoice'[i].total = invoice[i].total
             /\ UnbegunOK(i)' /\ InvoiceOK(i)' /\ OverOK(i)'
  <2>1. invoice[i] \in Invoice /\ received[i] \in Nat /\ r.alloc[i] \in Nat /\ orphaned[i] \in Nat
    BY <1>1, <1>3 DEF SaleTables
  <2>2. EntrySum(jeAlloc, i) \in Nat
    BY <1>1, EntrySumNat DEF SaleTables
  <2>3. UnbegunOK(i) /\ InvoiceOK(i) /\ OverOK(i)
    BY <1>1 DEF SaleBooks
  <2>4. received'[i] = received[i] + r.alloc[i] /\ orphaned'[i] = orphaned[i]
    BY <1>4
  <2>5. /\ Sales!Settled(i) = received[i] + EntrySum(jeAlloc, i)
        /\ Sales!Settled(i)' = (received[i] + r.alloc[i]) + EntrySum(jeAlloc, i)
    BY <1>4, <2>4, SettledIs, SettledNext
  <2>6. invoice[i].total \in Nat /\ invoice[i].paid \in Int /\ invoice[i].due \in Nat
    BY <2>1, InvoiceFields
  <2>7. CASE r.alloc[i] > 0
    <3>1. invoice'[i] = Sales!AfterReceipt(invoice[i], r.alloc[i])
      BY <1>4, <2>7
    <3>2. r.alloc[i] <= invoice[i].due /\ r.alloc[i] <= invoice[i].total
      BY <1>3, <2>7
    <3>3. /\ invoice'[i] \in Invoice /\ invoice'[i].total = invoice[i].total
          /\ (/\ invoice[i].due = Sales!Max0(invoice[i].total
                     - (received[i] + (EntrySum(jeAlloc, i) + orphaned[i])))
              /\ invoice[i].paid = invoice[i].total - invoice[i].due)
             => /\ invoice'[i].due = Sales!Max0(invoice'[i].total
                       - ((received[i] + r.alloc[i]) + (EntrySum(jeAlloc, i) + orphaned[i])))
                /\ invoice'[i].paid = invoice'[i].total - invoice'[i].due
                /\ received[i] + r.alloc[i] + (EntrySum(jeAlloc, i) + orphaned[i]) <= invoice[i].total
      <4>1. PICK row : row = invoice[i]
        OBVIOUS
      <4>2. PICK new : new = invoice'[i]
        OBVIOUS
      <4>3. PICK amt : amt = r.alloc[i]
        OBVIOUS
      <4>4. PICK rec : rec = received[i]
        OBVIOUS
      <4>5. PICK je : je = EntrySum(jeAlloc, i) + orphaned[i]
        OBVIOUS
      <4>6. /\ row \in Invoice /\ amt \in Nat /\ rec \in Nat /\ je \in Nat /\ amt > 0
            /\ amt <= row.due /\ amt <= row.total /\ new = Sales!AfterReceipt(row, amt)
        BY <2>1, <2>2, <2>7, <3>1, <3>2, <4>1, <4>2, <4>3, <4>4, <4>5
      <4>7. /\ new \in Invoice /\ new.total = row.total
            /\ (row.due = Sales!Max0(row.total - (rec + je)) /\ row.paid = row.total - row.due)
               => /\ new.due = Sales!Max0(new.total - ((rec + amt) + je))
                  /\ new.paid = new.total - new.due
                  /\ rec + amt + je <= row.total
        BY ONLY <4>6, ReceiptSettles
      <4>. QED
        BY <4>1, <4>2, <4>3, <4>4, <4>5, <4>7
    <3>4. UnbegunOK(i)'
      BY <2>1, <2>6, <2>7, <3>2, <3>3 DEF UnbegunOK, Sales!Exists
    <3>5. InvoiceOK(i)'
      BY <1>4, <2>1, <2>2, <2>3, <2>4, <2>5, <2>6, <3>3 DEF InvoiceOK, Sales!Max0
    <3>6. OverOK(i)'
      BY <1>4, <2>1, <2>2, <2>3, <2>4, <2>5, <2>6, <3>3 DEF InvoiceOK, OverOK
    <3>. QED
      BY <2>1, <2>2, <3>3, <3>4, <3>5, <3>6
  <2>8. CASE ~(r.alloc[i] > 0)
    <3>1. invoice'[i] = invoice[i] /\ r.alloc[i] = 0
      BY <1>4, <2>1, <2>8
    <3>2. received'[i] = received[i] /\ Sales!Settled(i)' = Sales!Settled(i)
      BY <2>1, <2>2, <2>4, <2>5, <3>1
    <3>. QED
      BY <1>4, <2>1, <2>2, <2>3, <3>1, <3>2 DEF UnbegunOK, InvoiceOK, OverOK, Sales!Exists, Sales!Max0
  <2>. QED
    BY <2>7, <2>8
<1>7. DOMAIN alloc = Invoices /\ \A i \in Invoices : alloc[i] \in Int /\ alloc[i] \in Nat
  BY <1>3, <1>5
<1>8. PICK applied : applied = SumFunctionOnSet(alloc, Invoices)
  OBVIOUS
<1>9. applied \in Nat /\ Sales!SumFunction(r.alloc) = applied
  BY <1>1, <1>5, <1>7, <1>8, SumOfInvoices, SumNat DEF SalesAssumption
<1>10. /\ outstanding' = Sales!Max0(outstanding - applied)
       /\ receivable' = receivable - applied - r.manual /\ credited' = credited + r.manual
  BY <1>4, <1>9
<1>11. SaleTables'
  <2>1. outstanding \in Int /\ receivable \in Int /\ credited \in Int /\ r.manual \in Int
    BY <1>1, <1>3 DEF SaleTables
  <2>. HIDE DEF r
  <2>2. outstanding' \in Int /\ receivable' \in Int /\ credited' \in Int
    BY <1>9, <1>10, <2>1, Max0Nat
  <2>3. invoice' \in [Invoices -> Invoice] /\ received' \in [Invoices -> Nat]
    BY <1>4, <1>6
  <2>. QED
    BY <1>1, <1>4, <2>2, <2>3 DEF SaleTables
<1>12. Sales!CustomerAgrees'
  <2>1. SUFFICES ASSUME \A i \in Invoices : "unallocate" \notin stale[i]
                 PROVE  /\ outstanding' = receivable' + credited'
                        /\ outstanding' = Sales!SumFunction(Left')
    BY <1>4 DEF Sales!CustomerAgrees, Left
  <2>2. outstanding = receivable + credited /\ outstanding = Sales!SumFunction(Left)
    BY <1>1, <2>1 DEF SaleBooks, Sales!CustomerAgrees, Left
  <2>3. PICK f : f = Left
    OBVIOUS
  <2>4. PICK g : g = Left'
    OBVIOUS
  <2>5. DOMAIN f = Invoices /\ \A i \in Invoices : f[i] \in Int /\ f[i] = invoice[i].total - received[i]
    BY <1>1, <2>3, LeftType
  <2>6. DOMAIN g = Invoices /\ \A i \in Invoices : g[i] = invoice'[i].total - received'[i] /\ g[i] \in Int
    BY <1>11, <2>4, InvoiceFields DEF SaleTables, Left
  <2>7. ASSUME NEW i \in Invoices
        PROVE  g[i] \in Int /\ alloc[i] \in Int /\ f[i] = g[i] + alloc[i] /\ alloc[i] <= f[i]
    <3>1. /\ invoice[i].total \in Nat /\ received[i] \in Nat /\ alloc[i] \in Nat
          /\ EntrySum(jeAlloc, i) \in Nat /\ orphaned[i] \in Nat
      BY <1>5, <1>6, InvoiceFields
    <3>2. invoice'[i].total = invoice[i].total /\ received'[i] = received[i] + alloc[i]
      BY <1>4, <1>5, <1>6
    <3>3. InvoiceOK(i)
      BY <1>1 DEF SaleBooks
    <3>4. received[i] <= invoice[i].total
      BY <2>1, <3>3 DEF InvoiceOK
    <3>5. CASE alloc[i] > 0
      <4>1. alloc[i] <= invoice[i].due
            /\ invoice[i].due = Sales!Max0(invoice[i].total
                   - (received[i] + EntrySum(jeAlloc, i) + orphaned[i]))
        BY <1>3, <1>5, <2>1, <3>3, <3>5, SettledIs DEF InvoiceOK
      <4>2. alloc[i] <= invoice[i].total - (received[i] + EntrySum(jeAlloc, i) + orphaned[i])
        BY <3>1, <3>5, <4>1, Max0Nat
      <4>. QED
        BY <2>5, <2>6, <3>1, <3>2, <4>2
    <3>6. CASE alloc[i] = 0
      BY <2>5, <2>6, <3>1, <3>2, <3>4, <3>6
    <3>. QED
      BY <3>1, <3>5, <3>6
  <2>8. /\ SumFunctionOnSet(f, Invoices) = SumFunctionOnSet(g, Invoices) + applied
        /\ applied <= SumFunctionOnSet(f, Invoices)
    <3>1. \A i \in Invoices : f[i] \in Int
      BY <2>5
    <3>2. IsFiniteSet(Invoices)
      BY <1>1 DEF SalesAssumption
    <3>. QED
      BY <1>8, <2>7, <3>1, <3>2, SumPlus, SumLeq
  <2>9. /\ Sales!SumFunction(f) = SumFunctionOnSet(f, Invoices) /\ SumFunctionOnSet(f, Invoices) \in Int
        /\ Sales!SumFunction(g) = SumFunctionOnSet(g, Invoices) /\ SumFunctionOnSet(g, Invoices) \in Int
    BY <1>1, <2>5, <2>6, SumOfInvoices
  <2>10. outstanding = SumFunctionOnSet(f, Invoices) /\ outstanding - applied >= 0
    BY <1>9, <2>2, <2>3, <2>8, <2>9
  <2>11. outstanding' = outstanding - applied
    BY <1>9, <1>10, <2>9, <2>10, Max0Nat
  <2>. QED
    <3>1. outstanding' = receivable' + credited'
      <4>1. receivable \in Int /\ credited \in Int /\ r.manual \in Int /\ outstanding \in Int
        BY <1>1, <1>3 DEF SaleTables
      <4>. HIDE DEF r
      <4>. QED
        BY <1>9, <1>10, <2>2, <2>11, <4>1
    <3>2. outstanding' = Sales!SumFunction(Left')
      BY <1>9, <2>2, <2>4, <2>8, <2>9, <2>10, <2>11
    <3>. QED
      BY <3>1, <3>2
<1>13. SaleRequests'
  <2>1. \A i \in Invoices : i \notin r.held => invoice'[i] = invoice[i]
    BY <1>3, <1>4
  <2>2. jeAlloc' \in [Entries -> [Invoices -> Nat]]
        /\ \A e \in Entries, i \in Invoices : jeAlloc[e][i] <= jeAlloc'[e][i]
    BY <1>1, <1>4 DEF SaleTables
  <2>. QED
    BY <1>1, <1>2, <1>6, <1>11, <2>1, <2>2, SaleEnds DEF SaleTables
<1>. QED
  BY <1>6, <1>11, <1>12, <1>13 DEF SaleInv, SaleBooks

(* One invoice whose balance is stored anew from what was found open.      *)
LEMMA SyncSettles ==
    ASSUME NEW r \in Invoice, NEW open \in Int
    PROVE  /\ Sales!AfterSync(r, open) \in Invoice
           /\ Sales!AfterSync(r, open).total = r.total
           /\ Sales!AfterSync(r, open).due = Sales!Max0(open)
           /\ Sales!AfterSync(r, open).paid = r.total - Sales!Max0(open)
<1>1. r.total \in Nat /\ Sales!Max0(open) \in Nat
  BY InvoiceFields, Max0Nat
<1>2. PICK due : due = Sales!Max0(open)
  OBVIOUS
<1>3. due \in Nat /\ r.total - due \in Int
  BY <1>1, <1>2
<1>4. PICK total \in Nat, paid \in Int : total = r.total /\ paid = r.total - due
  BY <1>1, <1>3
<1>5. Sales!AfterSync(r, open) = Sales!Columns(total, paid, due)
  BY <1>2, <1>4 DEF Sales!AfterSync
<1>6. /\ Sales!Columns(total, paid, due) \in Invoice
      /\ Sales!Columns(total, paid, due).total = total
      /\ Sales!Columns(total, paid, due).paid = paid
      /\ Sales!Columns(total, paid, due).due = due
  BY <1>3 DEF Sales!Columns, Invoice
<1>. QED
  BY <1>2, <1>4, <1>5, <1>6

(* An allocation settles what its look found open, which may be too much,  *)
(* and stores what is open now.                                            *)
LEMMA FinishAllocateKeeps ==
    ASSUME SaleInv, NEW s \in Callers, Sales!FinishAllocate(s)
    PROVE  SaleInv'
<1>. DEFINE r == requests[s]
<1>1. SaleBooks /\ SaleTables /\ SaleRequests /\ SalesAssumption
  BY DEF SaleInv, SaleBooks, SaleTables
<1>2. Sales!Ready(s, "allocate") /\ Sales!End(s)
  BY DEF Sales!FinishAllocate
<1>3. /\ r # Sales!Idle /\ r.op = "allocate" /\ r.alloc \in [Invoices -> Nat] /\ r.entry \in Entries
      /\ \A i \in Invoices :
            /\ r.alloc[i] <= invoice[i].total
            /\ r.alloc[i] > 0 => i \in r.held /\ r.alloc[i] <= r.found[i]
  BY <1>1, <1>2, SaleReady
<1>4. r.found \in [Invoices -> Int]
  BY <1>1, <1>3, HeldType, SettlementFields
<1>5. /\ jeAlloc' = [jeAlloc EXCEPT ![r.entry] = [i \in Invoices |-> @[i] + r.alloc[i]]]
      /\ invoice' = [i \in Invoices |->
             IF r.alloc[i] > 0 THEN Sales!AfterSync(invoice[i], Sales!Open(i) - r.alloc[i])
             ELSE invoice[i]]
      /\ stale' = [i \in Invoices |-> stale[i] \cup
             IF r.alloc[i] > 0 /\ r.found[i] # Sales!OpenTo(r, i) THEN {r.op} ELSE {}]
      /\ orphaned' = [i \in Invoices |-> IF r.alloc[i] > 0 THEN 0 ELSE orphaned[i]]
      /\ UNCHANGED <<received, outstanding, receivable, credited>>
  BY DEF Sales!FinishAllocate, Sales!Remember, Sales!Recounted
<1>6. /\ jeAlloc' \in [Entries -> [Invoices -> Nat]]
      /\ \A d \in Entries \ {r.entry} : jeAlloc'[d] = jeAlloc[d]
      /\ \A i \in Invoices : jeAlloc'[r.entry][i] = jeAlloc[r.entry][i] + r.alloc[i]
  <2>1. [i \in Invoices |-> jeAlloc[r.entry][i] + r.alloc[i]] \in [Invoices -> Nat]
    BY <1>1, <1>3 DEF SaleTables
  <2>. QED
    BY <1>1, <1>3, <1>5, <2>1 DEF SaleTables
<1>7. ASSUME NEW i \in Invoices
      PROVE  /\ invoice'[i] \in Invoice /\ invoice'[i].total = invoice[i].total
             /\ i \notin r.held => invoice'[i] = invoice[i]
             /\ UnbegunOK(i)' /\ InvoiceOK(i)' /\ OverOK(i)'
  <2>1. invoice[i] \in Invoice /\ received[i] \in Nat /\ r.alloc[i] \in Nat /\ r.found[i] \in Int
        /\ orphaned[i] \in Nat /\ orphaned'[i] = (IF r.alloc[i] > 0 THEN 0 ELSE orphaned[i])
    BY <1>1, <1>3, <1>4, <1>5 DEF SaleTables
  <2>2. /\ Sales!Open(i) \in Int /\ EntrySum(jeAlloc, i) \in Nat
        /\ Sales!Open(i) = invoice[i].total - received[i] - EntrySum(jeAlloc, i)
    BY <1>1, OpenIs
  <2>3. UnbegunOK(i) /\ InvoiceOK(i) /\ OverOK(i)
    BY <1>1 DEF SaleBooks
  <2>4. EntrySum(jeAlloc', i) = EntrySum(jeAlloc, i) + r.alloc[i]
    <3>1. EntrySum(jeAlloc', i) = EntrySum(jeAlloc, i) + jeAlloc'[r.entry][i] - jeAlloc[r.entry][i]
      BY <1>1, <1>3, <1>6, SettledChange
    <3>2. jeAlloc[r.entry][i] \in Nat
      BY <1>1, <1>3 DEF SaleTables
    <3>. QED
      BY <1>6, <2>1, <2>2, <3>1, <3>2
  <2>5. /\ Sales!Settled(i) = received[i] + EntrySum(jeAlloc, i)
        /\ Sales!Settled(i)' = received[i] + (EntrySum(jeAlloc, i) + r.alloc[i])
        /\ received'[i] = received[i]
    BY <1>5, <2>4, SettledIs, SettledNext
  <2>6. invoice[i].total \in Nat /\ invoice[i].paid \in Int /\ invoice[i].due \in Nat
    BY <2>1, InvoiceFields
  <2>7. CASE r.alloc[i] > 0
    <3>1. PICK open \in Int : open = Sales!Open(i) - r.alloc[i]
      BY <2>1, <2>2
    <3>2. invoice'[i] = Sales!AfterSync(invoice[i], open)
      BY <1>5, <2>7, <3>1
    <3>3. /\ invoice'[i] \in Invoice /\ invoice'[i].total = invoice[i].total
          /\ invoice'[i].due = Sales!Max0(open)
          /\ invoice'[i].paid = invoice[i].total - Sales!Max0(open)
      <4>1. PICK row \in Invoice : row = invoice[i]
        BY <2>1
      <4>. QED
        BY <3>2, <4>1, SyncSettles
    <3>4. open = invoice[i].total - Sales!Settled(i)'
      BY <2>1, <2>2, <2>5, <2>6, <3>1
    <3>5. i \in r.held /\ r.alloc[i] <= invoice[i].total /\ r.alloc[i] <= r.found[i]
      BY <1>3, <2>7
    <3>6. Sales!Exists(i) /\ UnbegunOK(i)'
      BY <2>1, <2>6, <2>7, <3>3, <3>5 DEF UnbegunOK, Sales!Exists
    <3>7. "unallocate" \notin stale'[i] => received[i] <= invoice[i].total
      BY <1>5, <2>3 DEF InvoiceOK
    <3>8. InvoiceOK(i)'
      BY <2>1, <2>2, <2>5, <2>7, <3>3, <3>4, <3>7 DEF InvoiceOK, Sales!Max0
    <3>9. OverOK(i)'
      <4>1. CASE r.found[i] # Sales!OpenTo(r, i)
        BY <1>5, <2>7, <4>1 DEF OverOK
      <4>2. CASE r.found[i] = Sales!OpenTo(r, i)
        <5>1. r.found[i] = Sales!Open(i)
          BY <1>3, <2>2, <4>2 DEF Sales!OpenTo
        <5>2. Sales!Settled(i)' <= invoice'[i].total
          BY <2>1, <2>2, <2>5, <2>6, <3>3, <3>5, <5>1
        <5>3. Sales!Settled(i)' \in Int /\ invoice'[i].total \in Int
          BY <2>1, <2>2, <2>5, <2>6, <3>3
        <5>. QED
          BY <5>2, <5>3 DEF OverOK
      <4>. QED
        BY <4>1, <4>2
    <3>. QED
      BY <3>3, <3>5, <3>6, <3>8, <3>9
  <2>8. CASE ~(r.alloc[i] > 0)
    <3>1. invoice'[i] = invoice[i] /\ r.alloc[i] = 0
      BY <1>5, <2>1, <2>8
    <3>2. /\ Sales!Settled(i)' = Sales!Settled(i) /\ stale'[i] = stale[i]
          /\ orphaned'[i] = orphaned[i]
      BY <1>5, <2>1, <2>2, <2>5, <2>8, <3>1
    <3>3. \A e \in Entries : jeAlloc'[e][i] = jeAlloc[e][i]
      BY <1>1, <1>3, <1>6, <3>1 DEF SaleTables
    <3>. QED
      BY <2>1, <2>3, <2>5, <3>1, <3>2, <3>3 DEF UnbegunOK, InvoiceOK, OverOK, Sales!Exists, Sales!Max0
  <2>. QED
    BY <2>7, <2>8
<1>8. SaleTables'
  BY <1>1, <1>5, <1>6, <1>7 DEF SaleTables
<1>9. Sales!CustomerAgrees'
  BY <1>1, <1>5, <1>7, CustomerStays DEF Remembered
<1>10. SaleRequests'
  <2>1. \A e \in Entries, i \in Invoices : jeAlloc[e][i] <= jeAlloc'[e][i]
    BY <1>1, <1>3, <1>6 DEF SaleTables
  <2>. QED
    BY <1>1, <1>2, <1>6, <1>7, <1>8, <2>1, SaleEnds DEF SaleTables
<1>. QED
  BY <1>7, <1>8, <1>9, <1>10 DEF SaleInv, SaleBooks

(* A removal gives back what its rows settled, and stores what its looks   *)
(* found.                                                                  *)
LEMMA FinishUnallocateKeeps ==
    ASSUME SaleInv, NEW s \in Callers, Sales!FinishUnallocate(s)
    PROVE  SaleInv'
<1>. DEFINE r == requests[s]
<1>1. SaleBooks /\ SaleTables /\ SaleRequests /\ SalesAssumption
  BY DEF SaleInv, SaleBooks, SaleTables
<1>2. Sales!Ready(s, "unallocate") /\ Sales!End(s)
  BY DEF Sales!FinishUnallocate
<1>3. /\ r # Sales!Idle /\ r.op = "unallocate" /\ r.alloc \in [Invoices -> Nat] /\ r.entry \in Entries
      /\ \A i \in Invoices :
            /\ r.alloc[i] <= invoice[i].total
            /\ r.alloc[i] <= jeAlloc[r.entry][i]
            /\ r.alloc[i] > 0 => i \in r.held
  BY <1>1, <1>2, SaleReady
<1>4. r.found \in [Invoices -> Int]
  BY <1>1, <1>3, HeldType, SettlementFields
<1>5. /\ jeAlloc' = [jeAlloc EXCEPT ![r.entry] = [i \in Invoices |-> @[i] - r.alloc[i]]]
      /\ invoice' = [i \in Invoices |->
             IF r.alloc[i] > 0 THEN Sales!AfterSync(invoice[i], r.found[i]) ELSE invoice[i]]
      /\ stale' = [i \in Invoices |-> stale[i] \cup
             IF r.alloc[i] > 0 /\ r.found[i] # Sales!OpenTo(r, i) THEN {r.op} ELSE {}]
      /\ orphaned' = [i \in Invoices |-> IF r.alloc[i] > 0 THEN 0 ELSE orphaned[i]]
      /\ UNCHANGED <<received, outstanding, receivable, credited>>
  BY DEF Sales!FinishUnallocate, Sales!Remember, Sales!Recounted
<1>6. /\ jeAlloc' \in [Entries -> [Invoices -> Nat]]
      /\ \A d \in Entries \ {r.entry} : jeAlloc'[d] = jeAlloc[d]
      /\ \A i \in Invoices : jeAlloc'[r.entry][i] = jeAlloc[r.entry][i] - r.alloc[i]
  <2>1. [i \in Invoices |-> jeAlloc[r.entry][i] - r.alloc[i]] \in [Invoices -> Nat]
    BY <1>1, <1>3 DEF SaleTables
  <2>. QED
    BY <1>1, <1>3, <1>5, <2>1 DEF SaleTables
<1>7. ASSUME NEW i \in Invoices
      PROVE  /\ invoice'[i] \in Invoice /\ invoice'[i].total = invoice[i].total
             /\ i \notin r.held => invoice'[i] = invoice[i]
             /\ UnbegunOK(i)' /\ InvoiceOK(i)' /\ OverOK(i)'
  <2>1. invoice[i] \in Invoice /\ received[i] \in Nat /\ r.alloc[i] \in Nat /\ r.found[i] \in Int
        /\ orphaned[i] \in Nat /\ orphaned'[i] = (IF r.alloc[i] > 0 THEN 0 ELSE orphaned[i])
    BY <1>1, <1>3, <1>4, <1>5 DEF SaleTables
  <2>2. /\ Sales!Open(i) \in Int /\ EntrySum(jeAlloc, i) \in Nat
        /\ Sales!Open(i) = invoice[i].total - received[i] - EntrySum(jeAlloc, i)
    BY <1>1, OpenIs
  <2>3. UnbegunOK(i) /\ InvoiceOK(i) /\ OverOK(i)
    BY <1>1 DEF SaleBooks
  <2>4. EntrySum(jeAlloc', i) = EntrySum(jeAlloc, i) - r.alloc[i]
    <3>1. EntrySum(jeAlloc', i) = EntrySum(jeAlloc, i) + jeAlloc'[r.entry][i] - jeAlloc[r.entry][i]
      BY <1>1, <1>3, <1>6, SettledChange
    <3>2. jeAlloc[r.entry][i] \in Nat
      BY <1>1, <1>3 DEF SaleTables
    <3>. QED
      BY <1>6, <2>1, <2>2, <3>1, <3>2
  <2>5. /\ Sales!Settled(i) = received[i] + EntrySum(jeAlloc, i)
        /\ Sales!Settled(i)' = received[i] + (EntrySum(jeAlloc, i) - r.alloc[i])
        /\ received'[i] = received[i]
    BY <1>5, <2>4, SettledIs, SettledNext
  <2>6. invoice[i].total \in Nat /\ invoice[i].paid \in Int /\ invoice[i].due \in Nat
    BY <2>1, InvoiceFields
  <2>7. stale[i] \subseteq stale'[i]
    BY <1>5
  <2>8. OverOK(i)'
    <3>1. invoice'[i].total = invoice[i].total
      BY <1>5, <2>1, SyncSettles
    <3>2. Sales!Settled(i)' <= Sales!Settled(i) /\ Sales!Settled(i) \in Int /\ Sales!Settled(i)' \in Int
      BY <2>1, <2>2, <2>5
    <3>. QED
      BY <2>3, <2>6, <2>7, <3>1, <3>2 DEF OverOK
  <2>9. CASE r.alloc[i] > 0
    <3>1. invoice'[i] = Sales!AfterSync(invoice[i], r.found[i])
      BY <1>5, <2>9
    <3>2. /\ invoice'[i] \in Invoice /\ invoice'[i].total = invoice[i].total
          /\ invoice'[i].due = Sales!Max0(r.found[i])
          /\ invoice'[i].paid = invoice[i].total - Sales!Max0(r.found[i])
      <4>1. PICK row \in Invoice : row = invoice[i]
        BY <2>1
      <4>2. PICK open \in Int : open = r.found[i]
        BY <2>1
      <4>. QED
        BY <3>1, <4>1, <4>2, SyncSettles
    <3>3. i \in r.held /\ r.alloc[i] <= invoice[i].total
      BY <1>3, <2>9
    <3>4. Sales!Exists(i) /\ UnbegunOK(i)'
      BY <2>1, <2>6, <2>9, <3>2, <3>3 DEF UnbegunOK, Sales!Exists
    <3>5. ASSUME "unallocate" \notin stale'[i]
          PROVE  r.found[i] = invoice[i].total - Sales!Settled(i)' /\ received[i] <= invoice[i].total
      <4>1. r.found[i] = Sales!OpenTo(r, i) /\ "unallocate" \notin stale[i]
        BY <1>3, <1>5, <2>7, <2>9, <3>5
      <4>2. r.found[i] = Sales!Open(i) + r.alloc[i]
        BY <1>3, <4>1 DEF Sales!OpenTo
      <4>. QED
        BY <2>1, <2>2, <2>3, <2>5, <2>6, <4>1, <4>2 DEF InvoiceOK
    <3>6. InvoiceOK(i)'
      BY <2>1, <2>2, <2>5, <2>9, <3>2, <3>5 DEF InvoiceOK, Sales!Max0
    <3>. QED
      BY <2>8, <3>2, <3>3, <3>4, <3>6
  <2>10. CASE ~(r.alloc[i] > 0)
    <3>1. invoice'[i] = invoice[i] /\ r.alloc[i] = 0
      BY <1>5, <2>1, <2>10
    <3>2. /\ Sales!Settled(i)' = Sales!Settled(i) /\ stale'[i] = stale[i]
          /\ orphaned'[i] = orphaned[i]
      BY <1>5, <2>1, <2>2, <2>5, <2>10, <3>1
    <3>3. \A e \in Entries : jeAlloc'[e][i] = jeAlloc[e][i]
      BY <1>1, <1>3, <1>6, <3>1 DEF SaleTables
    <3>. QED
      BY <2>1, <2>3, <2>5, <2>8, <3>1, <3>2, <3>3 DEF UnbegunOK, InvoiceOK, Sales!Exists, Sales!Max0
  <2>. QED
    BY <2>9, <2>10
<1>8. SaleTables'
  BY <1>1, <1>5, <1>6, <1>7 DEF SaleTables
<1>9. Sales!CustomerAgrees'
  BY <1>1, <1>5, <1>7, CustomerStays DEF Remembered
<1>10. SaleRequests'
  <2>1. ASSUME NEW e \in Entries, NEW i \in Invoices
        PROVE  Removes(s, e, i) \/ jeAlloc[e][i] <= jeAlloc'[e][i]
    <3>1. jeAlloc[e][i] \in Nat /\ r.alloc[i] \in Nat
      BY <1>1, <1>3 DEF SaleTables
    <3>2. CASE e = r.entry /\ r.alloc[i] > 0
      BY <1>3, <3>2 DEF Removes
    <3>3. CASE e # r.entry
      BY <1>6, <3>1, <3>3
    <3>4. CASE e = r.entry /\ r.alloc[i] = 0
      BY <1>6, <3>1, <3>4
    <3>. QED
      BY <3>1, <3>2, <3>3, <3>4
  <2>. QED
    BY <1>1, <1>2, <1>6, <1>7, <1>8, <2>1, SaleEnds DEF SaleTables
<1>. QED
  BY <1>7, <1>8, <1>9, <1>10 DEF SaleInv, SaleBooks

(* An entry moves the receivables account and nothing else.                *)
LEMMA PostKeeps ==
    ASSUME SaleInv, NEW n \in -MaxCredited..MaxCredited, Sales!PostEntry(n)
    PROVE  SaleInv'
<1>1. SaleBooks /\ SaleTables /\ SaleRequests /\ SalesAssumption
  BY DEF SaleInv, SaleBooks, SaleTables
<1>2. n \in Int
  BY <1>1 DEF SalesAssumption
<1>3. /\ receivable' = receivable - n /\ credited' = credited + n
      /\ invoice' = invoice /\ received' = received /\ jeAlloc' = jeAlloc
      /\ outstanding' = outstanding /\ stale' = stale /\ requests' = requests
      /\ orphaned' = orphaned
  BY DEF Sales!PostEntry
<1>4. SaleTables'
  BY <1>1, <1>2, <1>3 DEF SaleTables
<1>5. \A i \in Invoices : UnbegunOK(i)' /\ InvoiceOK(i)' /\ OverOK(i)'
  BY <1>1, <1>3 DEF SaleBooks, UnbegunOK, InvoiceOK, OverOK, Sales!Exists, Sales!Settled, Sales!JeSettled
<1>6. Sales!CustomerAgrees'
  <2>1. receivable' + credited' = receivable + credited
    BY <1>1, <1>2, <1>3 DEF SaleTables
  <2>2. SUFFICES ASSUME \A i \in Invoices : "unallocate" \notin stale[i]
                 PROVE  /\ outstanding' = receivable' + credited'
                        /\ outstanding' = Sales!SumFunction(Left')
    BY <1>3 DEF Sales!CustomerAgrees, Left
  <2>3. outstanding = receivable + credited /\ outstanding = Sales!SumFunction(Left)
    BY <1>1, <2>2 DEF SaleBooks, Sales!CustomerAgrees, Left
  <2>4. Left' = Left
    BY <1>3 DEF Left
  <2>. QED
    BY <1>3, <2>1, <2>3, <2>4
<1>7. SaleRequests'
  BY <1>1, <1>3 DEF SaleRequests, AskedOK, PassedOK, LocksApart, RemovalsApart, Removes
<1>. QED
  BY <1>4, <1>5, <1>6, <1>7 DEF SaleInv, SaleBooks

(* A draft that is deleted takes its allocations with it: what it settled  *)
(* counts as orphaned, and nobody was removing its rows.                   *)
LEMMA DeleteKeeps ==
    ASSUME SaleInv, NEW e \in Entries, Sales!DeleteDraft(e)
    PROVE  SaleInv'
<1>1. SaleBooks /\ SaleTables /\ SaleRequests /\ SalesAssumption
  BY DEF SaleInv, SaleBooks, SaleTables
<1>2. /\ orphaned' = [i \in Invoices |-> orphaned[i] + jeAlloc[e][i]]
      /\ invoice' = invoice /\ received' = received /\ outstanding' = outstanding
      /\ receivable' = receivable /\ credited' = credited /\ stale' = stale
      /\ requests' = requests
      /\ \A t \in Callers : requests[t] # Sales!Idle => requests[t].entry # e
  BY DEF Sales!DeleteDraft
<1>3. /\ jeAlloc' \in [Entries -> [Invoices -> Nat]]
      /\ \A d \in Entries \ {e} : jeAlloc'[d] = jeAlloc[d]
      /\ \A i \in Invoices : jeAlloc'[e][i] = 0
  BY <1>1 DEF SaleTables, Sales!DeleteDraft
<1>4. \A d \in Entries, i \in Invoices : jeAlloc[d][i] \in Nat
  BY <1>1 DEF SaleTables
<1>5. orphaned' \in [Invoices -> Nat] /\ orphaned \in [Invoices -> Nat]
  BY <1>1, <1>2, <1>4 DEF SaleTables
<1>6. SaleTables'
  BY <1>1, <1>2, <1>3, <1>5 DEF SaleTables
<1>7. ASSUME NEW i \in Invoices
      PROVE  UnbegunOK(i)' /\ InvoiceOK(i)' /\ OverOK(i)'
  <2>1. UnbegunOK(i) /\ InvoiceOK(i) /\ OverOK(i)
    BY <1>1 DEF SaleBooks
  <2>2. EntrySum(jeAlloc', i) = EntrySum(jeAlloc, i) - jeAlloc[e][i]
    <3>1. EntrySum(jeAlloc', i) = EntrySum(jeAlloc, i) + jeAlloc'[e][i] - jeAlloc[e][i]
      BY <1>1, <1>3, SettledChange
    <3>. QED
      BY <1>1, <1>3, <1>4, <3>1, OpenIs
  <2>3. /\ Sales!Settled(i) = received[i] + EntrySum(jeAlloc, i)
        /\ Sales!Settled(i)' = received[i] + (EntrySum(jeAlloc, i) - jeAlloc[e][i])
    BY <1>2, <2>2, SettledIs, SettledNext
  <2>4. /\ received[i] \in Nat /\ EntrySum(jeAlloc, i) \in Nat /\ jeAlloc[e][i] \in Nat
        /\ orphaned[i] \in Nat /\ invoice[i].total \in Nat
        /\ orphaned'[i] = orphaned[i] + jeAlloc[e][i]
    BY <1>1, <1>2, <1>4, OpenIs, InvoiceFields DEF SaleTables
  <2>5. Sales!Settled(i)' + orphaned'[i] = Sales!Settled(i) + orphaned[i]
    BY <2>3, <2>4
  <2>6. InvoiceOK(i)'
    BY <1>2, <2>1, <2>5 DEF InvoiceOK, Sales!Max0
  <2>7. OverOK(i)'
    BY <1>2, <2>1, <2>3, <2>4 DEF OverOK
  <2>8. UnbegunOK(i)'
    <3>1. \A d \in Entries : jeAlloc[d][i] = 0 => jeAlloc'[d][i] = 0
      BY <1>3
    <3>. QED
      BY <1>2, <2>1, <2>4, <3>1 DEF UnbegunOK, Sales!Exists
  <2>. QED
    BY <2>6, <2>7, <2>8
<1>8. Sales!CustomerAgrees'
  BY <1>1, <1>2, CustomerStays DEF Remembered
<1>9. ASSUME NEW t \in Callers
      PROVE  AskedOK(t)'
  <2>1. AskedOK(t)
    BY <1>1 DEF SaleRequests
  <2>. QED
    BY <1>1, <1>2, <1>3, <2>1, HeldType, SettlementFields DEF AskedOK
<1>10. SaleRequests'
  BY <1>1, <1>2, <1>9 DEF SaleRequests, PassedOK, LocksApart, RemovalsApart, Removes
<1>. QED
  BY <1>6, <1>7, <1>8, <1>10 DEF SaleInv, SaleBooks

-----------------------------------------------------------------------------
LEMMA SaleInit ==
    ASSUME SalesAssumption, Sales!Init
    PROVE  SaleInv
<1>1. /\ invoice = [i \in Invoices |-> Sales!NoInvoice]
      /\ received = [i \in Invoices |-> 0]
      /\ jeAlloc = [e \in Entries |-> [i \in Invoices |-> 0]]
      /\ outstanding = 0 /\ receivable = 0 /\ credited = 0
      /\ orphaned = [i \in Invoices |-> 0] /\ stale = [i \in Invoices |-> {}]
      /\ requests = [s \in Callers |-> Sales!Idle]
  BY DEF Sales!Init
<1>2. Sales!NoInvoice \in Invoice
  BY DEF Sales!NoInvoice, Invoice
<1>3. SaleTables
  BY <1>1, <1>2 DEF SaleTables
<1>4. ASSUME NEW i \in Invoices
      PROVE  UnbegunOK(i) /\ InvoiceOK(i) /\ OverOK(i)
  <2>. DEFINE f == [e \in Entries |-> jeAlloc[e][i]]
  <2>1. IsFiniteSet(Entries) /\ \A e \in Entries : f[e] = 0
    BY <1>1 DEF SalesAssumption
  <2>2. EntrySum(jeAlloc, i) = SumFunctionOnSet(f, Entries)
    BY Zenon DEF EntrySum, SumFunction
  <2>. HIDE DEF f
  <2>3. EntrySum(jeAlloc, i) = 0
    BY <2>1, <2>2, SumZero
  <2>4. /\ invoice[i].total = 0 /\ invoice[i].paid = 0 /\ invoice[i].due = 0
        /\ received[i] = 0 /\ orphaned[i] = 0 /\ \A e \in Entries : jeAlloc[e][i] = 0
    BY <1>1 DEF Sales!NoInvoice
  <2>5. Sales!Settled(i) = 0
    BY <2>3, <2>4, SettledIs
  <2>. QED
    BY <2>4, <2>5 DEF UnbegunOK, InvoiceOK, OverOK, Sales!Max0
<1>5. Sales!CustomerAgrees
  <2>1. PICK f : f = Left
    OBVIOUS
  <2>2. DOMAIN f = Invoices /\ \A i \in Invoices : f[i] = 0 /\ f[i] \in Int
    BY <1>1, <2>1 DEF Left, Sales!NoInvoice
  <2>3. SumFunctionOnSet(f, Invoices) = 0
    BY <2>2, SumZero DEF SalesAssumption
  <2>4. Sales!SumFunction(f) = 0
    BY <2>2, <2>3, SumOfInvoices
  <2>. QED
    BY <1>1, <2>1, <2>4 DEF Sales!CustomerAgrees, Left
<1>6. SaleRequests
  BY <1>1, IdleFields DEF SaleRequests, AskedOK, PassedOK, LocksApart, RemovalsApart, Removes
<1>. QED
  BY <1>3, <1>4, <1>5, <1>6 DEF SaleInv, SaleBooks

LEMMA SaleSteps ==
    ASSUME SaleInv, [Sales!Next]_Sales!vars
    PROVE  SaleInv'
<1>1. CASE UNCHANGED Sales!vars
  <2>1. UNCHANGED Sales!books /\ requests' = requests
    BY <1>1 DEF Sales!vars
  <2>2. invoice' = invoice /\ jeAlloc' = jeAlloc
    BY <2>1 DEF Sales!books
  <2>3. SaleRequests'
    BY <2>1, <2>2 DEF SaleInv, SaleRequests, AskedOK, PassedOK, LocksApart, RemovalsApart, Removes
  <2>. QED
    BY <2>1, <2>3, BooksStay DEF SaleInv
<1>2. ASSUME NEW i \in Invoices, NEW n \in 1..MaxInvoiced, Sales!CreateInvoice(i, n)
      PROVE  SaleInv'
  BY <1>2, CreateKeeps
<1>3. ASSUME NEW s \in Callers, Sales!Request(s)
      PROVE  SaleInv'
  BY <1>3, ReceiptStarts, AllocateStarts, UnallocateStarts DEF Sales!Request
<1>4. ASSUME NEW s \in Callers, Sales!Proceed(s)
      PROVE  SaleInv'
  <2>1. CASE Sales!Look(s)
    BY <2>1, LookKeeps
  <2>2. CASE Sales!Lock(s)
    BY <2>2, LockKeeps
  <2>3. CASE Sales!GiveUp(s)
    BY <2>3, SaleEndKeeps DEF Sales!GiveUp
  <2>4. CASE Sales!FinishReceipt(s)
    BY <2>4, FinishReceiptKeeps
  <2>5. CASE Sales!FinishAllocate(s)
    BY <2>5, FinishAllocateKeeps
  <2>6. CASE Sales!FinishUnallocate(s)
    BY <2>6, FinishUnallocateKeeps
  <2>. QED
    BY <1>4, <2>1, <2>2, <2>3, <2>4, <2>5, <2>6 DEF Sales!Proceed
<1>5. ASSUME NEW s \in Callers, Sales!Rollback(s)
      PROVE  SaleInv'
  BY <1>5, SaleEndKeeps DEF Sales!Rollback
<1>6. ASSUME NEW n \in -MaxCredited..MaxCredited, Sales!PostEntry(n)
      PROVE  SaleInv'
  BY <1>6, PostKeeps
<1>7. ASSUME NEW e \in Entries, Sales!DeleteDraft(e)
      PROVE  SaleInv'
  BY <1>7, DeleteKeeps
<1>. QED
  BY <1>1, <1>2, <1>3, <1>4, <1>5, <1>6, <1>7 DEF Sales!Next

(* Whatever receipts, allocations and removals do to each other, the tables *)
(* and the requests in flight stay as SaleInv says.                        *)
THEOREM SalesInvariant == ASSUME SalesAssumption PROVE Sales!Spec => []SaleInv
<1>1. Sales!Init => SaleInv
  BY SaleInit
<1>2. SaleInv /\ [Sales!Next]_Sales!vars => SaleInv'
  BY SaleSteps
<1>. QED
  BY <1>1, <1>2, PTL DEF Sales!Spec

LEMMA SettledSame == \A i : Sales!Settled(i) = Settled(i)
  BY SameSum DEF Sales!Settled, Settled, Sales!JeSettled, JeSettled

(* The balance stored with an invoice is what receipts and entries leave   *)
(* open but for what deleted drafts had settled, unless a removal stored a *)
(* balance it had looked up too early.                                     *)
THEOREM DueIsWhatIsLeft == ASSUME SalesAssumption PROVE Sales!Spec => []DueIsDerived
<1>1. SaleInv => DueIsDerived
  BY SettledSame DEF SaleInv, SaleBooks, InvoiceOK, DueIsDerived, Max0, Sales!Max0
<1>. QED
  BY <1>1, SalesInvariant, PTL

(* Only a request that had looked at an invoice too early settles it       *)
(* beyond its total: receipts alone never do.                              *)
THEOREM OnlyStaleLooksOverSettle ==
    ASSUME SalesAssumption PROVE Sales!Spec => []OverSettledByStaleLook
<1>1. SaleInv => OverSettledByStaleLook
  BY SettledSame DEF SaleInv, SaleBooks, OverOK, OverSettledByStaleLook
<1>. QED
  BY <1>1, SalesInvariant, PTL

(* What the customer owes is what receipts leave of the invoices, never    *)
(* cut off at 0, and exceeds the receivables account by exactly what       *)
(* entries and manual lines of receipts credited to that account.          *)
THEOREM CustomerOwesReceivables == ASSUME SalesAssumption PROVE Sales!Spec => []CustomerAgrees
<1>1. SaleInv => CustomerAgrees
  BY SameSum DEF SaleInv, SaleBooks, Sales!CustomerAgrees, CustomerAgrees
<1>. QED
  BY <1>1, SalesInvariant, PTL

=============================================================================
