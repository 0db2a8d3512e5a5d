---------------------------- MODULE StockProofs ----------------------------
(***************************************************************************)
(* Proofs about Stock, for any purchases, places, transfers and handlers:  *)
(* the review of transfers tells what was moved; stock is conserved, the   *)
(* movement rows explain every lot, and the genealogy of seeds is sound.   *)
(*                                                                         *)
(* Books is inductive together with what transfers under review ask for.   *)
(* Each request is shown to grow the tables (Grows): it keeps the origin   *)
(* of every lot and adds m rows; what that does to the genealogy, to what  *)
(* was bought and to what lots account for is shown once (the Grown        *)
(* lemmas), so a request is left to say what it changes of each lot.       *)
(***************************************************************************)
EXTENDS Stock, TableLemmas

Rows ==
    /\ pending = [t \in Transfers |-> pending[t]]
    /\ \A t \in Transfers : "status" \in DOMAIN pending[t]
    /\ carried \in [Transfers -> Nat]

IInv == Rows /\ VerdictTold

(* A change of one transfer's status and of nothing else in its row.       *)
LEMMA Marking ==
    ASSUME IInv, NEW t \in Transfers, NEW word,
           pending' = [pending EXCEPT ![t].status = word]
    PROVE  /\ pending' = [u \in Transfers |-> pending'[u]]
           /\ \A u \in Transfers : "status" \in DOMAIN pending'[u]
           /\ pending'[t].status = word
           /\ \A u \in Transfers \ {t} : pending'[u] = pending[u]
  <1>1. pending' = [u \in Transfers |->
                       IF u = t THEN [pending[u] EXCEPT !.status = word] ELSE pending[u]]
    BY DEF IInv, Rows
  <1>2. "status" \in DOMAIN pending[t]
    BY DEF IInv, Rows
  <1>3. /\ pending'[t] = [pending[t] EXCEPT !.status = word]
        /\ \A u \in Transfers \ {t} : pending'[u] = pending[u]
    BY <1>1
  <1>4. "status" \in DOMAIN pending'[t] /\ pending'[t].status = word
    BY <1>2, <1>3
  <1> QED BY <1>1, <1>3, <1>4 DEF IInv, Rows

LEMMA SubmitKeeps ==
    ASSUME IInv, NEW t \in Transfers, NEW req, NEW dest, Submit(t, req, dest)
    PROVE  IInv'
  <1> DEFINE new == [status |-> "Pending", req |-> req, dest |-> dest, reviews |-> Reviews(t) + 1]
  <1>1. /\ pending' = [pending EXCEPT ![t] = new] /\ carried' = [carried EXCEPT ![t] = 0]
        /\ overtaken' = overtaken \ {t}
    BY DEF Submit
  <1>2. new.status = "Pending" /\ "status" \in DOMAIN new
    OBVIOUS
  <1> HIDE DEF new
  <1>3. pending' = [u \in Transfers |-> IF u = t THEN new ELSE pending[u]]
    BY <1>1 DEF IInv, Rows
  <1>4. Rows'
    BY <1>1, <1>2, <1>3 DEF IInv, Rows
  <1>5. VerdictTold'
    BY <1>1, <1>2, <1>3 DEF IInv, Rows, VerdictTold
  <1> QED BY <1>4, <1>5 DEF IInv

(* An approval finds the transfer pending, so not yet carried out.         *)
LEMMA ApproveKeeps ==
    ASSUME IInv, NEW t \in Transfers, Approve(t)
    PROVE  IInv'
  <1>1. /\ pending[t].status = "Pending" /\ pending' = [pending EXCEPT ![t].status = "Approved"]
        /\ carried' = [carried EXCEPT ![t] = @ + 1] /\ overtaken' = overtaken
    BY DEF Approve, Approvable, IsPending
  <1>2. Rows' /\ pending'[t].status = "Approved"
        /\ \A u \in Transfers \ {t} : pending'[u] = pending[u]
    BY <1>1, Marking DEF IInv, Rows
  <1>3. carried'[t] = 1 /\ \A u \in Transfers \ {t} : carried'[u] = carried[u]
    BY <1>1 DEF IInv, Rows, VerdictTold
  <1>4. VerdictTold'
    BY <1>1, <1>2, <1>3 DEF IInv, VerdictTold
  <1> QED BY <1>2, <1>4 DEF IInv

(* A rejection that no longer finds the transfer pending overwrites it and *)
(* is remembered.                                                          *)
LEMMA FinishRejectKeeps ==
    ASSUME IInv, NEW t \in Transfers, FinishReject(t)
    PROVE  IInv'
  <1>1. /\ pending' = [pending EXCEPT ![t].status = "Rejected"] /\ carried' = carried
        /\ pending[t].status = "Pending" \/ t \in overtaken'
        /\ overtaken \subseteq overtaken' /\ overtaken' \subseteq overtaken \cup {t}
    BY DEF FinishReject, IsPending
  <1>2. Rows' /\ pending'[t].status = "Rejected"
        /\ \A u \in Transfers \ {t} : pending'[u] = pending[u]
    BY <1>1, Marking DEF IInv, Rows
  <1>3. VerdictTold'
    BY <1>1, <1>2 DEF IInv, VerdictTold
  <1> QED BY <1>2, <1>3 DEF IInv

LEMMA WithdrawKeeps ==
    ASSUME IInv, NEW t \in Transfers, Withdraw(t)
    PROVE  IInv'
  <1>1. /\ pending' = [pending EXCEPT ![t] = None] /\ UNCHANGED <<carried, overtaken>>
        /\ None.status = "none" /\ "status" \in DOMAIN None
    BY DEF Withdraw, None
  <1>2. pending' = [u \in Transfers |-> IF u = t THEN None ELSE pending[u]]
    BY <1>1 DEF IInv, Rows
  <1>3. Rows'
    BY <1>1, <1>2 DEF IInv, Rows
  <1>4. VerdictTold'
    BY <1>1, <1>2 DEF IInv, VerdictTold
  <1> QED BY <1>3, <1>4 DEF IInv

LEMMA InitIInv ==
    ASSUME Init
    PROVE  IInv
  <1>1. /\ pending = [t \in Transfers |-> None] /\ carried = [t \in Transfers |-> 0]
        /\ None.status = "none" /\ "status" \in DOMAIN None
    BY DEF Init, None
  <1> QED BY <1>1 DEF IInv, Rows, VerdictTold

LEMMA StepIInv ==
    ASSUME IInv, [Next]_vars
    PROVE  IInv'
  <1>1. ASSUME NEW t \in Transfers, NEW req \in Requests, NEW dest \in Places,
               Submit(t, req, dest)
        PROVE  IInv'
    BY <1>1, SubmitKeeps
  <1>2. ASSUME NEW t \in Transfers, Approve(t) \/ FinishReject(t) \/ Withdraw(t)
        PROVE  IInv'
    BY <1>2, ApproveKeeps, FinishRejectKeeps, WithdrawKeeps
  <1>3. ASSUME UNCHANGED <<pending, carried, overtaken>>
        PROVE  IInv'
    BY <1>3 DEF IInv, Rows, VerdictTold
  <1>4. ASSUME NEW l \in Ids, NEW parts \in Divisions(l), Split(l, parts)
        PROVE  UNCHANGED <<pending, carried, overtaken>>
    BY <1>4 DEF Split
  <1>5. ASSUME NEW parents \in SUBSET Ids, Mix(parents)
        PROVE  UNCHANGED <<pending, carried, overtaken>>
    BY <1>5 DEF Mix
  <1>6. ASSUME NEW l \in Ids, Sell(l)
        PROVE  UNCHANGED <<pending, carried, overtaken>>
    BY <1>6 DEF Sell
  <1>11. ASSUME NEW l \in Ids, NEW qty \in 1..lots[l].qty, IssueLot(l, qty) \/ IssuePart(l, qty)
        PROVE  UNCHANGED <<pending, carried, overtaken>>
    BY <1>11 DEF IssueLot, IssuePart
  <1>7. ASSUME NEW i \in DOMAIN issues, NEW qty \in 1..issues[i].remaining, Return(i, qty)
        PROVE  UNCHANGED <<pending, carried, overtaken>>
    BY <1>7 DEF Return
  <1>8. ASSUME NEW req \in Requests, NEW dest \in Places, TransferNow(req, dest)
        PROVE  UNCHANGED <<pending, carried, overtaken>>
    BY <1>8 DEF TransferNow
  <1>9. ASSUME NEW t \in Transfers, BeginReject(t)
        PROVE  UNCHANGED <<pending, carried, overtaken>>
    BY <1>9 DEF BeginReject
  <1>10. ASSUME UNCHANGED vars
         PROVE  UNCHANGED <<pending, carried, overtaken>>
    BY <1>10 DEF vars
  <1> QED BY <1>1, <1>2, <1>3, <1>4, <1>5, <1>6, <1>7, <1>8, <1>9, <1>10, <1>11 DEF Next

(* However submissions, approvals, rejections and withdrawals of the same  *)
(* transfers interleave, its status tells whether its lots were moved      *)
(* since it was last submitted, unless a rejection that had read Pending   *)
(* overwrote an approval (POST /stock-transfer/pending/:id/reject).        *)
THEOREM VerdictsTold == Spec => []VerdictTold
  <1>1. IInv => VerdictTold
    BY DEF IInv
  <1> QED BY <1>1, InitIInv, StepIInv, PTL DEF Spec

-----------------------------------------------------------------------------
(* The tables.                                                             *)

(* A transfer names lots that are there, and asks something of each.       *)
Named(req) == DOMAIN req \subseteq Ids /\ \A l \in DOMAIN req : req[l] \in Nat \ {0}

Asked ==
    \A t \in Transfers :
        pending[t].status = "Pending" => Named(pending[t].req) /\ pending[t].dest \in Places

Tables ==
    /\ lots \in Seq(Lot) /\ net \in Seq(Int) /\ Len(net) = Len(lots)
    /\ issues \in Seq(Issue) /\ surplus \in Int

(* A lot is in a process exactly while it has an open issue, and it has at *)
(* most one.                                                               *)
Issued ==
    /\ \A i \in DOMAIN issues : issues[i].lot \in Ids /\ issues[i].source \in Ids
    /\ \A l \in Ids : lots[l].status = "IN PROCESS" <=> OpenIssues(l) # {}
    /\ \A l \in Ids : \A i, j \in OpenIssues(l) : i = j

LEMMA LotFields ==
    ASSUME NEW r \in Lot
    PROVE  /\ r.kind \in {"seed", "rough", "growth_run"} /\ r.qty \in Nat
           /\ r.status \in {"IN STOCK", "IN PROCESS", "CONSUMED", "SOLD"}
           /\ r.place \in Places /\ r.parent \in Nat /\ r.root \in Nat /\ r.level \in Nat
           /\ r.sibling \in Nat /\ r.entry \in Nat
  BY DEF Lot, Dead

LEMMA IssueFields ==
    ASSUME NEW r \in Issue
    PROVE  r.source \in Nat /\ r.lot \in Nat /\ r.issued \in Nat /\ r.remaining \in Nat
  BY DEF Issue

LEMMA TableRows ==
    ASSUME Tables
    PROVE  /\ Len(lots) \in Nat /\ Ids = 1..Len(lots) /\ DOMAIN net = Ids
           /\ IsFiniteSet(Ids) /\ IsFiniteSet(DOMAIN issues)
           /\ \A l \in Ids : lots[l] \in Lot /\ net[l] \in Int
           /\ \A i \in DOMAIN issues : issues[i] \in Issue
  <1>1. /\ Len(lots) \in Nat /\ Ids = 1..Len(lots) /\ DOMAIN net = Ids
        /\ \A l \in Ids : lots[l] \in Lot /\ net[l] \in Int
    BY DEF Tables, Ids
  <1>2. Len(issues) \in Nat /\ DOMAIN issues = 1..Len(issues)
        /\ \A i \in DOMAIN issues : issues[i] \in Issue
    BY DEF Tables
  <1> QED BY <1>1, <1>2, FS_Interval

(* The rows that handlers write.                                           *)
LEMMA UnrelatedOf ==
    ASSUME NEW r \in Lot, NEW p, p = [r EXCEPT !.parent = 0, !.root = 0, !.level = 0]
    PROVE  /\ p \in Lot /\ p.kind = r.kind /\ p.qty = r.qty /\ p.status = r.status
           /\ p.place = r.place /\ p.parent = 0 /\ p.root = 0 /\ p.level = 0
           /\ p.sibling = r.sibling /\ p.entry = r.entry
  BY DEF Lot

LEMMA RowFields ==
    ASSUME Tables, NEW l \in Ids
    PROVE  /\ l \in Nat /\ l > 0 /\ lots[l] \in Lot /\ lots[l].qty \in Nat /\ lots[l].entry \in Nat
           /\ lots[l].sibling \in Nat /\ lots[l].level \in Nat /\ lots[l].parent \in Nat
           /\ lots[l].root \in Nat /\ lots[l].place \in Places
           /\ lots[l].kind \in {"seed", "rough", "growth_run"}
           /\ lots[l].status \in {"IN STOCK", "IN PROCESS", "CONSUMED", "SOLD"}
  <1>1. l \in Nat /\ l > 0 /\ lots[l] \in Lot
    BY TableRows
  <1> QED BY <1>1, LotFields

LEMMA PieceFields ==
    ASSUME NEW l \in Ids, l \in Nat, lots[l] \in Lot, NEW q \in Nat
    PROVE  /\ Piece(l, q) \in Lot /\ Unrelated(l, q) \in Lot
           /\ Piece(l, q).kind = lots[l].kind /\ Piece(l, q).qty = q
           /\ Piece(l, q).status = "IN STOCK"
           /\ Piece(l, q).parent = l /\ Piece(l, q).root = RootOf(l)
           /\ Piece(l, q).level = lots[l].level + 1
           /\ Piece(l, q).sibling = 0 /\ Piece(l, q).entry = 0
           /\ Unrelated(l, q).kind = lots[l].kind /\ Unrelated(l, q).qty = q
           /\ Unrelated(l, q).status = "IN STOCK"
           /\ Unrelated(l, q).parent = 0 /\ Unrelated(l, q).root = 0
           /\ Unrelated(l, q).level = 0
           /\ Unrelated(l, q).sibling = 0 /\ Unrelated(l, q).entry = 0
  <1> DEFINE r == lots[l]
             b == RootOf(l)
             c == r.level + 1
             p == Piece(l, q)
             u == Unrelated(l, q)
  <1>1. r \in Lot /\ l \in Nat /\ q \in Nat
    OBVIOUS
  <1>2. b \in Nat
    <2>1. r.root \in Nat
      BY <1>1, LotFields
    <2> QED BY <1>1, <2>1 DEF RootOf
  <1>3. c \in Nat
    <2>1. r.level \in Nat
      BY <1>1, LotFields
    <2> QED BY <2>1
  <1>4. p = [r EXCEPT !.qty = q, !.status = "IN STOCK", !.parent = l, !.root = b,
                      !.level = c, !.sibling = 0, !.entry = 0]
    BY DEF Piece
  <1>5. u = [p EXCEPT !.parent = 0, !.root = 0, !.level = 0]
    BY DEF Unrelated
  <1> HIDE DEF r, b, c, p, u
  <1>6. /\ p \in Lot /\ p.kind = r.kind /\ p.qty = q /\ p.status = "IN STOCK"
        /\ p.parent = l /\ p.root = b /\ p.level = c /\ p.sibling = 0 /\ p.entry = 0
    BY <1>1, <1>2, <1>3, <1>4 DEF Lot
  <1>7. /\ u \in Lot /\ u.kind = p.kind /\ u.qty = p.qty /\ u.status = p.status
        /\ u.parent = 0 /\ u.root = 0 /\ u.level = 0
        /\ u.sibling = p.sibling /\ u.entry = p.entry
    BY <1>5, <1>6, UnrelatedOf
  <1> QED BY <1>6, <1>7 DEF r, b, c, p, u

(* What is kept of a row whatever is done to its lot.                      *)
SameOrigin(r, s) ==
    /\ r.kind = s.kind /\ r.parent = s.parent /\ r.root = s.root /\ r.level = s.level
    /\ r.sibling = s.sibling /\ r.entry = s.entry

LEMMA ConsumeFields ==
    ASSUME NEW r \in Lot
    PROVE  /\ Consume(r) \in Lot /\ Consume(r).qty = 0 /\ Consume(r).status = "CONSUMED"
           /\ SameOrigin(Consume(r), r)
  BY DEF Consume, Lot, Dead, SameOrigin

LEMMA QtyFields ==
    ASSUME NEW r \in Lot, NEW q \in Nat
    PROVE  /\ [r EXCEPT !.qty = q] \in Lot /\ [r EXCEPT !.qty = q].qty = q
           /\ [r EXCEPT !.qty = q].status = r.status
           /\ SameOrigin([r EXCEPT !.qty = q], r)
  BY DEF Lot, SameOrigin

LEMMA StatusFields ==
    ASSUME NEW r \in Lot, NEW w \in {"IN STOCK", "IN PROCESS", "CONSUMED", "SOLD"}
    PROVE  /\ [r EXCEPT !.status = w] \in Lot /\ [r EXCEPT !.status = w].qty = r.qty
           /\ [r EXCEPT !.status = w].status = w
           /\ SameOrigin([r EXCEPT !.status = w], r)
  BY DEF Lot, Dead, SameOrigin

LEMMA PlaceFields ==
    ASSUME NEW r \in Lot, NEW d \in Places
    PROVE  /\ [r EXCEPT !.place = d] \in Lot /\ [r EXCEPT !.place = d].qty = r.qty
           /\ [r EXCEPT !.place = d].status = r.status
           /\ SameOrigin([r EXCEPT !.place = d], r)
  BY DEF Lot, SameOrigin

-----------------------------------------------------------------------------
(* The genealogy, told of each lot and its parent.                         *)

Origin(l) == lots[l].parent = 0 /\ lots[l].level = 0 /\ lots[l].root \in {0, l}
Child(l) ==
    LET p == lots[l].parent
    IN  p \in Seeds /\ p < l /\ lots[l].root = RootOf(p) /\ lots[l].level = lots[p].level + 1
Lineage == \A l \in Seeds : Origin(l) \/ Child(l)

(* The codes of the lots split from one parent are different.              *)
Codes ==
    \A a, b \in Ids :
        Siblings(a, b) /\ lots[a].sibling = lots[b].sibling /\ lots[a].sibling # 0 => a = b

(* What a request does to the tables: it keeps the origin of every lot,    *)
(* and each of the m lots it adds holds what its movement rows brought it  *)
(* or it was issued or returned with, and is new or was taken out of a lot *)
(* that was there.  It is in stock unless it is issued.                    *)
Fresh(id) ==
    /\ lots'[id].parent = 0 /\ lots'[id].level = 0 /\ lots'[id].root \in {0, id}
    /\ lots'[id].entry = 0
Below(id, p) ==
    /\ lots'[id].parent = p /\ lots'[id].kind = lots[p].kind
    /\ lots[p].kind = "seed" => /\ lots'[id].root = RootOf(p)
                                /\ lots'[id].level = lots[p].level + 1
Added(id) ==
    /\ lots'[id].status = "IN STOCK" \/ \E i \in DOMAIN issues' : issues'[i].lot = id
    /\ lots'[id].qty = lots'[id].entry + net'[id]
    /\ Fresh(id) \/ \E p \in Ids : Below(id, p)

Grows(m) ==
    /\ lots' \in Seq(Lot) /\ Len(lots') = Len(lots) + m
    /\ net' \in Seq(Int) /\ Len(net') = Len(lots) + m
    /\ \A l \in Ids : SameOrigin(lots'[l], lots[l])
    /\ \A k \in 1..m : Added(Len(lots) + k)

(* The codes given to the new lots are new, and different.                 *)
NewCodes(m) ==
    \A k \in 1..m :
        LET id == Len(lots) + k
        IN  \/ lots'[id].sibling = 0
            \/ /\ \A a \in Ids : lots[a].parent = lots'[id].parent => lots[a].sibling < lots'[id].sibling
               /\ \A j \in 1..m : lots'[Len(lots) + j].sibling = lots'[id].sibling => j = k

LEMMA GrownIds ==
    ASSUME Tables, NEW m \in Nat, Grows(m)
    PROVE  /\ Ids = 1..Len(lots) /\ Ids' = 1..Len(lots) + m /\ Len(lots) \in Nat
           /\ Ids \subseteq Ids' /\ DOMAIN net' = Ids' /\ IsFiniteSet(Ids')
           /\ \A l \in Ids' : lots'[l] \in Lot /\ net'[l] \in Int
           /\ \A l \in Ids' \ Ids : \E k \in 1..m : l = Len(lots) + k
           /\ \A k \in 1..m : Len(lots) + k \in Ids' /\ Len(lots) + k \notin Ids
  <1>1. Len(lots) \in Nat /\ Ids = 1..Len(lots)
    BY TableRows
  <1>2. /\ Ids' = 1..Len(lots) + m /\ DOMAIN net' = Ids'
        /\ \A l \in Ids' : lots'[l] \in Lot /\ net'[l] \in Int
    BY <1>1 DEF Grows, Ids
  <1>3. IsFiniteSet(Ids')
    BY <1>1, <1>2, FS_Interval
  <1>4. ASSUME NEW l \in Ids' \ Ids
        PROVE  \E k \in 1..m : l = Len(lots) + k
    <2>1. l - Len(lots) \in 1..m /\ l = Len(lots) + (l - Len(lots))
      BY <1>1, <1>2
    <2> QED BY <2>1
  <1> QED BY <1>1, <1>2, <1>3, <1>4

LEMMA GrownLineage ==
    ASSUME Tables, Lineage, NEW m \in Nat, Grows(m)
    PROVE  Lineage'
  <1>1. \A p \in Ids : RootOf(p)' = RootOf(p) /\ lots'[p].level = lots[p].level
    BY DEF Grows, SameOrigin, RootOf
  <1>2. \A p \in Seeds : p \in Seeds'
    BY GrownIds DEF Seeds, Grows, SameOrigin
  <1>3. ASSUME NEW l \in Ids, l \in Seeds'
        PROVE  Origin(l)' \/ Child(l)'
    <2>1. l \in Seeds /\ lots'[l].parent = lots[l].parent /\ lots'[l].root = lots[l].root
          /\ lots'[l].level = lots[l].level
      BY <1>3 DEF Seeds, Grows, SameOrigin
    <2>2. CASE Origin(l)
      BY <2>1, <2>2 DEF Origin
    <2>3. CASE Child(l)
      <3>1. PICK p \in Seeds : /\ p = lots[l].parent /\ p < l /\ lots[l].root = RootOf(p)
                                /\ lots[l].level = lots[p].level + 1
        BY <2>3 DEF Child
      <3>2. p \in Ids
        BY <3>1 DEF Seeds
      <3>3. p \in Seeds' /\ RootOf(p)' = RootOf(p) /\ lots'[p].level = lots[p].level
        BY <1>1, <1>2, <3>1, <3>2
      <3> QED BY <2>1, <3>1, <3>3 DEF Child
    <2> QED BY <2>1, <2>2, <2>3 DEF Lineage
  <1>4. ASSUME NEW l \in Ids' \ Ids, l \in Seeds'
        PROVE  Origin(l)' \/ Child(l)'
    <2>1. PICK k \in 1..m : l = Len(lots) + k
      BY GrownIds
    <2>2. Fresh(l) \/ \E p \in Ids : Below(l, p)
      BY <2>1 DEF Grows, Added
    <2>3. CASE Fresh(l)
      BY <2>3 DEF Fresh, Origin
    <2>4. ASSUME NEW p \in Ids, Below(l, p)
          PROVE  Child(l)'
      <3>1. lots'[l].kind = "seed"
        BY <1>4 DEF Seeds
      <3>2. /\ lots'[l].parent = p /\ lots[p].kind = "seed"
            /\ lots'[l].root = RootOf(p) /\ lots'[l].level = lots[p].level + 1
        BY <2>4, <3>1 DEF Below
      <3>3. p \in Seeds'
        BY <1>2, <3>2 DEF Seeds
      <3>4. p < l
        BY <2>1, GrownIds
      <3>5. RootOf(p)' = RootOf(p) /\ lots'[p].level = lots[p].level
        BY <1>1
      <3> QED BY <3>2, <3>3, <3>4, <3>5 DEF Child
    <2> QED BY <2>2, <2>3, <2>4
  <1>5. \A l \in Seeds' : l \in Ids'
    BY DEF Seeds
  <1> QED BY <1>3, <1>4, <1>5 DEF Lineage

LEMMA GrownCodes ==
    ASSUME Tables, Codes, NEW m \in Nat, Grows(m), NewCodes(m)
    PROVE  Codes'
  <1>1. \A l \in Ids : lots'[l].parent = lots[l].parent /\ lots'[l].sibling = lots[l].sibling
    BY DEF Grows, SameOrigin
  <1>2. \A l \in Ids : lots[l].sibling \in Nat
    BY TableRows, LotFields
  <1>3. ASSUME NEW a \in Ids, NEW b \in Ids' \ Ids, lots'[a].parent = lots'[b].parent,
               lots'[b].sibling # 0
        PROVE  lots'[a].sibling # lots'[b].sibling
    <2>1. PICK k \in 1..m : b = Len(lots) + k
      BY GrownIds
    <2>2. lots[a].sibling < lots'[b].sibling
      BY <1>1, <1>3, <2>1 DEF NewCodes
    <2>3. lots[a].sibling \in Nat /\ lots'[b].sibling \in Nat
      BY <1>2, GrownIds, LotFields
    <2> QED BY <1>1, <2>2, <2>3
  <1>4. ASSUME NEW a \in Ids' \ Ids, NEW b \in Ids' \ Ids,
               lots'[a].sibling = lots'[b].sibling, lots'[a].sibling # 0
        PROVE  a = b
    <2>1. PICK k \in 1..m : b = Len(lots) + k
      BY GrownIds
    <2>2. PICK j \in 1..m : a = Len(lots) + j
      BY GrownIds
    <2>3. j = k
      BY <1>4, <2>1, <2>2 DEF NewCodes
    <2> QED BY <2>1, <2>2, <2>3
  <1>5. \A a, b \in Ids : Siblings(a, b)' => Siblings(a, b)
    BY <1>1 DEF Siblings
  <1>6. ASSUME NEW a \in Ids', NEW b \in Ids', Siblings(a, b)',
               lots'[a].sibling = lots'[b].sibling, lots'[a].sibling # 0
        PROVE  a = b
    <2>1. lots'[a].parent = lots'[b].parent
      BY <1>6 DEF Siblings
    <2>2. CASE a \in Ids /\ b \in Ids
      BY <1>1, <1>5, <1>6, <2>2 DEF Codes
    <2>3. CASE a \in Ids /\ b \notin Ids
      BY <1>3, <1>6, <2>1, <2>3
    <2>4. CASE a \notin Ids /\ b \in Ids
      BY <1>3, <1>6, <2>1, <2>4
    <2>5. CASE a \notin Ids /\ b \notin Ids
      BY <1>4, <1>6, <2>5
    <2> QED BY <2>2, <2>3, <2>4, <2>5
  <1> QED BY <1>6 DEF Codes

(* What was bought stays as it is: a lot that a request adds and that has  *)
(* no parent has no quantity of its own at the start.                      *)
BoughtFor(l) == IF lots[l].parent = 0 THEN lots[l].entry ELSE 0

LEMMA BoughtForInt ==
    ASSUME Tables
    PROVE  \A l \in Ids : BoughtFor(l) \in Int
  <1>1. ASSUME NEW l \in Ids
        PROVE  lots[l].entry \in Nat
    BY RowFields
  <1> QED BY <1>1 DEF BoughtFor

LEMMA BoughtIs ==
    Tables => Bought = SumFunctionOnSet([l \in Ids |-> BoughtFor(l)], Ids)
  <1> SUFFICES ASSUME Tables
               PROVE  Bought = SumFunctionOnSet([l \in Ids |-> BoughtFor(l)], Ids)
    OBVIOUS
  <1> DEFINE D == {x \in Ids : lots[x].parent = 0}
             f == [l \in D |-> lots[l].entry]
             g == [l \in Ids |-> BoughtFor(l)]
  <1>1. Bought = SumFunctionOnSet(f, D)
    <2>1. Bought = SumFunctionOnSet(f, DOMAIN f)
      BY DEF Bought, SumFunction
    <2>2. DOMAIN f = D
      OBVIOUS
    <2> QED BY <2>1, <2>2, Zenon
  <1>2. /\ \A x \in Ids : g[x] \in Int
        /\ \A x \in D : f[x] = g[x]
        /\ \A x \in Ids \ D : g[x] = 0
    <2>1. \A x \in Ids : g[x] \in Int
      BY BoughtForInt
    <2> QED BY <2>1 DEF BoughtFor
  <1>3. IsFiniteSet(Ids) /\ D \in SUBSET Ids
    BY TableRows
  <1> HIDE DEF D, f, g
  <1>4. SumFunctionOnSet(f, D) = SumFunctionOnSet(g, Ids)
    BY <1>2, <1>3, SumSome
  <1> QED BY <1>1, <1>4 DEF g

LEMMA GrownBought ==
    ASSUME Tables, Tables', NEW m \in Nat, Grows(m)
    PROVE  Bought' = Bought /\ Bought \in Int
  <1>0. PICK n \in Nat : n = Len(lots)
    BY GrownIds
  <1> DEFINE f == [l \in Ids |-> BoughtFor(l)]
             b == [k \in 1..m |-> 0]
             g == [l \in Ids' |-> BoughtFor(l)']
  <1>1. Ids = 1..n /\ Ids' = 1..n+m /\ n \in Nat
    BY <1>0, GrownIds
  <1>2. ASSUME NEW l \in 1..n
        PROVE  f[l] \in Int /\ g[l] = f[l]
    <2>1. l \in Ids /\ l \in Ids' /\ f[l] = BoughtFor(l) /\ g[l] = BoughtFor(l)'
      BY <1>1
    <2>2. BoughtFor(l)' = BoughtFor(l)
      BY <2>1 DEF Grows, SameOrigin, BoughtFor
    <2>3. BoughtFor(l) \in Int
      BY <2>1, BoughtForInt
    <2> QED BY <2>1, <2>2, <2>3
  <1>3. ASSUME NEW k \in 1..m
        PROVE  b[k] \in Int /\ g[n+k] = b[k]
    <2>1. PICK id \in Ids' : id = n + k /\ Added(id)
      BY <1>0, GrownIds DEF Grows
    <2>2. BoughtFor(id)' = 0
      <3>1. CASE Fresh(id)
        BY <3>1 DEF BoughtFor, Fresh
      <3>2. ASSUME NEW p \in Ids, Below(id, p)
            PROVE  BoughtFor(id)' = 0
        BY <1>1, <3>2 DEF Below, BoughtFor
      <3> QED BY <2>1, <3>1, <3>2 DEF Added
    <2> QED BY <2>1, <2>2
  <1>4. Bought = SumFunctionOnSet(f, Ids)
    BY BoughtIs
  <1>5. Bought' = SumFunctionOnSet(g, Ids')
    <2>1. (Bought = SumFunctionOnSet([l \in Ids |-> BoughtFor(l)], Ids))'
      BY BoughtIs, PTL
    <2> QED BY <2>1
  <1>6. SumFunctionOnSet(b, 1..m) = 0
    <2>1. IsFiniteSet(1..m) /\ \A x \in 1..m : b[x] = 0
      BY FS_Interval
    <2> HIDE DEF b
    <2> QED BY <2>1, SumZero
  <1> HIDE DEF f, b, g
  <1>7. SumFunctionOnSet(g, 1..n+m) = SumFunctionOnSet(f, 1..n) + SumFunctionOnSet(b, 1..m)
    BY ONLY n \in Nat, m \in Nat, <1>2, <1>3, SumGrow
  <1>8. SumFunctionOnSet(f, 1..n) \in Int
    <2>1. IsFiniteSet(1..n) /\ \A x \in 1..n : f[x] \in Int
      BY <1>2, FS_Interval
    <2> QED BY <2>1, SumInt
  <1> QED BY <1>1, <1>4, <1>5, <1>6, <1>7, <1>8

-----------------------------------------------------------------------------
(* What a lot accounts for.                                                *)

Remaining == [i \in DOMAIN issues |-> issues[i].remaining]

HeldRight(l) ==
    /\ Held(l) \in Int
    /\ OpenIssues(l) = {} \/ lots[l].kind = "growth_run" => Held(l) = lots[l].qty
    /\ lots[l].kind # "growth_run" => \A i \in OpenIssues(l) : Held(l) = issues[i].remaining

LEMMA HeldIs ==
    Tables /\ Issued => \A x \in Ids : HeldRight(x)
  <1> SUFFICES ASSUME Tables, Issued, NEW l \in Ids
               PROVE  HeldRight(l)
    OBVIOUS
  <1> USE DEF HeldRight
  <1>1. CASE OpenIssues(l) = {} \/ lots[l].kind = "growth_run"
    <2>1. Held(l) = lots[l].qty
      BY <1>1 DEF Held
    <2>2. lots[l].qty \in Nat
      BY RowFields
    <2> QED BY <1>1, <2>1, <2>2
  <1>2. CASE ~(OpenIssues(l) = {} \/ lots[l].kind = "growth_run")
    <2>1. Held(l) = SumFunctionOnSet(Remaining, OpenIssues(l))
      BY <1>2 DEF Held, Remaining
    <2>2. PICK i \in OpenIssues(l) : TRUE
      BY <1>2
    <2>3. \A j \in OpenIssues(l) : j = i
      BY <2>2 DEF Issued
    <2>6. OpenIssues(l) = {i}
      BY <2>2, <2>3, Zenon
    <2>4. Remaining[i] = issues[i].remaining /\ Remaining[i] \in Int
      <3>1. i \in DOMAIN issues
        BY DEF OpenIssues
      <3>2. issues[i] \in Issue
        BY <3>1, TableRows
      <3> QED BY <3>1, <3>2, IssueFields DEF Remaining
    <2>5. SumFunctionOnSet(Remaining, {i}) = Remaining[i]
      BY <2>4, SumOne
    <2> QED BY <1>2, <2>1, <2>3, <2>4, <2>5, <2>6
  <1> QED BY <1>1, <1>2

(* What the m lots after the first n account for, and what the others      *)
(* gain, is what transfers took from lots in a process.                    *)
Accounted(n, m, d, q) ==
    /\ n = Len(lots)
    /\ \A l \in Ids : d[l] \in Int /\ Held(l)' = Held(l) + d[l]
    /\ \A k \in 1..m : q[k] \in Int /\ Held(n + k)' = q[k]
    /\ surplus' = surplus + SumFunctionOnSet(d, Ids) + SumFunctionOnSet(q, 1..m)

(* Stock is then conserved.                                                *)
LEMMA GrownAccount ==
    ASSUME Tables, Issued, StockConserved, Tables', NEW m \in Nat, Grows(m),
           NEW n \in Nat, NEW d, NEW q, Accounted(n, m, d, q)
    PROVE  StockConserved'
  <1>0. /\ n = Len(lots)
        /\ \A l \in Ids : d[l] \in Int /\ Held(l)' = Held(l) + d[l]
        /\ \A k \in 1..m : q[k] \in Int /\ Held(n + k)' = q[k]
        /\ surplus' = surplus + SumFunctionOnSet(d, Ids) + SumFunctionOnSet(q, 1..m)
    BY DEF Accounted
  <1> DEFINE f == [l \in Ids |-> Held(l)]
             g == [l \in Ids' |-> Held(l)']
  <1>1. Ids = 1..n /\ Ids' = 1..n+m /\ n \in Nat /\ IsFiniteSet(Ids) /\ IsFiniteSet(1..m)
    BY <1>0, GrownIds, TableRows, FS_Interval
  <1>2. ASSUME NEW l \in Ids
        PROVE  f[l] \in Int /\ d[l] \in Int /\ g[l] = f[l] + d[l]
    <2>1. Held(l) \in Int /\ l \in Ids' /\ Held(l)' = Held(l) + d[l] /\ d[l] \in Int
      BY <1>0, HeldIs, GrownIds DEF HeldRight
    <2> QED BY <2>1
  <1>3. ASSUME NEW k \in 1..m
        PROVE  q[k] \in Int /\ g[n+k] = q[k]
    <2>1. n + k \in Ids' /\ q[k] \in Int /\ Held(n + k)' = q[k]
      BY <1>0, <1>1
    <2> QED BY <2>1
  <1>4. SumFunctionOnSet(f, Ids) = Bought + surplus
    <2>1. SumFunctionOnSet(f, DOMAIN f) = Bought + surplus
      BY DEF StockConserved, SumFunction
    <2>2. DOMAIN f = Ids
      OBVIOUS
    <2> QED BY <2>1, <2>2, Zenon
  <1>5. Bought' = Bought /\ Bought \in Int
    BY GrownBought
  <1> HIDE DEF f, g
  <1>6. SumFunctionOnSet(g, 1..n+m) = SumFunctionOnSet(f, 1..n) + SumFunctionOnSet(d, 1..n)
                                      + SumFunctionOnSet(q, 1..m)
    <2>1. /\ \A l \in 1..n : f[l] \in Int /\ d[l] \in Int /\ g[l] = f[l] + d[l]
          /\ \A k \in 1..m : q[k] \in Int /\ g[n+k] = q[k]
      BY <1>1, <1>2, <1>3
    <2> QED BY ONLY <2>1, n \in Nat, m \in Nat, SumGrowBy
  <1>7. SumFunctionOnSet(d, Ids) \in Int /\ SumFunctionOnSet(q, 1..m) \in Int
    <2>1. /\ \A l \in Ids : d[l] \in Int
          /\ \A k \in 1..m : q[k] \in Int
      BY <1>2, <1>3
    <2> QED BY <1>1, <2>1, SumInt
  <1>9. SumFunctionOnSet(g, Ids') = Bought' + surplus'
    <2>1. surplus \in Int
      BY DEF Tables
    <2> QED BY <1>0, <1>1, <1>4, <1>5, <1>6, <1>7, <2>1
  <1>10. SumFunction(g) = SumFunctionOnSet(g, Ids')
    <2>1. DOMAIN g = Ids'
      BY DEF g
    <2> QED BY <2>1 DEF SumFunction
  <1> QED BY <1>9, <1>10 DEF g, StockConserved

(* A new lot that no issue is about accounts for what it holds.            *)
LEMMA GrownHeld ==
    ASSUME Tables, Issued, StockConserved, Tables', NEW m \in Nat, Grows(m),
           \A i \in DOMAIN issues' : issues'[i].lot \in Ids,
           NEW d, \A l \in Ids : d[l] \in Int /\ Held(l)' = Held(l) + d[l],
           NEW q, \A k \in 1..m : q[k] = lots'[Len(lots) + k].qty,
           surplus' = surplus + SumFunctionOnSet(d, Ids) + SumFunctionOnSet(q, 1..m)
    PROVE  StockConserved'
  <1>0. PICK n \in Nat : n = Len(lots)
    BY GrownIds
  <1>1. ASSUME NEW k \in 1..m
        PROVE  q[k] \in Int /\ Held(n + k)' = q[k]
    <2>1. PICK id \in Ids' : id = n + k /\ id \notin Ids /\ q[k] = lots'[id].qty
      BY <1>0, GrownIds
    <2>2. OpenIssues(id)' = {}
      BY <2>1 DEF OpenIssues
    <2>3. Held(id)' = lots'[id].qty
      BY <2>2 DEF Held
    <2>4. lots'[id].qty \in Nat
      <3>1. lots'[id] \in Lot
        BY GrownIds
      <3> QED BY <3>1, LotFields
    <2> QED BY <2>1, <2>3, <2>4
  <1>2. Accounted(n, m, d, q)
    BY <1>0, <1>1 DEF Accounted
  <1> QED BY <1>2, GrownAccount

-----------------------------------------------------------------------------
(* What was issued out of a lot.                                           *)

PartIssues(l) == {i \in DOMAIN issues : issues[i].source = l /\ issues[i].lot # l}
IssuedOf(l) == [i \in PartIssues(l) |-> issues[i].issued]

AwayRight(l) ==
    /\ Away(l) = SumFunctionOnSet(IssuedOf(l), PartIssues(l)) /\ Away(l) \in Int
    /\ IsFiniteSet(PartIssues(l))
    /\ \A i \in PartIssues(l) : IssuedOf(l)[i] \in Int /\ i \in DOMAIN issues

AwayTold == \A x : AwayRight(x)

LEMMA AwayIs == Tables => AwayTold
  <1> SUFFICES ASSUME Tables, NEW l
               PROVE  AwayRight(l)
    BY DEF AwayTold
  <1>1. Away(l) = SumFunction(IssuedOf(l)) /\ DOMAIN IssuedOf(l) = PartIssues(l)
    BY DEF Away, IssuedOf, PartIssues
  <1>2. Away(l) = SumFunctionOnSet(IssuedOf(l), PartIssues(l))
    BY <1>1, Zenon DEF SumFunction
  <1>3. IsFiniteSet(PartIssues(l))
    <2>1. IsFiniteSet(DOMAIN issues) /\ PartIssues(l) \subseteq DOMAIN issues
      BY TableRows DEF PartIssues
    <2> QED BY <2>1, FS_Subset
  <1>4. \A i \in PartIssues(l) : IssuedOf(l)[i] \in Int /\ i \in DOMAIN issues
    BY TableRows, IssueFields DEF PartIssues, IssuedOf
  <1>5. Away(l) \in Int
    BY <1>2, <1>3, <1>4, SumInt
  <1> QED BY <1>2, <1>3, <1>4, <1>5 DEF AwayRight

(* It stays as it is while the issues keep their sources and quantities.   *)
IssuesKept ==
    /\ DOMAIN issues' = DOMAIN issues
    /\ \A i \in DOMAIN issues : /\ issues'[i].source = issues[i].source
                                /\ issues'[i].lot = issues[i].lot
                                /\ issues'[i].issued = issues[i].issued

LEMMA AwayKept ==
    ASSUME IssuesKept
    PROVE  \A l : Away(l)' = Away(l)
  <1> SUFFICES ASSUME NEW l
               PROVE  Away(l)' = Away(l)
    OBVIOUS
  <1>1. PartIssues(l)' = PartIssues(l)
    BY DEF IssuesKept, PartIssues
  <1>2. \A i \in PartIssues(l) : issues'[i].issued = issues[i].issued
    BY DEF IssuesKept, PartIssues
  <1>3. IssuedOf(l)' = IssuedOf(l)
    BY <1>1, <1>2 DEF IssuedOf
  <1>4. Away(l) = SumFunction(IssuedOf(l)) /\ Away(l)' = SumFunction(IssuedOf(l)')
    BY DEF Away, IssuedOf, PartIssues
  <1> QED BY <1>3, <1>4

(* One more issue adds its quantity to that of its source when it is about *)
(* another lot.                                                            *)
IssueAdded(id, row) ==
    /\ row \in Issue /\ id \notin DOMAIN issues /\ DOMAIN issues' = DOMAIN issues \cup {id}
    /\ issues'[id] = row /\ \A i \in DOMAIN issues : issues'[i] = issues[i]

LEMMA AwayAdded ==
    ASSUME Tables, Tables', NEW id, NEW row, IssueAdded(id, row), NEW l
    PROVE  /\ row.source = l /\ row.lot # l => Away(l)' = Away(l) + row.issued
           /\ row.source # l \/ row.lot = l => Away(l)' = Away(l)
  <1>1. /\ row \in Issue /\ id \notin DOMAIN issues /\ DOMAIN issues' = DOMAIN issues \cup {id}
        /\ issues'[id] = row /\ \A i \in DOMAIN issues : issues'[i] = issues[i]
    BY DEF IssueAdded
  <1>2. PICK P, f, g : P = PartIssues(l) /\ f = IssuedOf(l) /\ g = IssuedOf(l)'
    OBVIOUS
  <1>3. /\ Away(l) = SumFunctionOnSet(f, P) /\ IsFiniteSet(P)
        /\ \A i \in P : f[i] \in Int /\ i \in DOMAIN issues
    BY <1>2, AwayIs DEF AwayTold, AwayRight
  <1>4. (Tables => AwayTold)'
    BY AwayIs, PTL
  <1>5. Away(l)' = SumFunctionOnSet(g, PartIssues(l)')
    BY <1>2, <1>4 DEF AwayTold, AwayRight
  <1>6. P \subseteq PartIssues(l)' /\ \A i \in P : f[i] = g[i]
    BY <1>1, <1>2 DEF PartIssues, IssuedOf
  <1>7. SumFunctionOnSet(f, P) = SumFunctionOnSet(g, P)
    BY ONLY <1>3, <1>6, SumSame
  <1>8. ASSUME row.source = l, row.lot # l
        PROVE  Away(l)' = Away(l) + row.issued
    <2>1. PartIssues(l)' = P \cup {id}
      BY <1>1, <1>2, <1>8 DEF PartIssues
    <2>2. id \notin P /\ g[id] = row.issued /\ row.issued \in Int
      <3>1. id \in PartIssues(l)' /\ id \notin P
        BY <1>1, <1>3, <2>1
      <3>2. g[id] = issues'[id].issued
        BY <1>2, <3>1 DEF IssuedOf
      <3> QED BY <1>1, <3>1, <3>2, IssueFields
    <2>3. \A i \in P : g[i] \in Int
      BY <1>3, <1>6
    <2>4. SumFunctionOnSet(g, P \cup {id}) = SumFunctionOnSet(g, P) + g[id]
      BY ONLY <1>3, <2>2, <2>3, SumAdd
    <2> QED BY ONLY <1>3, <1>5, <1>7, <2>1, <2>2, <2>4
  <1>9. ASSUME row.source # l \/ row.lot = l
        PROVE  Away(l)' = Away(l)
    <2>1. PartIssues(l)' = P
      BY <1>1, <1>2, <1>9 DEF PartIssues
    <2> QED BY ONLY <1>3, <1>5, <1>7, <2>1
  <1> QED BY <1>8, <1>9

-----------------------------------------------------------------------------
(* Requests that move stock between lots and leave the issues alone:       *)
(* splits, mixes, sales and transfers.                                     *)

Books == Tables /\ Issued /\ Lineage /\ Codes /\ MovementsExplainStock /\ StockConserved

OpenOnly(l) == \A i \in DOMAIN issues : issues[i].lot = l => issues[i].remaining > 0

LEMMA ExplainedBy ==
    MovementsExplainStock <=>
        \A l \in Ids : OpenOnly(l) => lots[l].qty + Away(l) = lots[l].entry + net[l]
  BY DEF MovementsExplainStock, OpenOnly

(* The records explain the lots after a request that changes the quantity  *)
(* of each by what it records.                                             *)
LEMMA GrownExplained ==
    ASSUME Tables, Tables', MovementsExplainStock, NEW m \in Nat, Grows(m),
           \A i \in DOMAIN issues' : issues'[i].source \in Ids,
           \A l \in Ids : OpenOnly(l)' =>
              /\ OpenOnly(l)
              /\ (lots'[l].qty + Away(l)') - (lots[l].qty + Away(l)) = net'[l] - net[l]
    PROVE  MovementsExplainStock'
  <1>0. \A l : Away(l) \in Int /\ Away(l)' \in Int
    <2>1. (Tables => AwayTold)'
      BY AwayIs, PTL
    <2> QED BY <2>1, AwayIs DEF AwayTold, AwayRight
  <1>1. ASSUME NEW l \in Ids, OpenOnly(l)'
        PROVE  lots'[l].qty + Away(l)' = lots'[l].entry + net'[l]
    <2>1. /\ OpenOnly(l)
          /\ (lots'[l].qty + Away(l)') - (lots[l].qty + Away(l)) = net'[l] - net[l]
      BY <1>1
    <2>2. lots[l].qty + Away(l) = lots[l].entry + net[l]
      BY <2>1, ExplainedBy
    <2>3. lots'[l].entry = lots[l].entry
      BY DEF Grows, SameOrigin
    <2>4. lots[l].entry \in Nat /\ lots[l].qty \in Nat /\ net[l] \in Int
      BY RowFields, TableRows
    <2>5. lots'[l] \in Lot /\ net'[l] \in Int
      BY GrownIds
    <2>6. lots'[l].qty \in Nat
      BY <2>5, LotFields
    <2>7. Away(l) \in Int /\ Away(l)' \in Int
      BY <1>0
    <2>8. PICK a \in Int, b \in Int : a = Away(l) /\ b = Away(l)'
      BY <2>7
    <2>9. PICK q \in Nat, e \in Nat, n \in Int : q = lots[l].qty /\ e = lots[l].entry /\ n = net[l]
      BY ONLY <2>4
    <2>10. PICK r \in Nat, o \in Int : r = lots'[l].qty /\ o = net'[l]
      BY ONLY <2>5, <2>6
    <2>11. (r + b) - (q + a) = o - n
      BY ONLY <2>1, <2>8, <2>9, <2>10
    <2>12. q + a = e + n
      BY ONLY <2>2, <2>8, <2>9
    <2>13. r + b = e + o
      BY ONLY <2>11, <2>12, a \in Int, b \in Int, q \in Nat, e \in Nat, n \in Int, r \in Nat, o \in Int
    <2> QED BY ONLY <2>3, <2>8, <2>9, <2>10, <2>13
  <1>2. ASSUME NEW l \in Ids' \ Ids
        PROVE  lots'[l].qty + Away(l)' = lots'[l].entry + net'[l]
    <2>1. PICK k \in 1..m : l = Len(lots) + k
      BY GrownIds
    <2>2. lots'[l].qty = lots'[l].entry + net'[l]
      BY <2>1 DEF Grows, Added
    <2>3. Away(l)' = 0
      <3>1. PartIssues(l)' = {}
        BY <1>2 DEF PartIssues
      <3>2. (Tables => AwayTold)'
        BY AwayIs, PTL
      <3>3. PICK f : f = IssuedOf(l)'
        OBVIOUS
      <3>4. Away(l)' = SumFunctionOnSet(f, {})
        BY <3>1, <3>2, <3>3 DEF AwayTold, AwayRight
      <3> QED BY <3>4, SumEmpty
    <2>4. PICK q \in Nat : q = lots'[l].qty
      <3>1. lots'[l] \in Lot
        BY GrownIds
      <3> QED BY <3>1, LotFields
    <2>5. q + 0 = q
      BY ONLY q \in Nat
    <2> QED BY <2>2, <2>3, <2>4, <2>5
  <1>3. \A l \in Ids' : OpenOnly(l)' => lots'[l].qty + Away(l)' = lots'[l].entry + net'[l]
    BY <1>1, <1>2
  <1>4. (MovementsExplainStock <=>
            \A l \in Ids : OpenOnly(l) => lots[l].qty + Away(l) = lots[l].entry + net[l])'
    BY ExplainedBy, PTL
  <1> QED BY <1>3, <1>4

(* The same for a request that issues nothing more.                        *)
LEMMA KeptExplained ==
    ASSUME Tables, Tables', Issued, MovementsExplainStock, NEW m \in Nat, Grows(m), IssuesKept,
           \A l \in Ids : OpenOnly(l)' =>
              OpenOnly(l) /\ lots'[l].qty - lots[l].qty = net'[l] - net[l]
    PROVE  MovementsExplainStock'
  <1>1. \A i \in DOMAIN issues' : issues'[i].source \in Ids
    BY DEF Issued, IssuesKept
  <1>2. \A l : Away(l)' = Away(l)
    BY AwayKept
  <1>3. ASSUME NEW l \in Ids, OpenOnly(l)'
        PROVE  /\ OpenOnly(l)
               /\ (lots'[l].qty + Away(l)') - (lots[l].qty + Away(l)) = net'[l] - net[l]
    <2>1. OpenOnly(l) /\ lots'[l].qty - lots[l].qty = net'[l] - net[l]
      BY <1>3
    <2>2. PICK a \in Int : a = Away(l) /\ a = Away(l)'
      BY <1>2, AwayIs DEF AwayTold, AwayRight
    <2>3. lots'[l] \in Lot
      BY GrownIds
    <2>4. PICK q \in Nat, r \in Nat : q = lots[l].qty /\ r = lots'[l].qty
      BY <2>3, RowFields, LotFields
    <2>5. (r + a) - (q + a) = r - q
      BY ONLY q \in Nat, r \in Nat, a \in Int
    <2> QED BY <2>1, <2>2, <2>4, <2>5
  <1> QED BY <1>1, <1>3, GrownExplained

LEMMA GrownTables ==
    ASSUME Tables, NEW m \in Nat, Grows(m), issues' \in Seq(Issue), surplus' \in Int
    PROVE  Tables'
  BY DEF Tables, Grows

(* The lots in a process stay the ones with an open issue.                 *)
LEMMA GrownIssued ==
    ASSUME Tables, Issued, NEW m \in Nat, Grows(m), issues' = issues,
           \A l \in Ids : lots'[l].status = "IN PROCESS" <=> lots[l].status = "IN PROCESS"
    PROVE  /\ Issued'
           /\ \A l : OpenIssues(l)' = OpenIssues(l)
           /\ \A l : OpenOnly(l)' <=> OpenOnly(l)
           /\ \A i \in DOMAIN issues' : issues'[i].lot \in Ids
  <1>1. \A l : OpenIssues(l)' = OpenIssues(l)
    BY DEF OpenIssues
  <1>2. \A l : OpenOnly(l)' <=> OpenOnly(l)
    BY DEF OpenOnly
  <1>3. \A i \in DOMAIN issues' : issues'[i].lot \in Ids /\ issues'[i].source \in Ids
    BY DEF Issued
  <1>4. Ids \subseteq Ids'
    BY GrownIds
  <1>5. ASSUME NEW l \in Ids' \ Ids
        PROVE  OpenIssues(l)' = {} /\ lots'[l].status # "IN PROCESS"
    <2>1. PICK k \in 1..m : l = Len(lots) + k
      BY GrownIds
    <2>2. lots'[l].status = "IN STOCK"
      <3>1. Added(l)
        BY <2>1 DEF Grows
      <3> QED BY <1>3, <1>5, <3>1 DEF Added
    <2>3. OpenIssues(l)' = {}
      BY <1>3 DEF OpenIssues
    <2> QED BY <2>2, <2>3
  <1>6. \A l \in Ids' : lots'[l].status = "IN PROCESS" <=> OpenIssues(l)' # {}
    BY <1>1, <1>5 DEF Issued
  <1>7. \A l \in Ids' : \A i, j \in OpenIssues(l)' : i = j
    BY <1>1, <1>5 DEF Issued
  <1> QED BY <1>1, <1>2, <1>3, <1>4, <1>6, <1>7 DEF Issued

(* The request changes each lot's quantity by c and records as much.       *)
Recorded(c) ==
    \A l \in Ids : /\ c[l] \in Int /\ lots'[l].qty = lots[l].qty + c[l] /\ net'[l] = net[l] + c[l]
                   /\ lots'[l].status = "IN PROCESS" <=> lots[l].status = "IN PROCESS"

(* What each lot then accounts for changes by.                             *)
Gains(c) == [l \in Ids |-> IF OpenIssues(l) = {} \/ lots[l].kind = "growth_run" THEN c[l] ELSE 0]
NewQty(m) == [k \in 1..m |-> lots'[Len(lots) + k].qty]

LEMMA MoveKeeps ==
    ASSUME Books, NEW m \in Nat, Grows(m), NewCodes(m), issues' = issues, NEW c, Recorded(c),
           surplus' \in Int,
           surplus' = surplus + SumFunctionOnSet(Gains(c), Ids) + SumFunctionOnSet(NewQty(m), 1..m)
    PROVE  Books'
  <1> DEFINE d == Gains(c)
             q == NewQty(m)
  <1>1. Tables /\ Issued /\ Lineage /\ Codes /\ MovementsExplainStock /\ StockConserved
    BY DEF Books
  <1>2. Tables'
    BY <1>1, GrownTables DEF Tables
  <1>3. /\ Issued'
        /\ \A l : OpenIssues(l)' = OpenIssues(l)
        /\ \A l : OpenOnly(l)' <=> OpenOnly(l)
        /\ \A i \in DOMAIN issues' : issues'[i].lot \in Ids
    <2>1. \A l \in Ids : lots'[l].status = "IN PROCESS" <=> lots[l].status = "IN PROCESS"
      BY DEF Recorded
    <2> QED BY <1>1, <2>1, GrownIssued
  <1>4. MovementsExplainStock'
    <2>1. ASSUME NEW l \in Ids, OpenOnly(l)'
          PROVE  OpenOnly(l) /\ lots'[l].qty - lots[l].qty = net'[l] - net[l]
      <3>1. lots'[l].qty = lots[l].qty + c[l] /\ net'[l] = net[l] + c[l] /\ c[l] \in Int
        BY DEF Recorded
      <3>2. lots[l].qty \in Nat /\ net[l] \in Int
        BY <1>1, RowFields, TableRows
      <3>3. lots'[l].qty - lots[l].qty = c[l] /\ net'[l] - net[l] = c[l]
        <4>1. PICK x \in Nat, y \in Int, z \in Int :
                 x = lots[l].qty /\ y = net[l] /\ z = c[l]
          BY <3>1, <3>2
        <4>2. (x + z) - x = z /\ (y + z) - y = z
          OBVIOUS
        <4> QED BY <3>1, <4>1, <4>2
      <3> QED BY <1>3, <2>1, <3>3
    <2>2. IssuesKept
      BY DEF IssuesKept
    <2> QED BY <1>1, <1>2, <2>1, <2>2, KeptExplained
  <1>5. ASSUME NEW l \in Ids
        PROVE  d[l] \in Int /\ Held(l)' = Held(l) + d[l]
    <2>1. l \in Ids' /\ lots'[l].kind = lots[l].kind
      BY <1>1, GrownIds DEF Grows, SameOrigin
    <2>2. HeldRight(l)
      BY <1>1, HeldIs
    <2>3. (Tables /\ Issued => \A x \in Ids : HeldRight(x))'
      BY HeldIs, PTL
    <2>4. HeldRight(l)'
      BY <1>2, <1>3, <2>1, <2>3
    <2>5. c[l] \in Int /\ lots'[l].qty = lots[l].qty + c[l]
      BY DEF Recorded
    <2>6. CASE OpenIssues(l) = {} \/ lots[l].kind = "growth_run"
      <3>1. Held(l)' = lots'[l].qty /\ Held(l) = lots[l].qty
        BY <1>3, <2>1, <2>2, <2>4, <2>6 DEF HeldRight
      <3>2. d[l] = c[l]
        BY <2>6 DEF Gains
      <3> QED BY <2>5, <3>1, <3>2
    <2>7. CASE OpenIssues(l) # {} /\ lots[l].kind # "growth_run"
      <3>1. PICK i \in OpenIssues(l) : TRUE
        BY <2>7
      <3>2. Held(l) = issues[i].remaining /\ Held(l)' = issues'[i].remaining
        BY <1>3, <2>1, <2>2, <2>4, <2>7 DEF HeldRight
      <3>3. d[l] = 0
        BY <2>7 DEF Gains
      <3>4. issues'[i].remaining = issues[i].remaining /\ Held(l) \in Int
        BY <2>2 DEF HeldRight
      <3> QED BY ONLY <3>2, <3>3, <3>4
    <2> QED BY <2>6, <2>7
  <1>6. \A k \in 1..m : q[k] = lots'[Len(lots) + k].qty
    BY DEF NewQty
  <1> HIDE DEF d, q
  <1>7. StockConserved'
    BY <1>1, <1>2, <1>3, <1>5, <1>6, GrownHeld DEF d, q
  <1> QED BY <1>1, <1>2, <1>3, <1>4, <1>7, GrownLineage, GrownCodes DEF Books

-----------------------------------------------------------------------------
(* POST /lot-movements/split.                                              *)

LEMMA PartsOf ==
    ASSUME NEW n \in Nat \ {0}, NEW parts \in Parts(n)
    PROVE  /\ parts \in Seq(Nat) /\ Len(parts) \in Nat /\ DOMAIN parts = 1..Len(parts)
           /\ SumFunction(parts) = n
           /\ SumFunctionOnSet(parts, 1..Len(parts)) = n
  <1>1. CASE parts = <<n>>
    <2>1. /\ parts \in Seq(Nat) /\ Len(parts) = 1 /\ DOMAIN parts = 1..1 /\ parts[1] = n
      BY <1>1
    <2>2. SumFunctionOnSet(parts, 1..1) = n
      BY <2>1, SumShort
    <2> QED BY <2>1, <2>2 DEF SumFunction
  <1>2. ASSUME NEW a \in 1..(n - 1), parts = <<a, n - a>>
        PROVE  /\ parts \in Seq(Nat) /\ Len(parts) \in Nat /\ DOMAIN parts = 1..Len(parts)
               /\ SumFunction(parts) = n
               /\ SumFunctionOnSet(parts, 1..Len(parts)) = n
    <2>1. /\ parts \in Seq(Nat) /\ Len(parts) = 2 /\ DOMAIN parts = 1..2
          /\ parts[1] = a /\ parts[2] = n - a
      BY <1>2
    <2>2. SumFunctionOnSet(parts, 1..2) = a + (n - a)
      BY <2>1, SumShort
    <2> QED BY <2>1, <2>2 DEF SumFunction
  <1> QED BY <1>1, <1>2 DEF Parts

LEMMA Division ==
    ASSUME Tables, NEW l \in Ids, Splittable(l), NEW parts \in Divisions(l)
    PROVE  /\ parts \in Seq(Nat) /\ Len(parts) \in Nat /\ DOMAIN parts = 1..Len(parts)
           /\ SumFunctionOnSet(parts, 1..Len(parts)) = SumFunction(parts)
           /\ SumFunction(parts) \in 1..lots[l].qty
           /\ lots[l].kind # "seed" => SumFunction(parts) = lots[l].qty
  <1>1. lots[l].qty \in Nat \ {0}
    <2>1. lots[l].qty \in Nat
      BY RowFields
    <2>2. lots[l].qty > 0
      BY DEF Splittable
    <2> QED BY ONLY <2>1, <2>2
  <1>2. CASE lots[l].kind = "seed"
    <2>1. PICK n \in 1..lots[l].qty : parts \in Parts(n)
      BY <1>2 DEF Divisions
    <2>2. n \in Nat \ {0}
      BY <1>1
    <2> QED BY <1>2, <2>1, <2>2, PartsOf
  <1>3. CASE lots[l].kind # "seed"
    <2>1. parts \in Parts(lots[l].qty)
      BY <1>3 DEF Divisions
    <2> QED BY <1>1, <2>1, PartsOf
  <1> QED BY <1>2, <1>3

(* The next code is more than every code in use.                           *)
LEMMA NextCode ==
    ASSUME Tables, NEW l \in Ids
    PROVE  /\ nextSiblingCode(l) \in Nat /\ nextSiblingCode(l) > 0
           /\ \A a \in Ids : lots[a].parent = l => lots[a].sibling < nextSiblingCode(l)
  <1> DEFINE C == {x \in Ids : lots[x].parent = l}
             T == {0} \cup {lots[c].sibling : c \in C}
             f == [x \in Ids |-> lots[x].sibling]
             b == SumFunctionOnSet(f, Ids)
  <1>1. \A x \in Ids : f[x] \in Nat /\ lots[x].sibling = f[x]
    BY RowFields
  <1>2. IsFiniteSet(Ids)
    BY TableRows
  <1> HIDE DEF f
  <1>3. b \in Nat /\ \A x \in Ids : f[x] <= b
    BY <1>1, <1>2, SumNat, SumTerm
  <1> HIDE DEF b
  <1>4. T \subseteq Nat /\ T # {} /\ \A x \in T : x <= b
    BY <1>1, <1>3
  <1>5. /\ \A c \in C : lots[c].sibling \in T
        /\ nextSiblingCode(l) = 1 + Max(T)
    BY DEF nextSiblingCode
  <1>6. \A a \in Ids : lots[a].parent = l => a \in C
    OBVIOUS
  <1> HIDE DEF T, C
  <1>7. \E m \in T : \A x \in T : x <= m
    BY <1>3, <1>4, LargestNumber
  <1>8. \E m \in T : \A x \in T : m >= x
    BY <1>4, <1>7
  <1>9. Max(T) \in T /\ \A x \in T : Max(T) >= x
    BY <1>8, Zenon DEF Max
  <1>10. Max(T) \in Nat
    BY <1>4, <1>9
  <1>11. ASSUME NEW a \in Ids, lots[a].parent = l
         PROVE  lots[a].sibling < nextSiblingCode(l)
    <2>1. lots[a].sibling \in T
      BY <1>5, <1>6, <1>11
    <2>2. lots[a].sibling <= Max(T) /\ lots[a].sibling \in Nat
      BY <1>4, <1>9, <1>10, <2>1
    <2> QED BY <1>5, <1>10, <2>2
  <1> QED BY <1>5, <1>10, <1>11

(* What a split leaves of the parent.                                      *)
LEMMA ParentFields ==
    ASSUME NEW r \in Lot, NEW given \in 1..r.qty, r.status = "IN STOCK",
           r.kind # "seed" => given = r.qty
    PROVE  /\ AfterSplit(r, given) \in Lot /\ AfterSplit(r, given).qty = r.qty - given
           /\ AfterSplit(r, given).status # "IN PROCESS"
           /\ SameOrigin(AfterSplit(r, given), r)
  <1>0. PICK q \in Nat : q = r.qty
    BY LotFields
  <1>1. given \in Nat /\ given <= q
    BY ONLY <1>0, given \in 1..r.qty
  <1>2. CASE r.kind = "seed" /\ given < r.qty
    <2>1. AfterSplit(r, given) = [r EXCEPT !.qty = q - given]
      BY <1>0, <1>2 DEF AfterSplit
    <2>2. q - given \in Nat
      BY ONLY <1>1, q \in Nat
    <2>3. r.status # "IN PROCESS"
      OBVIOUS
    <2>4. /\ [r EXCEPT !.qty = q - given] \in Lot /\ [r EXCEPT !.qty = q - given].qty = q - given
          /\ [r EXCEPT !.qty = q - given].status = r.status
          /\ SameOrigin([r EXCEPT !.qty = q - given], r)
      BY <2>2, QtyFields
    <2> QED BY <1>0, <2>1, <2>3, <2>4
  <1>3. CASE ~(r.kind = "seed" /\ given < r.qty)
    <2>1. AfterSplit(r, given) = Consume(r)
      BY <1>3 DEF AfterSplit
    <2>2. given = q
      <3>1. CASE r.kind # "seed"
        BY <1>0, <3>1
      <3>2. CASE ~(given < q)
        BY ONLY <1>1, <3>2, q \in Nat
      <3> QED BY <1>0, <1>3, <3>1, <3>2
    <2>3. r.qty - given = 0
      BY ONLY <1>0, <2>2, q \in Nat
    <2> QED BY <2>1, <2>3, ConsumeFields
  <1> QED BY <1>2, <1>3

ChildIs(r, l, q, c) ==
    /\ r \in Lot /\ r.status = "IN STOCK" /\ r.qty = q /\ r.entry = 0
    /\ lots[l].kind = "seed" =>
          /\ r.kind = "seed" /\ r.parent = l /\ r.root = RootOf(l)
          /\ r.level = lots[l].level + 1 /\ r.sibling = c
    /\ lots[l].kind # "seed" =>
          /\ r.parent = 0 /\ r.root = 0 /\ r.level = 0 /\ r.sibling = 0

LEMMA ChildFields ==
    ASSUME Tables, NEW l \in Ids, NEW parts, NEW k, k \in Nat, k > 0, parts[k] \in Nat
    PROVE  ChildIs(SplitChild(l, parts, k), l, parts[k], nextSiblingCode(l) + k - 1)
  <1>1. l \in Nat /\ lots[l] \in Lot
    BY RowFields
  <1>2. CASE lots[l].kind = "seed"
    <2> DEFINE p == Piece(l, parts[k])
               c == nextSiblingCode(l) + k - 1
    <2>1. /\ p \in Lot /\ p.kind = lots[l].kind /\ p.qty = parts[k] /\ p.status = "IN STOCK"
          /\ p.parent = l /\ p.root = RootOf(l) /\ p.level = lots[l].level + 1 /\ p.entry = 0
      BY <1>1, PieceFields
    <2>2. c \in Nat
      <3>1. nextSiblingCode(l) \in Nat /\ nextSiblingCode(l) > 0
        BY NextCode
      <3> QED BY <3>1
    <2>3. SplitChild(l, parts, k) = [p EXCEPT !.sibling = c]
      BY <1>2 DEF SplitChild
    <2> HIDE DEF p, c
    <2>4. /\ [p EXCEPT !.sibling = c] \in Lot
          /\ [p EXCEPT !.sibling = c].kind = p.kind /\ [p EXCEPT !.sibling = c].qty = p.qty
          /\ [p EXCEPT !.sibling = c].status = p.status
          /\ [p EXCEPT !.sibling = c].parent = p.parent /\ [p EXCEPT !.sibling = c].root = p.root
          /\ [p EXCEPT !.sibling = c].level = p.level /\ [p EXCEPT !.sibling = c].entry = p.entry
          /\ [p EXCEPT !.sibling = c].sibling = c
      BY <2>1, <2>2 DEF Lot
    <2> QED BY <1>2, <2>1, <2>3, <2>4 DEF c, ChildIs
  <1>3. CASE lots[l].kind # "seed"
    <2> DEFINE u == Unrelated(l, parts[k])
    <2>1. SplitChild(l, parts, k) = u
      BY <1>3 DEF SplitChild
    <2>2. /\ u \in Lot /\ u.status = "IN STOCK" /\ u.qty = parts[k] /\ u.parent = 0 /\ u.root = 0
          /\ u.level = 0 /\ u.sibling = 0 /\ u.entry = 0
      BY ONLY l \in Ids, parts[k] \in Nat, <1>1, PieceFields, Zenon
    <2> HIDE DEF u
    <2> QED BY ONLY <1>3, <2>1, <2>2 DEF ChildIs
  <1> QED BY <1>2, <1>3

(* The tables after rows are rewritten and others added.                   *)
LEMMA WrittenLots ==
    ASSUME Tables, NEW m \in Nat, NEW old \in [Ids -> Lot], NEW more \in [1..m -> Lot],
           lots' = old \o more
    PROVE  /\ lots' \in Seq(Lot) /\ Len(lots') = Len(lots) + m
           /\ \A l \in Ids : lots'[l] = old[l]
           /\ \A k \in 1..m : lots'[Len(lots) + k] = more[k]
  <1>1. PICK n \in Nat : n = Len(lots) /\ Ids = 1..n
    BY TableRows
  <1>2. old \in [1..n -> Lot]
    BY <1>1
  <1>3. /\ old \o more \in Seq(Lot) /\ Len(old \o more) = n + m
        /\ \A l \in 1..n : (old \o more)[l] = old[l]
        /\ \A k \in 1..m : (old \o more)[n+k] = more[k]
    BY ONLY <1>2, n \in Nat, m \in Nat, more \in [1..m -> Lot]
  <1> QED BY <1>1, <1>3

Nets == [Ids -> Int]
MoreNets(m) == [1..m -> Int]
WroteNet(old, m, more) ==
    /\ net' \in Seq(Int) /\ Len(net') = Len(lots) + m
    /\ \A l \in Ids : net'[l] = old[l]
    /\ \A k \in 1..m : net'[Len(lots) + k] = more[k]

LEMMA WrittenNet ==
    ASSUME Tables, NEW m \in Nat, NEW old, old \in Nets, NEW more, more \in MoreNets(m),
           net' = old \o more
    PROVE  WroteNet(old, m, more)
  <1>1. PICK n \in Nat : n = Len(lots) /\ Ids = 1..n
    BY TableRows
  <1>0. PICK R : R = Int
    OBVIOUS
  <1>2. old \in [1..n -> R] /\ more \in [1..m -> R]
    BY <1>0, <1>1 DEF Nets, MoreNets
  <1>3. /\ old \o more \in Seq(R) /\ Len(old \o more) = n + m
        /\ \A l \in 1..n : (old \o more)[l] = old[l]
        /\ \A k \in 1..m : (old \o more)[n+k] = more[k]
    BY ONLY <1>2, n \in Nat, m \in Nat
  <1> QED BY <1>0, <1>1, <1>3 DEF WroteNet


(* What the new lots hold.                                                 *)
LEMMA QtyOf ==
    ASSUME NEW m \in Nat, NEW q,
           \A k \in 1..m : q[k] \in Int /\ lots'[Len(lots) + k].qty = q[k]
    PROVE  SumFunctionOnSet(NewQty(m), 1..m) = SumFunctionOnSet(q, 1..m)
  <1> DEFINE R == 1..m
             p == NewQty(m)
  <1>1. IsFiniteSet(R) /\ \A k \in R : q[k] \in Int /\ q[k] = p[k]
    BY FS_Interval DEF NewQty
  <1> HIDE DEF R, p
  <1>2. SumFunctionOnSet(q, R) = SumFunctionOnSet(p, R)
    BY <1>1, SumSame
  <1> QED BY <1>2 DEF R, p

LEMMA SplitKeeps ==
    ASSUME Books, NEW l \in Ids, NEW parts, parts \in Divisions(l), Split(l, parts)
    PROVE  Books' /\ Ids \subseteq Ids'
  <1>1. Tables /\ surplus \in Int
    BY DEF Books, Tables
  <1>2. PICK held \in Nat : held = lots[l].qty
    BY <1>1, RowFields
  <1>3. PICK m \in Nat : m = Len(parts)
    BY <1>1, Division DEF Split
  <1>4. PICK given \in Nat : given = SumFunction(parts) /\ given <= held /\ given > 0
    <2>1. SumFunction(parts) \in 1..held
      BY <1>1, <1>2, Division DEF Split
    <2> QED BY <2>1
  <1>5. given \in Nat /\ given <= held /\ given > 0
    BY <1>4
  <1>6. /\ parts \in Seq(Nat) /\ DOMAIN parts = 1..m
        /\ SumFunctionOnSet(parts, 1..m) = given
        /\ lots[l].kind # "seed" => given = held
    BY <1>1, <1>2, <1>3, <1>4, Division DEF Split
  <1>7. \A k \in 1..m : parts[k] \in Nat
    BY <1>6
  <1> DEFINE oldLots == [lots EXCEPT ![l] = AfterSplit(@, given)]
             newLots == [k \in 1..m |-> SplitChild(l, parts, k)]
             oldNet == [net EXCEPT ![l] = @ - given]
             c == [x \in Ids |-> IF x = l THEN 0 - given ELSE 0]
  <1>8. /\ lots' = oldLots \o newLots /\ net' = oldNet \o parts
        /\ issues' = issues /\ surplus' = surplus /\ lots[l].status = "IN STOCK"
    BY <1>4, <1>6 DEF Split, Splittable
  <1>9. /\ AfterSplit(lots[l], given) \in Lot
        /\ AfterSplit(lots[l], given).qty = held - given
        /\ AfterSplit(lots[l], given).status # "IN PROCESS"
        /\ SameOrigin(AfterSplit(lots[l], given), lots[l])
    <2>1. lots[l] \in Lot
      BY <1>1, RowFields
    <2>2. given \in 1..lots[l].qty
      BY <1>2, <1>5
    <2> QED BY <1>2, <1>6, <1>8, <2>1, <2>2, ParentFields
  <1>10. ASSUME NEW k \in 1..m
         PROVE  ChildIs(SplitChild(l, parts, k), l, parts[k], nextSiblingCode(l) + k - 1)
    <2>1. k \in Nat /\ k > 0 /\ parts[k] \in Nat
      BY <1>7
    <2> QED BY <1>1, <2>1, ChildFields
  <1>11. oldLots \in [Ids -> Lot] /\ newLots \in [1..m -> Lot]
    <2>1. \A x \in Ids : lots[x] \in Lot
      BY <1>1, TableRows
    <2>2. oldLots = [x \in Ids |-> IF x = l THEN AfterSplit(lots[l], given) ELSE lots[x]]
      BY DEF Ids
    <2>3. oldLots \in [Ids -> Lot]
      BY <1>9, <2>1, <2>2
    <2>4. newLots \in [1..m -> Lot]
      BY <1>10 DEF ChildIs
    <2> QED BY <2>3, <2>4
  <1>12. oldNet \in Nets /\ parts \in MoreNets(m)
    <2>1. DOMAIN net = Ids /\ \A x \in Ids : net[x] \in Int
      BY <1>1, TableRows
    <2>2. oldNet = [x \in Ids |-> IF x = l THEN net[l] - given ELSE net[x]]
      BY <1>1, <2>1 DEF Tables
    <2>3. net[l] - given \in Int
      BY <1>5, <2>1
    <2>4. oldNet \in [Ids -> Int]
      BY <2>1, <2>2, <2>3
    <2>5. parts \in [1..m -> Int]
      BY <1>6, <1>7
    <2> QED BY <2>4, <2>5 DEF Nets, MoreNets
  <1>13. /\ oldLots[l] = AfterSplit(lots[l], given)
         /\ \A x \in Ids \ {l} : oldLots[x] = lots[x]
         /\ oldNet[l] = net[l] - given
         /\ \A x \in Ids \ {l} : oldNet[x] = net[x]
         /\ \A k \in 1..m : newLots[k] = SplitChild(l, parts, k)
    BY <1>1, TableRows DEF Ids
  <1> HIDE DEF oldLots, newLots, oldNet
  <1>14. /\ lots' \in Seq(Lot) /\ Len(lots') = Len(lots) + m
         /\ \A x \in Ids : lots'[x] = oldLots[x]
         /\ \A k \in 1..m : lots'[Len(lots) + k] = newLots[k]
    BY <1>1, <1>8, <1>11, WrittenLots
  <1>15. /\ net' \in Seq(Int) /\ Len(net') = Len(lots) + m
         /\ \A x \in Ids : net'[x] = oldNet[x]
         /\ \A k \in 1..m : net'[Len(lots) + k] = parts[k]
    <2>1. WroteNet(oldNet, m, parts)
      BY <1>1, <1>8, <1>12, WrittenNet
    <2> QED BY <2>1 DEF WroteNet
  <1>16. Grows(m)
    <2>1. \A x \in Ids : SameOrigin(lots'[x], lots[x])
      BY <1>9, <1>13, <1>14 DEF SameOrigin
    <2>2. ASSUME NEW k \in 1..m
          PROVE  Added(Len(lots) + k)
      <3>1. PICK id : id = Len(lots) + k
        OBVIOUS
      <3>2. lots'[id] = SplitChild(l, parts, k) /\ net'[id] = parts[k]
        BY <1>13, <1>14, <1>15, <3>1
      <3>3. lots'[id].qty = lots'[id].entry + net'[id]
        <4>1. lots'[id].qty = parts[k] /\ lots'[id].entry = 0 /\ parts[k] \in Nat
          <5>1. PICK c2 : ChildIs(lots'[id], l, parts[k], c2)
            BY <1>10, <3>2
          <5> QED BY <1>7, <5>1 DEF ChildIs
        <4> QED BY <3>2, <4>1
      <3>4. Fresh(id) \/ Below(id, l)
        BY <1>10, <3>2 DEF Fresh, Below, ChildIs
      <3>5. Added(id)
        BY <1>10, <3>2, <3>3, <3>4 DEF Added, ChildIs
      <3> QED BY <3>1, <3>5
    <2> QED BY <1>14, <1>15, <2>1, <2>2 DEF Grows
  <1>17. NewCodes(m)
    <2>1. PICK code \in Nat : /\ code = nextSiblingCode(l)
                              /\ \A a \in Ids : lots[a].parent = l => lots[a].sibling < code
      BY <1>1, NextCode
    <2>2. \A k \in 1..m : lots'[Len(lots) + k] = SplitChild(l, parts, k)
      BY <1>13, <1>14
    <2>3. CASE lots[l].kind # "seed"
      BY <1>10, <2>2, <2>3 DEF NewCodes, ChildIs
    <2>4. CASE lots[l].kind = "seed"
      <3>1. \A k \in 1..m : /\ lots'[Len(lots) + k].parent = l
                            /\ lots'[Len(lots) + k].sibling = code + k - 1
        BY <1>10, <2>1, <2>2, <2>4 DEF ChildIs
      <3>2. ASSUME NEW k \in 1..m, NEW a \in Ids, lots[a].parent = l
            PROVE  lots[a].sibling < lots'[Len(lots) + k].sibling
        <4>1. PICK z \in Nat : z = lots[a].sibling /\ z < code
          BY <1>1, <2>1, <3>2, RowFields
        <4>2. z < code + k - 1
          BY ONLY <4>1, code \in Nat, k \in 1..m
        <4> QED BY <3>1, <4>1, <4>2
      <3>3. ASSUME NEW k \in 1..m, NEW j \in 1..m,
                   lots'[Len(lots) + j].sibling = lots'[Len(lots) + k].sibling
            PROVE  j = k
        <4>1. code + j - 1 = code + k - 1
          BY <3>1, <3>3
        <4> QED BY ONLY <4>1, code \in Nat, k \in 1..m, j \in 1..m
      <3> QED BY <3>1, <3>2, <3>3 DEF NewCodes
    <2> QED BY <2>3, <2>4
  <1>18. \A x \in Ids : c[x] \in Int
    BY <1>5
  <1>19. c[l] = 0 - given /\ \A x \in Ids \ {l} : c[x] = 0
    OBVIOUS
  <1> HIDE DEF c
  <1>20. Recorded(c)
    <2>1. ASSUME NEW x \in Ids
          PROVE  lots[x].qty \in Nat /\ net[x] \in Int
      BY <1>1, RowFields, TableRows
    <2>2. /\ lots'[l].status # "IN PROCESS" /\ lots[l].status # "IN PROCESS"
          /\ lots'[l].qty = held - given /\ net'[l] = net[l] - given
      BY <1>8, <1>9, <1>13, <1>14, <1>15
    <2>3. lots'[l].qty = lots[l].qty + c[l] /\ net'[l] = net[l] + c[l]
      <3>1. held - given = held + (0 - given)
        BY <1>5
      <3>2. net[l] - given = net[l] + (0 - given)
        BY <1>5, <2>1
      <3> QED BY <1>2, <1>19, <2>2, <3>1, <3>2
    <2>4. ASSUME NEW x \in Ids, x # l
          PROVE  /\ lots'[x].qty = lots[x].qty + c[x] /\ net'[x] = net[x] + c[x]
                 /\ lots'[x].status = lots[x].status
      <3>1. lots'[x] = lots[x] /\ net'[x] = net[x] /\ c[x] = 0
        BY <1>13, <1>14, <1>15, <1>19, <2>4
      <3> QED BY <2>1, <3>1
    <2> QED BY <1>18, <2>2, <2>3, <2>4 DEF Recorded
  <1>21. SumFunctionOnSet(Gains(c), Ids) = 0 - given
    <2>1. OpenIssues(l) = {}
      BY <1>8 DEF Books, Issued
    <2>2. Gains(c)[l] = 0 - given /\ \A x \in Ids \ {l} : Gains(c)[x] = 0
      BY <1>19, <2>1 DEF Gains
    <2>3. IsFiniteSet(Ids)
      BY <1>1, TableRows
    <2>4. Gains(c)[l] \in Int
      BY <1>5, <2>2
    <2> QED BY <2>2, <2>3, <2>4, SumOnly
  <1>22. SumFunctionOnSet(NewQty(m), 1..m) = given
    <2>1. ASSUME NEW k \in 1..m
          PROVE  parts[k] \in Int /\ lots'[Len(lots) + k].qty = parts[k]
      <3>1. lots'[Len(lots) + k] = SplitChild(l, parts, k)
        BY <1>13, <1>14
      <3>2. SplitChild(l, parts, k).qty = parts[k]
        BY <1>10 DEF ChildIs
      <3>3. parts[k] \in Int
        BY <1>7
      <3> QED BY ONLY <3>1, <3>2, <3>3
    <2>2. SumFunctionOnSet(NewQty(m), 1..m) = SumFunctionOnSet(parts, 1..m)
      BY <2>1, QtyOf
    <2> QED BY <1>6, <2>2
  <1>23. surplus' \in Int /\ surplus' = surplus + SumFunctionOnSet(Gains(c), Ids)
                                               + SumFunctionOnSet(NewQty(m), 1..m)
    <2>1. PICK s \in Int : s = surplus
      BY <1>1
    <2>2. s + (0 - given) + given = s
      BY ONLY s \in Int, given \in Nat
    <2> QED BY <1>1, <1>8, <1>21, <1>22, <2>1, <2>2
  <1>24. Books'
    BY <1>8, <1>16, <1>17, <1>20, <1>23, MoveKeeps
  <1> QED BY <1>1, <1>16, <1>24, GrownIds

-----------------------------------------------------------------------------
(* POST /lot-movements/mix.                                                *)

(* One row more.                                                           *)
LEMMA WrittenOne ==
    ASSUME Tables, NEW old \in [Ids -> Lot], NEW row \in Lot, lots' = Append(old, row)
    PROVE  /\ lots' \in Seq(Lot) /\ Len(lots') = Len(lots) + 1
           /\ \A l \in Ids : lots'[l] = old[l]
           /\ lots'[Len(lots) + 1] = row
  <1>1. PICK n \in Nat : n = Len(lots) /\ Ids = 1..n
    BY TableRows
  <1>2. old \in Seq(Lot) /\ Len(old) = n /\ DOMAIN old = 1..n
    BY <1>1
  <1> QED BY <1>1, <1>2, AppendRow

WroteOneNet(old, v) ==
    /\ net' \in Seq(Int) /\ Len(net') = Len(lots) + 1
    /\ \A l \in Ids : net'[l] = old[l]
    /\ net'[Len(lots) + 1] = v

LEMMA WrittenOneNet ==
    ASSUME Tables, NEW old, old \in Nets, NEW v, v \in Int, net' = Append(old, v)
    PROVE  WroteOneNet(old, v)
  <1>1. PICK n \in Nat : n = Len(lots) /\ Ids = 1..n
    BY TableRows
  <1>2. PICK R : R = Int
    OBVIOUS
  <1>3. old \in [1..n -> R] /\ v \in R
    BY <1>1, <1>2 DEF Nets
  <1>4. old \in Seq(R) /\ Len(old) = n /\ DOMAIN old = 1..n
    BY ONLY <1>3, n \in Nat
  <1>5. /\ Append(old, v) \in Seq(R) /\ Len(Append(old, v)) = n + 1
        /\ Append(old, v)[n + 1] = v
        /\ \A j \in 1..n : Append(old, v)[j] = old[j]
    BY ONLY <1>3, <1>4, n \in Nat
  <1> QED BY <1>1, <1>2, <1>5 DEF WroteOneNet

(* The row of the mixed lot.                                               *)
LEMMA MixedFields ==
    ASSUME Tables, NEW parents, parents \subseteq Ids, parents # {}, NEW total \in Nat
    PROVE  /\ Mixed(parents, total) \in Lot /\ Mixed(parents, total).status = "IN STOCK"
           /\ Mixed(parents, total).qty = total /\ Mixed(parents, total).entry = 0
           /\ Mixed(parents, total).parent = 0 /\ Mixed(parents, total).level = 0
           /\ Mixed(parents, total).sibling = 0
           /\ Mixed(parents, total).root \in {0, Len(lots) + 1}
  <1>1. Ids \subseteq Nat /\ Len(lots) \in Nat
    BY TableRows
  <1>2. \E x \in parents : \A y \in parents : x <= y
    BY <1>1, LeastNumber
  <1>3. PICK first \in parents : first = Min(parents)
    BY <1>2, Zenon DEF Min
  <1>4. first \in Ids /\ first \in Nat /\ lots[first] \in Lot
    BY <1>1, <1>3, TableRows
  <1> DEFINE u == Unrelated(first, total)
             b == IF lots[first].kind = "seed" THEN Len(lots) + 1 ELSE 0
  <1>5. /\ u \in Lot /\ u.status = "IN STOCK" /\ u.qty = total /\ u.entry = 0
        /\ u.parent = 0 /\ u.level = 0 /\ u.sibling = 0
    BY <1>4, PieceFields
  <1>6. b \in {0, Len(lots) + 1} /\ b \in Nat
    BY <1>1
  <1>7. Mixed(parents, total) = [u EXCEPT !.root = b]
    BY <1>3 DEF Mixed
  <1> HIDE DEF u, b
  <1>8. /\ [u EXCEPT !.root = b] \in Lot /\ [u EXCEPT !.root = b].status = u.status
        /\ [u EXCEPT !.root = b].qty = u.qty /\ [u EXCEPT !.root = b].entry = u.entry
        /\ [u EXCEPT !.root = b].parent = u.parent /\ [u EXCEPT !.root = b].level = u.level
        /\ [u EXCEPT !.root = b].sibling = u.sibling /\ [u EXCEPT !.root = b].root = b
    BY <1>5, <1>6 DEF Lot
  <1> QED BY <1>5, <1>6, <1>7, <1>8

(* The total of what the parents hold.                                     *)
LEMMA TotalOf ==
    ASSUME Tables, NEW parents, parents \subseteq Ids,
           NEW c, \A x \in Ids : c[x] = IF x \in parents THEN 0 - lots[x].qty ELSE 0
    PROVE  /\ SumFunction([l \in parents |-> lots[l].qty]) \in Nat
           /\ SumFunctionOnSet(c, Ids) = 0 - SumFunction([l \in parents |-> lots[l].qty])
  <1> DEFINE f == [l \in parents |-> lots[l].qty]
             h == [l \in Ids |-> IF l \in parents THEN lots[l].qty ELSE 0]
  <1>1. SumFunction(f) = SumFunctionOnSet(f, parents)
    <2>1. DOMAIN f = parents
      OBVIOUS
    <2> QED BY <2>1, Zenon DEF SumFunction
  <1>2. IsFiniteSet(Ids) /\ IsFiniteSet(parents)
    BY TableRows, FS_Subset
  <1>3. ASSUME NEW x \in Ids
        PROVE  lots[x].qty \in Nat
    BY RowFields
  <1>4. /\ \A x \in parents : f[x] \in Nat
        /\ \A x \in Ids : h[x] \in Int
        /\ \A x \in parents : f[x] = h[x]
        /\ \A x \in Ids \ parents : h[x] = 0
    BY <1>3
  <1>5. \A x \in Ids : h[x] \in Int /\ c[x] = -h[x]
    BY <1>3
  <1> HIDE DEF f, h
  <1>6. SumFunctionOnSet(f, parents) \in Nat
    BY <1>2, <1>4, SumNat
  <1>7. SumFunctionOnSet(f, parents) = SumFunctionOnSet(h, Ids)
    BY <1>2, <1>4, SumSome
  <1>8. SumFunctionOnSet(c, Ids) = 0 - SumFunctionOnSet(h, Ids)
    BY <1>2, <1>5, SumMinus
  <1> QED BY <1>1, <1>6, <1>7, <1>8 DEF f

LEMMA MixKeeps ==
    ASSUME Books, NEW parents, parents \subseteq Ids, parents # {}, Mix(parents)
    PROVE  Books' /\ Ids \subseteq Ids'
  <1>1. Tables /\ surplus \in Int
    BY DEF Books, Tables
  <1> DEFINE c == [x \in Ids |-> IF x \in parents THEN 0 - lots[x].qty ELSE 0]
             oldLots == [l \in Ids |-> IF l \in parents THEN Consume(lots[l]) ELSE lots[l]]
             oldNet == [l \in Ids |-> IF l \in parents THEN net[l] - lots[l].qty ELSE net[l]]
  <1>2. PICK total \in Nat : total = SumFunction([l \in parents |-> lots[l].qty])
    <2>1. \A x \in Ids : c[x] = IF x \in parents THEN 0 - lots[x].qty ELSE 0
      OBVIOUS
    <2> QED BY <1>1, <2>1, TotalOf
  <1>3. SumFunctionOnSet(c, Ids) = 0 - total
    <2>1. \A x \in Ids : c[x] = IF x \in parents THEN 0 - lots[x].qty ELSE 0
      OBVIOUS
    <2> HIDE DEF c
    <2> QED BY <1>1, <1>2, <2>1, TotalOf
  <1>4. PICK row : row = Mixed(parents, total)
    OBVIOUS
  <1>5. /\ lots' = Append(oldLots, row) /\ net' = Append(oldNet, total)
        /\ issues' = issues /\ surplus' = surplus
        /\ \A x \in parents : lots[x].status = "IN STOCK"
    BY <1>2, <1>4 DEF Mix, Mixable
  <1>6. /\ row \in Lot /\ row.status = "IN STOCK" /\ row.qty = total /\ row.entry = 0
        /\ row.parent = 0 /\ row.level = 0 /\ row.sibling = 0 /\ row.root \in {0, Len(lots) + 1}
    BY <1>1, <1>4, MixedFields
  <1>7. ASSUME NEW x \in Ids
        PROVE  lots[x] \in Lot /\ lots[x].qty \in Nat /\ net[x] \in Int
    BY <1>1, RowFields, TableRows
  <1>8. ASSUME NEW x \in Ids
        PROVE  Consume(lots[x]) \in Lot /\ Consume(lots[x]).qty = 0
               /\ Consume(lots[x]).status = "CONSUMED" /\ SameOrigin(Consume(lots[x]), lots[x])
    BY <1>7, ConsumeFields
  <1>9. oldLots \in [Ids -> Lot]
    BY <1>7, <1>8
  <1>10. oldNet \in Nets
    BY <1>7 DEF Nets
  <1>11. \A x \in Ids :
            /\ oldLots[x] = IF x \in parents THEN Consume(lots[x]) ELSE lots[x]
            /\ oldNet[x] = IF x \in parents THEN net[x] - lots[x].qty ELSE net[x]
            /\ c[x] = IF x \in parents THEN 0 - lots[x].qty ELSE 0
    OBVIOUS
  <1> HIDE DEF oldLots, oldNet, c
  <1>12. /\ lots' \in Seq(Lot) /\ Len(lots') = Len(lots) + 1
         /\ \A l \in Ids : lots'[l] = oldLots[l]
         /\ lots'[Len(lots) + 1] = row
    BY <1>1, <1>5, <1>6, <1>9, WrittenOne
  <1>13. /\ net' \in Seq(Int) /\ Len(net') = Len(lots) + 1
         /\ \A l \in Ids : net'[l] = oldNet[l]
         /\ net'[Len(lots) + 1] = total
    <2>1. total \in Int
      BY ONLY total \in Nat
    <2>2. WroteOneNet(oldNet, total)
      BY ONLY <1>1, <1>5, <1>10, <2>1, WrittenOneNet
    <2> QED BY <2>2 DEF WroteOneNet
  <1>14. Grows(1)
    <2>1. \A x \in Ids : SameOrigin(lots'[x], lots[x])
      BY <1>8, <1>11, <1>12 DEF SameOrigin
    <2>2. PICK id : id = Len(lots) + 1
      OBVIOUS
    <2>3. lots'[id] = row /\ net'[id] = total /\ total = 0 + total
      BY <1>12, <1>13, <2>2
    <2>4. Fresh(id)
      BY <1>6, <2>2, <2>3 DEF Fresh
    <2>5. Added(id)
      BY <1>6, <2>3, <2>4 DEF Added
    <2>6. \A k \in 1..1 : Len(lots) + k = id
      BY <2>2
    <2> QED BY <1>12, <1>13, <2>1, <2>5, <2>6 DEF Grows
  <1>15. NewCodes(1)
    <2>1. \A k \in 1..1 : k = 1
      OBVIOUS
    <2> QED BY <1>6, <1>12, <2>1 DEF NewCodes
  <1>16. Recorded(c)
    <2>1. ASSUME NEW x \in Ids, x \in parents
          PROVE  /\ c[x] \in Int /\ lots'[x].qty = lots[x].qty + c[x] /\ net'[x] = net[x] + c[x]
                 /\ lots'[x].status # "IN PROCESS" /\ lots[x].status # "IN PROCESS"
      <3>1. PICK q \in Nat, n \in Int : q = lots[x].qty /\ n = net[x]
        BY <1>7
      <3>2. lots'[x].qty = 0 /\ lots'[x].status = "CONSUMED" /\ net'[x] = n - q /\ c[x] = 0 - q
        BY <1>8, <1>11, <1>12, <1>13, <2>1, <3>1
      <3>3. 0 = q + (0 - q) /\ n - q = n + (0 - q) /\ 0 - q \in Int
        BY ONLY q \in Nat, n \in Int
      <3> QED BY <1>5, <2>1, <3>1, <3>2, <3>3
    <2>2. ASSUME NEW x \in Ids, x \notin parents
          PROVE  /\ c[x] \in Int /\ lots'[x].qty = lots[x].qty + c[x] /\ net'[x] = net[x] + c[x]
                 /\ lots'[x].status = lots[x].status
      <3>1. lots'[x] = lots[x] /\ net'[x] = net[x] /\ c[x] = 0
        BY <1>11, <1>12, <1>13, <2>2
      <3> QED BY <1>7, <3>1
    <2> QED BY <2>1, <2>2 DEF Recorded
  <1>17. SumFunctionOnSet(Gains(c), Ids) = 0 - total
    <2>1. \A x \in parents : OpenIssues(x) = {}
      BY <1>5 DEF Books, Issued
    <2>2. \A x \in Ids : Gains(c)[x] = c[x]
      BY <1>11, <2>1 DEF Gains
    <2>3. \A x \in Ids : c[x] \in Int
      BY <1>16 DEF Recorded
    <2>4. IsFiniteSet(Ids) /\ \A x \in Ids : c[x] \in Int /\ c[x] = Gains(c)[x]
      BY <1>1, <2>2, <2>3, TableRows
    <2>5. SumFunctionOnSet(c, Ids) = SumFunctionOnSet(Gains(c), Ids)
      BY <2>4, SumSame
    <2> QED BY <1>3, <2>5
  <1>18. SumFunctionOnSet(NewQty(1), 1..1) = total
    <2>1. DOMAIN NewQty(1) = 1..1 /\ NewQty(1)[1] = lots'[Len(lots) + 1].qty
      BY DEF NewQty
    <2>2. NewQty(1)[1] = total
      BY <1>6, <1>12, <2>1, Zenon
    <2>3. NewQty(1)[1] \in Int
      BY ONLY total \in Nat, <2>2
    <2> QED BY <2>1, <2>2, <2>3, SumShort
  <1>19. surplus' \in Int /\ surplus' = surplus + SumFunctionOnSet(Gains(c), Ids)
                                               + SumFunctionOnSet(NewQty(1), 1..1)
    <2>1. PICK s \in Int : s = surplus
      BY <1>1
    <2>2. s + (0 - total) + total = s
      BY ONLY s \in Int, total \in Nat
    <2> QED BY <1>1, <1>5, <1>17, <1>18, <2>1, <2>2
  <1>20. Books'
    BY <1>5, <1>14, <1>15, <1>16, <1>19, MoveKeeps
  <1> QED BY <1>1, <1>14, <1>20, GrownIds

-----------------------------------------------------------------------------
(* POST /invoices, one line: the lot's status and nothing else.            *)

LEMMA SellKeeps ==
    ASSUME Books, NEW l \in Ids, Sell(l)
    PROVE  Books' /\ Ids \subseteq Ids'
  <1>1. Tables /\ surplus \in Int
    BY DEF Books, Tables
  <1> DEFINE row == [lots[l] EXCEPT !.status = "SOLD"]
             c == [x \in Ids |-> 0]
  <1>2. /\ lots' = [lots EXCEPT ![l] = row] /\ lots[l].status = "IN STOCK"
        /\ net' = net /\ issues' = issues /\ surplus' = surplus
    BY DEF Sell, Sellable
  <1>3. ASSUME NEW x \in Ids
        PROVE  lots[x] \in Lot /\ lots[x].qty \in Nat /\ net[x] \in Int
    BY <1>1, RowFields, TableRows
  <1>4. row \in Lot /\ row.qty = lots[l].qty /\ row.status = "SOLD" /\ SameOrigin(row, lots[l])
    BY <1>3, StatusFields
  <1> HIDE DEF row
  <1>5. /\ lots' \in Seq(Lot) /\ Len(lots') = Len(lots)
        /\ lots'[l] = row /\ \A x \in Ids \ {l} : lots'[x] = lots[x]
    <2>1. lots \in Seq(Lot) /\ l \in DOMAIN lots
      BY <1>1 DEF Tables, Ids
    <2>2. /\ [lots EXCEPT ![l] = row] \in Seq(Lot) /\ Len([lots EXCEPT ![l] = row]) = Len(lots)
          /\ [lots EXCEPT ![l] = row][l] = row
          /\ \A x \in DOMAIN lots \ {l} : [lots EXCEPT ![l] = row][x] = lots[x]
      BY <1>4, <2>1, UpdateRow
    <2> QED BY <1>2, <2>2 DEF Ids
  <1>6. Grows(0)
    <2>1. \A x \in Ids : SameOrigin(lots'[x], lots[x])
      BY <1>4, <1>5 DEF SameOrigin
    <2>2. Len(lots) + 0 = Len(lots)
      BY <1>1, TableRows
    <2>3. \A k \in 1..0 : Added(Len(lots) + k)
      OBVIOUS
    <2> QED BY <1>1, <1>2, <1>5, <2>1, <2>2, <2>3 DEF Grows, Tables
  <1>7. NewCodes(0)
    BY DEF NewCodes
  <1>8. \A x \in Ids : c[x] = 0
    OBVIOUS
  <1> HIDE DEF c
  <1>9. Recorded(c)
    <2>1. ASSUME NEW x \in Ids
          PROVE  /\ c[x] \in Int /\ lots'[x].qty = lots[x].qty + c[x] /\ net'[x] = net[x] + c[x]
                 /\ lots'[x].status = "IN PROCESS" <=> lots[x].status = "IN PROCESS"
      <3>1. lots'[x].qty = lots[x].qty /\ net'[x] = net[x] /\ c[x] = 0
        BY <1>2, <1>4, <1>5, <1>8
      <3>2. lots'[x].status = "IN PROCESS" <=> lots[x].status = "IN PROCESS"
        BY <1>2, <1>4, <1>5
      <3>3. PICK q \in Nat, n \in Int : q = lots[x].qty /\ n = net[x]
        BY <1>3
      <3>4. q + 0 = q /\ n + 0 = n /\ 0 \in Int
        BY ONLY q \in Nat, n \in Int
      <3> QED BY <3>1, <3>2, <3>3, <3>4
    <2> QED BY <2>1 DEF Recorded
  <1>10. SumFunctionOnSet(Gains(c), Ids) = 0
    <2>1. IsFiniteSet(Ids) /\ \A x \in Ids : Gains(c)[x] = 0
      BY <1>1, <1>8, TableRows DEF Gains
    <2> QED BY <2>1, SumZero
  <1>11. SumFunctionOnSet(NewQty(0), 1..0) = 0
    <2>1. 1..0 = {}
      OBVIOUS
    <2> QED BY <2>1, SumEmpty, Zenon
  <1>12. surplus' \in Int /\ surplus' = surplus + SumFunctionOnSet(Gains(c), Ids)
                                               + SumFunctionOnSet(NewQty(0), 1..0)
    <2>1. PICK s \in Int : s = surplus
      BY <1>1
    <2>2. s + 0 + 0 = s
      BY ONLY s \in Int
    <2> QED BY <1>1, <1>2, <1>10, <1>11, <2>1, <2>2
  <1>13. Books'
    BY <1>2, <1>6, <1>7, <1>9, <1>12, MoveKeeps
  <1> QED BY <1>1, <1>6, <1>13, GrownIds

-----------------------------------------------------------------------------
(* Transfers.                                                              *)

(* A lot that is named and not divided only changes its place.             *)
MovedIs(r, l, given) ==
    /\ r \in Lot /\ r.status = lots[l].status /\ SameOrigin(r, lots[l])
    /\ r.qty = lots[l].qty - given
PartIs(r, l, q) ==
    /\ r \in Lot /\ r.status = "IN STOCK" /\ r.qty = q /\ r.entry = 0
    /\ r.kind = lots[l].kind /\ r.parent = l /\ r.root = RootOf(l)
    /\ r.level = lots[l].level + 1 /\ r.sibling = 0

LEMMA MovedFields ==
    ASSUME Tables, NEW req, Named(req), NEW dest \in Places, NEW l \in Ids
    PROVE  MovedIs(Moved(req, dest, l), l, IF l \in Divided(req) THEN req[l] ELSE 0)
  <1>1. lots[l] \in Lot
    BY RowFields
  <1>2. PICK q \in Nat : q = lots[l].qty
    BY RowFields
  <1>3. CASE l \in Divided(req)
    <2>1. l \in DOMAIN req /\ req[l] < q
      BY <1>2, <1>3 DEF Divided, PartMoves
    <2>2. PICK a \in Nat : a = req[l]
      BY <2>1 DEF Named
    <2>3. q - a \in Nat
      BY <2>1, <2>2
    <2>4. Moved(req, dest, l) = [lots[l] EXCEPT !.qty = q - a]
      BY <1>2, <1>3, <2>1, <2>2 DEF Moved
    <2>5. /\ [lots[l] EXCEPT !.qty = q - a] \in Lot
          /\ [lots[l] EXCEPT !.qty = q - a].qty = q - a
          /\ [lots[l] EXCEPT !.qty = q - a].status = lots[l].status
          /\ SameOrigin([lots[l] EXCEPT !.qty = q - a], lots[l])
      BY <1>1, <2>3, QtyFields
    <2> QED BY <1>2, <1>3, <2>2, <2>4, <2>5 DEF MovedIs
  <1>4. CASE l \notin Divided(req)
    <2>1. q - 0 = q
      BY ONLY q \in Nat
    <2>2. CASE l \notin DOMAIN req
      <3>1. Moved(req, dest, l) = lots[l]
        BY <2>2 DEF Moved
      <3> QED BY <1>1, <1>2, <1>4, <2>1, <3>1 DEF MovedIs, SameOrigin
    <2>3. CASE l \in DOMAIN req
      <3>1. Moved(req, dest, l) = [lots[l] EXCEPT !.place = dest]
        BY <1>4, <2>3 DEF Moved
      <3>2. /\ [lots[l] EXCEPT !.place = dest] \in Lot
            /\ [lots[l] EXCEPT !.place = dest].qty = lots[l].qty
            /\ [lots[l] EXCEPT !.place = dest].status = lots[l].status
            /\ SameOrigin([lots[l] EXCEPT !.place = dest], lots[l])
        BY <1>1, PlaceFields
      <3> QED BY <1>2, <1>4, <2>1, <3>1, <3>2 DEF MovedIs
    <2> QED BY <2>2, <2>3
  <1> QED BY <1>3, <1>4

LEMMA PartFields ==
    ASSUME Tables, NEW dest \in Places, NEW l \in Ids, NEW q \in Nat
    PROVE  PartIs([Piece(l, q) EXCEPT !.place = dest], l, q)
  <1> DEFINE p == Piece(l, q)
  <1>1. l \in Nat /\ lots[l] \in Lot
    BY RowFields
  <1>2. /\ p \in Lot /\ p.kind = lots[l].kind /\ p.qty = q /\ p.status = "IN STOCK"
        /\ p.parent = l /\ p.root = RootOf(l) /\ p.level = lots[l].level + 1
        /\ p.sibling = 0 /\ p.entry = 0
    BY <1>1, PieceFields
  <1> HIDE DEF p
  <1>3. /\ [p EXCEPT !.place = dest] \in Lot /\ [p EXCEPT !.place = dest].qty = p.qty
        /\ [p EXCEPT !.place = dest].status = p.status
        /\ SameOrigin([p EXCEPT !.place = dest], p)
    BY <1>2, PlaceFields
  <1>4. PartIs([p EXCEPT !.place = dest], l, q)
    BY <1>2, <1>3 DEF PartIs, SameOrigin
  <1> QED BY <1>4 DEF p

(* What the lots that were there lose, and what the parts hold.            *)
LEMMA PartsTaken ==
    ASSUME Tables, NEW req, Named(req),
           \A l \in DOMAIN req : Transferable(l),
           Issued,
           NEW c, \A x \in Ids : c[x] = IF x \in Divided(req) THEN 0 - req[x] ELSE 0
    PROVE  /\ SumFunctionOnSet(req, Divided(req)) \in Int /\ Taken(req) \in Int
           /\ SumFunctionOnSet(Gains(c), Ids) = Taken(req) - SumFunctionOnSet(req, Divided(req))
  <1> DEFINE D == Divided(req)
             P == {l \in D : lots[l].status = "IN PROCESS"}
             E == D \ P
             h == [x \in Ids |-> IF x \in E THEN req[x] ELSE 0]
             g == Gains(c)
  <1>1. IsFiniteSet(Ids)
    BY TableRows
  <1>2. D \subseteq DOMAIN req /\ D \subseteq Ids
    BY DEF Divided, Named
  <1>3. IsFiniteSet(D)
    BY <1>1, <1>2, FS_Subset
  <1>4. P \in SUBSET D /\ E = D \ P /\ E \in SUBSET Ids
    BY <1>2
  <1>5. \A x \in D : req[x] \in Int
    BY <1>2 DEF Named
  <1>6. Taken(req) = SumFunctionOnSet(req, P)
    BY DEF Taken
  <1>7. ASSUME NEW x \in Ids
        PROVE  h[x] \in Int /\ g[x] = -h[x]
    <2>1. h[x] \in Int
      <3>1. 0 \in Int
        OBVIOUS
      <3>2. x \in E => req[x] \in Int
        BY <1>5
      <3> HIDE DEF E
      <3>3. h[x] = IF x \in E THEN req[x] ELSE 0
        OBVIOUS
      <3> QED BY ONLY <3>1, <3>2, <3>3
    <2>2. CASE x \in E
      <3>1. lots[x].status # "IN PROCESS" /\ x \in D
        BY <2>2
      <3>2. OpenIssues(x) = {}
        BY <3>1 DEF Issued
      <3>3. g[x] = 0 - req[x]
        BY <3>1, <3>2 DEF Gains
      <3>4. PICK a \in Int : a = req[x]
        BY <1>5, <3>1
      <3>5. 0 - a = -a
        BY ONLY a \in Int
      <3> QED BY <2>1, <2>2, <3>3, <3>4, <3>5
    <2>3. CASE x \in P
      <3>1. lots[x].status = "IN PROCESS" /\ x \in DOMAIN req
        BY <1>2, <2>3
      <3>2. lots[x].kind # "growth_run"
        BY <3>1 DEF Transferable
      <3>3. OpenIssues(x) # {}
        BY <3>1 DEF Issued
      <3>4. g[x] = 0
        BY <3>2, <3>3 DEF Gains
      <3>5. h[x] = 0
        BY <2>3
      <3>6. -h[x] = h[x]
        BY <2>1, <3>5, MinusZero
      <3> QED BY <2>1, <3>4, <3>5, <3>6
    <2>4. CASE x \notin D
      <3>1. c[x] = 0 /\ h[x] = 0
        BY <2>4
      <3>2. g[x] = 0
        BY <3>1 DEF Gains
      <3>3. -h[x] = h[x]
        BY <2>1, <3>1, MinusZero
      <3> QED BY <2>1, <3>1, <3>2, <3>3
    <2> QED BY <2>2, <2>3, <2>4
  <1>8. /\ \A x \in E : req[x] = h[x]
        /\ \A x \in Ids \ E : h[x] = 0
    BY <1>4
  <1> HIDE DEF D, P, E, h, g
  <1>9. \A x \in Ids : h[x] \in Int /\ g[x] = -h[x]
    BY <1>7
  <1>10. SumFunctionOnSet(req, E) = SumFunctionOnSet(h, Ids)
    <2>1. \A x \in Ids : h[x] \in Int
      BY <1>9
    <2> QED BY <1>1, <1>4, <1>8, <2>1, SumSome
  <1>11. SumFunctionOnSet(g, Ids) = 0 - SumFunctionOnSet(h, Ids)
    BY <1>1, <1>9, SumMinus
  <1>12. SumFunctionOnSet(req, D) = SumFunctionOnSet(req, P) + SumFunctionOnSet(req, D \ P)
    BY <1>3, <1>4, <1>5, SumSplit
  <1>13. /\ SumFunctionOnSet(req, D) \in Int /\ SumFunctionOnSet(req, P) \in Int
         /\ SumFunctionOnSet(req, E) \in Int
    <2>1. IsFiniteSet(P) /\ IsFiniteSet(E)
      BY <1>3, <1>4, FS_Subset
    <2>2. (\A x \in P : req[x] \in Int) /\ (\A x \in E : req[x] \in Int)
      BY <1>4, <1>5
    <2> QED BY <1>3, <1>5, <2>1, <2>2, SumInt
  <1>14. PICK a \in Int, b \in Int : a = SumFunctionOnSet(req, P) /\ b = SumFunctionOnSet(req, E)
    BY <1>13
  <1>15. 0 - b = a - (a + b)
    BY ONLY a \in Int, b \in Int
  <1>16. SumFunctionOnSet(g, Ids) = SumFunctionOnSet(req, P) - SumFunctionOnSet(req, D)
    BY <1>4, <1>10, <1>11, <1>12, <1>14, <1>15
  <1> QED BY <1>6, <1>13, <1>16 DEF D, g

LEMMA MoveLotsKeeps ==
    ASSUME Books, NEW req, Named(req), NEW dest \in Places, MoveLots(req, dest),
           \A l \in DOMAIN req : Transferable(l),
           issues' = issues, surplus' = surplus + Taken(req)
    PROVE  Books' /\ Ids \subseteq Ids'
  <1>1. Tables /\ Issued /\ surplus \in Int
    BY DEF Books, Tables
  <1> DEFINE D == Divided(req)
             oldLots == [l \in Ids |-> Moved(req, dest, l)]
             oldNet == [l \in Ids |-> IF l \in D THEN net[l] - req[l] ELSE net[l]]
             c == [x \in Ids |-> IF x \in D THEN 0 - req[x] ELSE 0]
  <1>2. D \subseteq Ids /\ \A x \in D : req[x] \in Nat
    BY DEF Divided, Named
  <1>3. IsFiniteSet(D) /\ IsFiniteSet(Ids)
    BY <1>1, <1>2, TableRows, FS_Subset
  <1>4. PICK m \in Nat : m = Cardinality(D)
    BY <1>3, FS_CardinalityType
  <1>5. PICK parts \in Orders(D) :
           /\ lots' = oldLots \o [k \in DOMAIN parts |->
                                     [Piece(parts[k], req[parts[k]]) EXCEPT !.place = dest]]
           /\ net' = oldNet \o [k \in DOMAIN parts |-> req[parts[k]]]
    BY DEF MoveLots
  <1>6. parts \in Bijection(1..m, D)
    BY <1>4, <1>5 DEF Orders
  <1>7. DOMAIN parts = 1..m /\ \A k \in 1..m : parts[k] \in D
    BY <1>6 DEF Bijection, Injection, Surjection
  <1> DEFINE newLots == [k \in 1..m |-> [Piece(parts[k], req[parts[k]]) EXCEPT !.place = dest]]
             newNet == [k \in 1..m |-> req[parts[k]]]
  <1>8. lots' = oldLots \o newLots /\ net' = oldNet \o newNet
    BY <1>5, <1>7
  <1>9. ASSUME NEW x \in Ids
        PROVE  MovedIs(Moved(req, dest, x), x, IF x \in D THEN req[x] ELSE 0)
    BY <1>1, MovedFields
  <1>10. ASSUME NEW k \in 1..m
         PROVE  PartIs([Piece(parts[k], req[parts[k]]) EXCEPT !.place = dest],
                       parts[k], req[parts[k]])
    <2>1. PICK l \in Ids : l = parts[k] /\ l \in D
      BY <1>2, <1>7
    <2>2. PICK q \in Nat : q = req[l]
      BY <1>2, <2>1
    <2>3. PartIs([Piece(l, q) EXCEPT !.place = dest], l, q)
      BY <1>1, PartFields
    <2> QED BY <2>1, <2>2, <2>3
  <1>11. oldLots \in [Ids -> Lot] /\ newLots \in [1..m -> Lot]
    <2>1. ASSUME NEW x \in Ids
          PROVE  Moved(req, dest, x) \in Lot
      BY <1>9 DEF MovedIs
    <2>2. ASSUME NEW k \in 1..m
          PROVE  [Piece(parts[k], req[parts[k]]) EXCEPT !.place = dest] \in Lot
      BY <1>10 DEF PartIs
    <2> QED BY <2>1, <2>2
  <1>12. oldNet \in Nets /\ newNet \in MoreNets(m)
    <2>1. ASSUME NEW x \in Ids
          PROVE  oldNet[x] \in Int
      <3>1. PICK n \in Int : n = net[x]
        BY <1>1, TableRows
      <3>2. CASE x \in D
        <4>1. PICK a \in Nat : a = req[x]
          BY <1>2, <3>2
        <4>2. n - a \in Int
          BY ONLY n \in Int, a \in Nat
        <4> QED BY <3>1, <3>2, <4>1, <4>2
      <3>3. CASE x \notin D
        BY <3>1, <3>3
      <3> QED BY <3>2, <3>3
    <2>2. \A k \in 1..m : newNet[k] \in Int
      BY <1>2, <1>7
    <2>3. DOMAIN oldNet = Ids /\ DOMAIN newNet = 1..m
      OBVIOUS
    <2>4. oldNet = [x \in Ids |-> oldNet[x]] /\ newNet = [k \in 1..m |-> newNet[k]]
      OBVIOUS
    <2> HIDE DEF oldNet, newNet
    <2> QED BY <2>1, <2>2, <2>4 DEF Nets, MoreNets
  <1>13. /\ \A x \in Ids : /\ oldLots[x] = Moved(req, dest, x)
                           /\ oldNet[x] = IF x \in D THEN net[x] - req[x] ELSE net[x]
                           /\ c[x] = IF x \in D THEN 0 - req[x] ELSE 0
         /\ \A k \in 1..m :
               /\ newLots[k] = [Piece(parts[k], req[parts[k]]) EXCEPT !.place = dest]
               /\ newNet[k] = req[parts[k]]
    OBVIOUS
  <1> HIDE DEF D, oldLots, newLots, oldNet, newNet, c
  <1>14. /\ lots' \in Seq(Lot) /\ Len(lots') = Len(lots) + m
         /\ \A x \in Ids : lots'[x] = oldLots[x]
         /\ \A k \in 1..m : lots'[Len(lots) + k] = newLots[k]
    BY <1>1, <1>8, <1>11, WrittenLots
  <1>15. /\ net' \in Seq(Int) /\ Len(net') = Len(lots) + m
         /\ \A x \in Ids : net'[x] = oldNet[x]
         /\ \A k \in 1..m : net'[Len(lots) + k] = newNet[k]
    <2>1. WroteNet(oldNet, m, newNet)
      BY ONLY <1>1, <1>8, <1>12, m \in Nat, WrittenNet
    <2> QED BY <2>1 DEF WroteNet
  <1>16. ASSUME NEW k \in 1..m
         PROVE  /\ PartIs(lots'[Len(lots) + k], parts[k], req[parts[k]])
                /\ net'[Len(lots) + k] = req[parts[k]] /\ req[parts[k]] \in Nat
    <2>1. lots'[Len(lots) + k] = newLots[k] /\ net'[Len(lots) + k] = newNet[k]
      BY <1>14, <1>15
    <2>2. newNet[k] = req[parts[k]] /\ req[parts[k]] \in Nat
      BY <1>2, <1>7, <1>13
    <2>3. newLots[k] = [Piece(parts[k], req[parts[k]]) EXCEPT !.place = dest]
      BY <1>13
    <2>4. PartIs(newLots[k], parts[k], req[parts[k]])
      BY <1>10, <2>3
    <2> QED BY <2>1, <2>2, <2>4
  <1>17. Grows(m)
    <2>1. \A x \in Ids : SameOrigin(lots'[x], lots[x])
      BY <1>9, <1>13, <1>14 DEF MovedIs
    <2>2. ASSUME NEW k \in 1..m
          PROVE  Added(Len(lots) + k)
      <3>1. PICK id : id = Len(lots) + k
        OBVIOUS
      <3>2. PICK l \in Ids : l = parts[k]
        BY <1>2, <1>7
      <3>3. PICK q \in Nat : q = req[parts[k]]
        BY <1>16
      <3>4. PartIs(lots'[id], l, q) /\ net'[id] = q
        BY <1>16, <3>1, <3>2, <3>3
      <3>5. Below(id, l)
        BY <3>4 DEF PartIs, Below
      <3>6. q = 0 + q
        BY ONLY q \in Nat
      <3>7. Added(id)
        BY <3>4, <3>5, <3>6 DEF PartIs, Added
      <3> QED BY <3>1, <3>7
    <2> QED BY <1>14, <1>15, <2>1, <2>2 DEF Grows
  <1>18. NewCodes(m)
    BY <1>16 DEF NewCodes, PartIs
  <1>19. Recorded(c)
    <2>1. ASSUME NEW x \in Ids
          PROVE  /\ c[x] \in Int /\ lots'[x].qty = lots[x].qty + c[x] /\ net'[x] = net[x] + c[x]
                 /\ lots'[x].status = lots[x].status
      <3>1. PICK q \in Nat, n \in Int : q = lots[x].qty /\ n = net[x]
        BY <1>1, RowFields, TableRows
      <3>2. MovedIs(lots'[x], x, IF x \in D THEN req[x] ELSE 0)
        BY <1>9, <1>13, <1>14
      <3>3. CASE x \in D
        <4>1. PICK a \in Nat : a = req[x]
          BY <1>2, <3>3
        <4>2. lots'[x].qty = q - a /\ lots'[x].status = lots[x].status
          BY <3>1, <3>2, <3>3, <4>1 DEF MovedIs
        <4>3. net'[x] = n - a /\ c[x] = 0 - a
          BY <1>13, <1>15, <3>1, <3>3, <4>1
        <4>4. q - a = q + (0 - a) /\ n - a = n + (0 - a) /\ 0 - a \in Int
          BY ONLY q \in Nat, n \in Int, a \in Nat
        <4> QED BY <3>1, <4>2, <4>3, <4>4
      <3>4. CASE x \notin D
        <4>1. lots'[x].qty = q - 0 /\ lots'[x].status = lots[x].status
          BY <3>1, <3>2, <3>4 DEF MovedIs
        <4>2. net'[x] = n /\ c[x] = 0
          BY <1>13, <1>15, <3>1, <3>4
        <4>3. q - 0 = q + 0 /\ n = n + 0 /\ 0 \in Int
          BY ONLY q \in Nat, n \in Int
        <4> QED BY <3>1, <4>1, <4>2, <4>3
      <3> QED BY <3>3, <3>4
    <2> QED BY <2>1 DEF Recorded
  <1>20. /\ SumFunctionOnSet(req, D) \in Int /\ Taken(req) \in Int
         /\ SumFunctionOnSet(Gains(c), Ids) = Taken(req) - SumFunctionOnSet(req, D)
    <2>1. \A x \in Ids : c[x] = IF x \in Divided(req) THEN 0 - req[x] ELSE 0
      BY <1>13 DEF D
    <2> QED BY <1>1, <2>1, PartsTaken DEF D
  <1>21. SumFunctionOnSet(NewQty(m), 1..m) = SumFunctionOnSet(req, D)
    <2>1. ASSUME NEW k \in 1..m
          PROVE  newNet[k] \in Int /\ lots'[Len(lots) + k].qty = newNet[k] /\ req[parts[k]] = newNet[k]
      <3>1. lots'[Len(lots) + k].qty = req[parts[k]]
        BY <1>16 DEF PartIs
      <3>2. req[parts[k]] \in Int
        BY <1>16
      <3>3. newNet[k] = req[parts[k]]
        BY <1>13
      <3> QED BY ONLY <3>1, <3>2, <3>3
    <2>2. SumFunctionOnSet(NewQty(m), 1..m) = SumFunctionOnSet(newNet, 1..m)
      BY <2>1, QtyOf
    <2>3. SumFunctionOnSet(req, D) = SumFunctionOnSet(newNet, 1..m)
      <3> DEFINE R == 1..m
      <3>1. IsFiniteSet(R)
        BY FS_Interval
      <3>2. parts \in Bijection(R, D)
        BY <1>6
      <3>3. \A x \in R : newNet[x] \in Int /\ req[parts[x]] = newNet[x]
        BY <2>1
      <3> HIDE DEF R
      <3>4. SumFunctionOnSet(req, D) = SumFunctionOnSet(newNet, R)
        BY <3>1, <3>2, <3>3, SumBijection
      <3> QED BY <3>4 DEF R
    <2> QED BY <2>2, <2>3
  <1>22. surplus' \in Int /\ surplus' = surplus + SumFunctionOnSet(Gains(c), Ids)
                                               + SumFunctionOnSet(NewQty(m), 1..m)
    <2>1. PICK s \in Int, t \in Int, a \in Int :
             s = surplus /\ t = Taken(req) /\ a = SumFunctionOnSet(req, D)
      BY <1>1, <1>20
    <2>2. s + (t - a) + a = s + t /\ s + t \in Int
      BY ONLY s \in Int, t \in Int, a \in Int
    <2> QED BY <1>20, <1>21, <2>1, <2>2
  <1>23. Books'
    BY <1>17, <1>18, <1>19, <1>22, MoveKeeps
  <1> QED BY <1>1, <1>17, <1>23, GrownIds

LEMMA TransferNowKeeps ==
    ASSUME Books, NEW req, Named(req), NEW dest \in Places, TransferNow(req, dest)
    PROVE  Books' /\ Ids \subseteq Ids'
  <1>1. /\ MoveLots(req, dest) /\ issues' = issues /\ surplus' = surplus
        /\ \A l \in DOMAIN req : lots[l].status = "IN STOCK"
    BY DEF TransferNow
  <1>2. \A l \in DOMAIN req : Transferable(l)
    BY <1>1 DEF Transferable
  <1>3. Taken(req) = 0
    <2>1. {l \in Divided(req) : lots[l].status = "IN PROCESS"} = {}
      BY <1>1 DEF Divided
    <2> QED BY <2>1, SumEmpty, Zenon DEF Taken
  <1>4. surplus' = surplus + Taken(req)
    <2>1. PICK s \in Int : s = surplus
      BY DEF Books, Tables
    <2>2. s = s + 0
      BY ONLY s \in Int
    <2> QED BY <1>1, <1>3, <2>1, <2>2
  <1> QED BY <1>1, <1>2, <1>4, MoveLotsKeeps

-----------------------------------------------------------------------------
(* The issue of a lot to a process, and its return.                        *)

(* The rows after one is rewritten that keeps its quantity and origin.     *)
LEMMA SetRow ==
    ASSUME Tables, NEW l \in Ids, NEW row \in Lot, row.qty = lots[l].qty,
           SameOrigin(row, lots[l]), lots' = [lots EXCEPT ![l] = row], net' = net
    PROVE  /\ Grows(0) /\ NewCodes(0)
           /\ lots'[l] = row
           /\ \A x \in Ids \ {l} : lots'[x] = lots[x]
           /\ \A x \in Ids : lots'[x].qty = lots[x].qty
  <1>4. /\ lots' \in Seq(Lot) /\ Len(lots') = Len(lots)
        /\ lots'[l] = row /\ \A x \in Ids \ {l} : lots'[x] = lots[x]
    <2>1. lots \in Seq(Lot) /\ l \in DOMAIN lots
      BY DEF Tables, Ids
    <2>2. /\ [lots EXCEPT ![l] = row] \in Seq(Lot) /\ Len([lots EXCEPT ![l] = row]) = Len(lots)
          /\ [lots EXCEPT ![l] = row][l] = row
          /\ \A x \in DOMAIN lots \ {l} : [lots EXCEPT ![l] = row][x] = lots[x]
      BY <2>1, UpdateRow
    <2> QED BY <2>2 DEF Ids
  <1>5. \A x \in Ids : SameOrigin(lots'[x], lots[x])
    BY <1>4 DEF SameOrigin
  <1>6. Len(lots) + 0 = Len(lots)
    BY TableRows
  <1>7. \A k \in 1..0 : Added(Len(lots) + k)
    OBVIOUS
  <1>8. Grows(0)
    BY <1>4, <1>5, <1>6, <1>7 DEF Grows, Tables
  <1>9. NewCodes(0)
    BY DEF NewCodes
  <1> QED BY <1>4, <1>8, <1>9

(* Stock is conserved when no lot accounts for more or less than before.   *)
LEMMA SameHeld ==
    ASSUME Tables, Issued, StockConserved, Tables', Issued', Grows(0),
           \A i \in DOMAIN issues' : issues'[i].lot \in Ids,
           \A l \in Ids : Held(l)' = Held(l),
           surplus' = surplus
    PROVE  StockConserved'
  <1> DEFINE d == [l \in Ids |-> 0]
  <1>1. \A l \in Ids : d[l] = 0
    OBVIOUS
  <1>2. IsFiniteSet(Ids)
    BY TableRows
  <1> HIDE DEF d
  <1>3. ASSUME NEW l \in Ids
        PROVE  d[l] \in Int /\ Held(l)' = Held(l) + d[l]
    <2>1. Held(l) \in Int
      BY HeldIs DEF HeldRight
    <2> QED BY <1>1, <2>1
  <1>4. SumFunctionOnSet(d, Ids) = 0
    BY <1>1, <1>2, SumZero
  <1>5. SumFunctionOnSet(<<>>, 1..0) = 0
    <2>1. 1..0 = {}
      OBVIOUS
    <2> QED BY <2>1, SumEmpty, Zenon
  <1>6. surplus' = surplus + SumFunctionOnSet(d, Ids) + SumFunctionOnSet(<<>>, 1..0)
    <2>1. PICK s \in Int : s = surplus
      BY DEF Tables
    <2>2. s = s + 0 + 0
      BY ONLY s \in Int
    <2> QED BY <1>4, <1>5, <2>1, <2>2
  <1>7. \A k \in 1..0 : <<>>[k] = lots'[Len(lots) + k].qty
    OBVIOUS
  <1>8. PICK q : q = <<>>
    OBVIOUS
  <1>9. surplus' = surplus + SumFunctionOnSet(d, Ids) + SumFunctionOnSet(q, 1..0)
    BY <1>6, <1>8
  <1>10. \A k \in 1..0 : q[k] = lots'[Len(lots) + k].qty
    OBVIOUS
  <1>11. 0 \in Nat
    OBVIOUS
  <1> QED BY <1>3, <1>9, <1>10, <1>11, GrownHeld

(* INSERT INTO lot_process_issues.                                         *)
LEMMA IssueInserted ==
    ASSUME Tables, NEW row \in Issue, issues' = Append(issues, row)
    PROVE  issues' \in Seq(Issue) /\ \E id : IssueAdded(id, row)
  <1>1. PICK id : id = Len(issues) + 1
    OBVIOUS
  <1>2. issues \in Seq(Issue)
    BY DEF Tables
  <1>3. id \notin DOMAIN issues
    BY <1>1, <1>2
  <1>4. issues' \in Seq(Issue) /\ IssueAdded(id, row)
    BY <1>1, <1>2, <1>3, AppendRow DEF IssueAdded
  <1> QED BY <1>4

(* The whole lot, or a biscuit, goes into the process.                     *)
LEMMA IssueLotKeeps ==
    ASSUME Books, NEW l \in Ids, NEW n \in Nat, n > 0, IssueLot(l, n)
    PROVE  Books' /\ Ids \subseteq Ids'
  <1>1. Tables /\ Issued /\ Lineage /\ Codes /\ MovementsExplainStock /\ StockConserved
    BY DEF Books
  <1>2. /\ lots' = [lots EXCEPT ![l].status = "IN PROCESS"] /\ net' = net /\ surplus' = surplus
        /\ lots[l].status = "IN STOCK"
    BY DEF IssueLot
  <1>3. PICK q \in Nat : q = lots[l].qty
    BY <1>1, RowFields
  <1>22. n = q \/ lots[l].kind = "growth_run"
    BY <1>3 DEF IssueLot
  <1>4. PICK row : row = [source |-> l, lot |-> l, issued |-> n, remaining |-> n]
    OBVIOUS
  <1>5. issues' = Append(issues, row)
    BY <1>4 DEF IssueLot
  <1>6. row \in Issue /\ row.lot = l /\ row.remaining = n /\ row.source = l
    <2>1. l \in Nat
      BY <1>1, RowFields
    <2> QED BY <1>4, <2>1 DEF Issue
  <1>7. PICK id : issues' \in Seq(Issue) /\ IssueAdded(id, row)
    BY <1>1, <1>5, <1>6, IssueInserted
  <1>8. /\ issues' \in Seq(Issue) /\ DOMAIN issues' = DOMAIN issues \cup {id}
        /\ issues'[id] = row /\ \A i \in DOMAIN issues : issues'[i] = issues[i]
        /\ id \notin DOMAIN issues
    BY <1>7 DEF IssueAdded
  <1>9. /\ Grows(0) /\ NewCodes(0) /\ lots'[l].status = "IN PROCESS"
        /\ \A x \in Ids \ {l} : lots'[x] = lots[x]
        /\ \A x \in Ids : lots'[x].qty = lots[x].qty
    <2>1. PICK lot : lot = [lots[l] EXCEPT !.status = "IN PROCESS"]
      OBVIOUS
    <2>2. /\ lot \in Lot /\ lot.qty = lots[l].qty /\ lot.status = "IN PROCESS"
          /\ SameOrigin(lot, lots[l])
      BY <1>1, <2>1, TableRows, StatusFields
    <2> QED BY <1>1, <1>2, <2>1, <2>2, SetRow
  <1>10. Ids' = Ids
    BY <1>1, <1>2 DEF Ids
  <1>11. OpenIssues(l) = {}
    BY <1>1, <1>2 DEF Issued
  <1>12. \A x \in Ids \ {l} : OpenIssues(x)' = OpenIssues(x)
    BY <1>6, <1>8 DEF OpenIssues
  <1>13. OpenIssues(l)' = {id}
    <2>1. \A i \in DOMAIN issues : ~(issues[i].lot = l /\ issues[i].remaining > 0)
      BY <1>11 DEF OpenIssues
    <2>2. issues'[id].lot = l /\ issues'[id].remaining > 0
      BY <1>6, <1>8
    <2> QED BY <1>8, <2>1, <2>2 DEF OpenIssues
  <1>14. \A i \in DOMAIN issues' : issues'[i].lot \in Ids /\ issues'[i].source \in Ids
    BY <1>1, <1>6, <1>8 DEF Issued
  <1>15. Issued'
    <2>1. ASSUME NEW x \in Ids
          PROVE  /\ lots'[x].status = "IN PROCESS" <=> OpenIssues(x)' # {}
                 /\ \A i, j \in OpenIssues(x)' : i = j
      <3>1. CASE x = l
        BY <1>9, <1>13, <3>1
      <3>2. CASE x # l
        BY <1>1, <1>9, <1>12, <3>2 DEF Issued
      <3> QED BY <3>1, <3>2
    <2> QED BY <1>10, <1>14, <2>1 DEF Issued
  <1>16. Tables'
    <2>1. surplus' \in Int
      BY <1>1, <1>2 DEF Tables
    <2>2. 0 \in Nat
      OBVIOUS
    <2> QED BY <1>1, <1>8, <1>9, <2>1, <2>2, GrownTables
  <1>17. MovementsExplainStock'
    <2>1. ASSUME NEW x \in Ids, OpenOnly(x)'
          PROVE  /\ OpenOnly(x)
                 /\ (lots'[x].qty + Away(x)') - (lots[x].qty + Away(x)) = net'[x] - net[x]
      <3>1. OpenOnly(x)
        BY <1>8, <2>1 DEF OpenOnly
      <3>2. PICK a \in Nat, b \in Int, w \in Int : a = lots[x].qty /\ b = net[x] /\ w = Away(x)
        BY <1>1, RowFields, TableRows, AwayIs DEF AwayTold, AwayRight
      <3>3. Away(x)' = Away(x)
        <4>1. row.source # x \/ row.lot = x
          BY <1>6
        <4> QED BY <1>1, <1>7, <1>16, <4>1, AwayAdded
      <3>4. (a + w) - (a + w) = 0 /\ b - b = 0
        BY ONLY a \in Nat, b \in Int, w \in Int
      <3> QED BY <1>2, <1>9, <3>1, <3>2, <3>3, <3>4
    <2>2. 0 \in Nat
      OBVIOUS
    <2> QED BY <1>1, <1>9, <1>14, <1>16, <2>1, <2>2, GrownExplained
  <1>21. (Tables /\ Issued => \A x \in Ids : HeldRight(x))'
    BY HeldIs, PTL
  <1>18. ASSUME NEW x \in Ids
         PROVE  Held(x)' = Held(x)
    <2>1. HeldRight(x)
      BY <1>1, HeldIs
    <2>3. HeldRight(x)'
      BY <1>10, <1>15, <1>16, <1>21
    <2>4. lots'[x].kind = lots[x].kind
      BY <1>9 DEF Grows, SameOrigin
    <2>5. CASE x = l
      <3>1. Held(x) = q
        BY <1>3, <1>11, <2>1, <2>5 DEF HeldRight
      <3>2. issues'[id].remaining = n
        BY <1>6, <1>8
      <3>3. CASE lots[l].kind = "growth_run"
        <4>1. Held(x)' = lots'[l].qty
          BY <2>3, <2>4, <2>5, <3>3 DEF HeldRight
        <4> QED BY <1>3, <1>9, <3>1, <4>1
      <3>4. CASE lots[l].kind # "growth_run"
        <4>1. Held(x)' = n
          BY <1>13, <2>3, <2>4, <2>5, <3>2, <3>4 DEF HeldRight
        <4> QED BY <1>22, <3>1, <3>4, <4>1
      <3> QED BY <3>3, <3>4
    <2>6. CASE x # l
      <3>1. OpenIssues(x)' = OpenIssues(x) /\ lots'[x] = lots[x]
        BY <1>9, <1>12, <2>6
      <3>2. CASE OpenIssues(x) = {} \/ lots[x].kind = "growth_run"
        BY <2>1, <2>3, <3>1, <3>2 DEF HeldRight
      <3>3. CASE OpenIssues(x) # {} /\ lots[x].kind # "growth_run"
        <4>1. PICK i \in OpenIssues(x) : TRUE
          BY <3>3
        <4>2. issues'[i].remaining = issues[i].remaining
          BY <1>8 DEF OpenIssues
        <4> QED BY <2>1, <2>3, <3>1, <3>3, <4>1, <4>2 DEF HeldRight
      <3> QED BY <3>2, <3>3
    <2> QED BY <2>5, <2>6
  <1>19. StockConserved'
    BY <1>1, <1>2, <1>9, <1>14, <1>15, <1>16, <1>18, SameHeld
  <1>20. Lineage' /\ Codes'
    <2>1. 0 \in Nat
      OBVIOUS
    <2> QED BY <1>1, <1>9, <2>1, GrownLineage, GrownCodes
  <1> QED BY <1>10, <1>15, <1>16, <1>17, <1>19, <1>20 DEF Books

(* The issues after q is returned of one, of lot l.                        *)
IssueReturned(i, q, l) ==
    /\ issues' \in Seq(Issue) /\ \A j \in DOMAIN issues' : issues'[j].lot \in Ids
    /\ IssuesKept
    /\ issues[i].remaining \in Nat /\ issues'[i].remaining = issues[i].remaining - q
    /\ \A j \in DOMAIN issues \ {i} : issues'[j] = issues[j]
    /\ OpenIssues(l) = {i}
    /\ q = issues[i].remaining => OpenIssues(l)' = {}
    /\ q # issues[i].remaining => OpenIssues(l)' = {i}
    /\ \A x \in Ids \ {l} : OpenIssues(x)' = OpenIssues(x)
    /\ \A x : OpenOnly(x)' => OpenOnly(x)
    /\ OpenOnly(l)' => q # issues[i].remaining

LEMMA ReturnedIssues ==
    ASSUME Tables, Issued, NEW i \in DOMAIN issues, NEW q \in Nat, q > 0, q <= issues[i].remaining,
           issues' = [issues EXCEPT ![i].remaining = @ - q],
           NEW l, l = issues[i].lot
    PROVE  IssueReturned(i, q, l)
  <1>1. PICK n \in Nat : n = issues[i].remaining
    BY TableRows, IssueFields
  <1>2. n - q \in Nat /\ n > 0 /\ (n - q > 0 <=> q # n)
    BY ONLY <1>1, q \in Nat, q > 0, n \in Nat, q <= issues[i].remaining
  <1>3. PICK row : row = [issues[i] EXCEPT !.remaining = n - q]
    OBVIOUS
  <1>4. /\ row \in Issue /\ row.lot = l /\ row.remaining = n - q
        /\ row.source = issues[i].source /\ row.issued = issues[i].issued
    <2>1. issues[i] \in Issue
      BY TableRows
    <2> QED BY <1>2, <1>3, <2>1 DEF Issue
  <1>5. /\ issues' \in Seq(Issue) /\ DOMAIN issues' = DOMAIN issues
        /\ issues'[i] = row /\ \A j \in DOMAIN issues \ {i} : issues'[j] = issues[j]
    <2>1. issues \in Seq(Issue)
      BY DEF Tables
    <2>2. issues' = [issues EXCEPT ![i] = row]
      BY <1>1, <1>3
    <2> QED BY <1>4, <2>1, <2>2, UpdateRow
  <1>6. \A j \in DOMAIN issues : issues'[j].lot = issues[j].lot
    BY <1>4, <1>5
  <1>16. IssuesKept
    BY <1>4, <1>5 DEF IssuesKept
  <1>7. l \in Ids /\ \A j \in DOMAIN issues' : issues'[j].lot \in Ids
    BY <1>5, <1>6 DEF Issued
  <1>8. OpenIssues(l) = {i}
    <2>1. i \in OpenIssues(l)
      BY <1>1, <1>2 DEF OpenIssues
    <2>2. \A j \in OpenIssues(l) : j = i
      BY <1>7, <2>1 DEF Issued
    <2> QED BY <2>1, <2>2, Zenon
  <1>9. \A j \in DOMAIN issues \ {i} : ~(issues[j].lot = l /\ issues[j].remaining > 0)
    BY <1>8 DEF OpenIssues
  <1>10. issues'[i].remaining > 0 <=> q # n
    BY <1>2, <1>4, <1>5
  <1>11. q = n => OpenIssues(l)' = {}
    BY <1>5, <1>9, <1>10 DEF OpenIssues
  <1>12. q # n => OpenIssues(l)' = {i}
    BY <1>4, <1>5, <1>9, <1>10 DEF OpenIssues
  <1>13. ASSUME NEW x \in Ids \ {l}
         PROVE  OpenIssues(x)' = OpenIssues(x)
    BY <1>4, <1>5 DEF OpenIssues
  <1>14. ASSUME NEW x, OpenOnly(x)'
         PROVE  OpenOnly(x)
    BY <1>1, <1>2, <1>5, <1>6, <1>14 DEF OpenOnly
  <1>15. ASSUME OpenOnly(l)'
         PROVE  q # n
    BY <1>4, <1>5, <1>10, <1>15 DEF OpenOnly
  <1> QED BY <1>1, <1>4, <1>5, <1>7, <1>8, <1>11, <1>12, <1>13, <1>14, <1>15, <1>16 DEF IssueReturned

(* A return rewrites the lot's row only when it ends the process.          *)
LotReturned(i, q, l) ==
    /\ \A x \in Ids : net'[x] = net[x]
    /\ \A x \in Ids \ {l} : lots'[x] = lots[x]
    /\ q = issues[i].remaining => lots'[l].status # "IN PROCESS"
    /\ q # issues[i].remaining => lots'[l] = lots[l]

(* What a return keeps, the lot returned from apart.                       *)
LEMMA ReturnedRest ==
    ASSUME Books, NEW i \in DOMAIN issues, NEW q \in Nat, q > 0, q <= issues[i].remaining,
           NEW l, l = issues[i].lot, IssueReturned(i, q, l), surplus' = surplus, NEW m \in Nat, Grows(m), NewCodes(m),
           LotReturned(i, q, l)
    PROVE  /\ Tables' /\ Issued' /\ Lineage' /\ Codes' /\ MovementsExplainStock'
           /\ \A x \in Ids \ {l} : Held(x)' = Held(x)
  <1>1. Tables /\ Issued /\ Lineage /\ Codes /\ MovementsExplainStock
    BY DEF Books
  <1>20. /\ \A x \in Ids : net'[x] = net[x]
         /\ \A x \in Ids \ {l} : lots'[x] = lots[x]
         /\ q = issues[i].remaining => lots'[l].status # "IN PROCESS"
         /\ q # issues[i].remaining => lots'[l] = lots[l]
    BY DEF LotReturned
  <1>2. /\ issues' \in Seq(Issue) /\ IssuesKept
        /\ \A j \in DOMAIN issues' : issues'[j].lot \in Ids
        /\ \A j \in DOMAIN issues \ {i} : issues'[j] = issues[j]
        /\ OpenIssues(l) = {i}
        /\ q = issues[i].remaining => OpenIssues(l)' = {}
        /\ q # issues[i].remaining => OpenIssues(l)' = {i}
        /\ \A x \in Ids \ {l} : OpenIssues(x)' = OpenIssues(x)
        /\ \A x : OpenOnly(x)' => OpenOnly(x)
        /\ OpenOnly(l)' => q # issues[i].remaining
    BY DEF IssueReturned
  <1>3. l \in Ids /\ lots[l].status = "IN PROCESS"
    BY <1>1, <1>2 DEF Issued
  <1>4. Tables'
    <2>1. surplus' \in Int
      BY <1>1 DEF Tables
    <2> QED BY ONLY m \in Nat, Grows(m), <1>1, <1>2, <2>1, GrownTables
  <1>5. ASSUME NEW x \in Ids' \ Ids
        PROVE  OpenIssues(x)' = {} /\ lots'[x].status # "IN PROCESS"
    <2>4. \A y \in Ids' \ Ids : \E k \in 1..m : y = Len(lots) + k
      BY ONLY <1>1, m \in Nat, Grows(m), GrownIds, Zenon
    <2>1. PICK k \in 1..m : x = Len(lots) + k
      BY ONLY <2>4, x \in Ids' \ Ids
    <2>2. lots'[x].status = "IN STOCK"
      <3>1. Added(x)
        BY <2>1 DEF Grows
      <3> QED BY <1>2, <1>5, <3>1 DEF Added
    <2>3. OpenIssues(x)' = {}
      <3>1. x \notin Ids
        OBVIOUS
      <3> QED BY ONLY <1>2, <3>1 DEF OpenIssues
    <2> QED BY <2>2, <2>3
  <1>6. Ids \subseteq Ids'
    BY <1>1, GrownIds
  <1>7. Issued'
    <2>1. ASSUME NEW x \in Ids'
          PROVE  /\ lots'[x].status = "IN PROCESS" <=> OpenIssues(x)' # {}
                 /\ \A j, k \in OpenIssues(x)' : j = k
      <3>1. CASE x = l
        BY <1>2, <1>3, <1>20, <3>1
      <3>2. CASE x \in Ids /\ x # l
        <4>1. lots'[x] = lots[x] /\ OpenIssues(x)' = OpenIssues(x)
          BY <1>2, <1>20, <3>2
        <4>2. /\ lots[x].status = "IN PROCESS" <=> OpenIssues(x) # {}
              /\ \A j, k \in OpenIssues(x) : j = k
          BY ONLY <1>1, <3>2 DEF Issued
        <4> QED BY ONLY <4>1, <4>2
      <3>3. CASE x \notin Ids
        BY <1>5, <3>3
      <3> QED BY <3>1, <3>2, <3>3
    <2>2. \A j \in DOMAIN issues' : issues'[j].source \in Ids
      BY <1>1, <1>2 DEF Issued, IssuesKept
    <2> QED BY <1>2, <1>6, <2>1, <2>2 DEF Issued
  <1>8. MovementsExplainStock'
    <2>1. ASSUME NEW x \in Ids, OpenOnly(x)'
          PROVE  OpenOnly(x) /\ lots'[x].qty - lots[x].qty = net'[x] - net[x]
      <3>1. OpenOnly(x) /\ lots'[x] = lots[x]
        BY <1>2, <1>20, <2>1
      <3>2. PICK a \in Nat, n \in Int : a = lots[x].qty /\ n = net[x]
        BY <1>1, RowFields, TableRows
      <3>3. a - a = 0 /\ n - n = 0
        BY ONLY a \in Nat, n \in Int
      <3> QED BY <1>20, <3>1, <3>2, <3>3
    <2> QED BY <1>1, <1>2, <1>4, <2>1, KeptExplained
  <1>9. Lineage' /\ Codes'
    BY <1>1, GrownLineage, GrownCodes
  <1>10. (Tables /\ Issued => \A x \in Ids : HeldRight(x))'
    BY HeldIs, PTL
  <1>11. ASSUME NEW x \in Ids \ {l}
         PROVE  Held(x)' = Held(x)
    <2>1. HeldRight(x) /\ HeldRight(x)'
      BY <1>1, <1>4, <1>6, <1>7, <1>10, HeldIs
    <2>2. OpenIssues(x)' = OpenIssues(x) /\ lots'[x] = lots[x]
      BY <1>2, <1>20
    <2>3. CASE OpenIssues(x) = {} \/ lots[x].kind = "growth_run"
      BY <2>1, <2>2, <2>3 DEF HeldRight
    <2>4. CASE OpenIssues(x) # {} /\ lots[x].kind # "growth_run"
      <3>1. PICK j \in OpenIssues(x) : TRUE
        BY <2>4
      <3>2. j \in DOMAIN issues /\ j # i
        BY <3>1 DEF OpenIssues
      <3>3. issues'[j] = issues[j]
        BY <1>2, <1>20, <3>2
      <3>4. Held(x) = issues[j].remaining
        BY ONLY <2>1, <2>4, <3>1 DEF HeldRight
      <3>5. Held(x)' = issues'[j].remaining
        BY ONLY <2>1, <2>2, <2>4, <3>1 DEF HeldRight
      <3> QED BY ONLY <3>3, <3>4, <3>5
    <2> QED BY <2>3, <2>4
  <1> QED BY <1>4, <1>7, <1>8, <1>9, <1>11

(* A biscuit is returned in place.                                         *)
LEMMA ReturnBiscuitKeeps ==
    ASSUME Books, NEW i \in DOMAIN issues, NEW q \in Nat, q > 0, q <= issues[i].remaining,
           Return(i, q), lots[issues[i].lot].kind = "growth_run"
    PROVE  Books' /\ Ids \subseteq Ids'
  <1>1. PICK l : l = issues[i].lot
    OBVIOUS
  <1>2. Tables /\ Issued /\ StockConserved /\ l \in Ids
    BY <1>1 DEF Books, Issued
  <1>3. PICK w : w = IF q = issues[i].remaining THEN "IN STOCK" ELSE lots[l].status
    OBVIOUS
  <1>4. PICK row : row = [lots[l] EXCEPT !.status = w]
    OBVIOUS
  <1>5. /\ issues' = [issues EXCEPT ![i].remaining = @ - q] /\ surplus' = surplus
        /\ lots' = [lots EXCEPT ![l] = row] /\ net' = net
    BY <1>1, <1>3, <1>4 DEF Return
  <1>6. IssueReturned(i, q, l)
    BY <1>1, <1>2, <1>5, ReturnedIssues
  <1>7. lots[l] \in Lot /\ w \in {"IN STOCK", "IN PROCESS", "CONSUMED", "SOLD"}
    BY <1>2, <1>3, RowFields
  <1>8. row \in Lot /\ row.qty = lots[l].qty /\ row.status = w /\ SameOrigin(row, lots[l])
    BY ONLY <1>4, <1>7, StatusFields
  <1>9. /\ Grows(0) /\ NewCodes(0)
        /\ lots'[l] = row
        /\ \A x \in Ids \ {l} : lots'[x] = lots[x]
    BY ONLY <1>2, <1>5, <1>8, SetRow
  <1>10. q = issues[i].remaining => lots'[l].status # "IN PROCESS"
    BY <1>3, <1>8, <1>9
  <1>11. q # issues[i].remaining => lots'[l] = lots[l]
    <2>1. q # issues[i].remaining => row = lots[l]
      BY ONLY <1>3, <1>4, <1>7 DEF Lot
    <2> QED BY <1>9, <2>1
  <1>12. 0 \in Nat
    OBVIOUS
  <1>20. LotReturned(i, q, l)
    BY ONLY <1>5, <1>9, <1>10, <1>11 DEF LotReturned
  <1>13. /\ Tables' /\ Issued' /\ Lineage' /\ Codes' /\ MovementsExplainStock'
         /\ \A x \in Ids \ {l} : Held(x)' = Held(x)
    BY ONLY Books, i \in DOMAIN issues, q \in Nat, q > 0, q <= issues[i].remaining,
            <1>1, <1>5, <1>6, <1>9, <1>12, <1>20, ReturnedRest
  <1>14. Ids \subseteq Ids'
    BY <1>2, <1>9, <1>12, GrownIds
  <1>15. (Tables /\ Issued => \A x \in Ids : HeldRight(x))'
    BY HeldIs, PTL
  <1>16. Held(l)' = Held(l)
    <2>1. HeldRight(l) /\ HeldRight(l)'
      BY <1>2, <1>13, <1>14, <1>15, HeldIs
    <2>2. lots[l].kind = "growth_run" /\ lots'[l].kind = "growth_run" /\ lots'[l].qty = lots[l].qty
      BY <1>1, <1>8, <1>9 DEF SameOrigin
    <2> QED BY ONLY <2>1, <2>2 DEF HeldRight
  <1>17. \A x \in Ids : Held(x)' = Held(x)
    BY <1>13, <1>16
  <1>18. \A j \in DOMAIN issues' : issues'[j].lot \in Ids
    BY <1>6 DEF IssueReturned
  <1>19. StockConserved'
    BY ONLY <1>2, <1>5, <1>9, <1>13, <1>17, <1>18, SameHeld
  <1> QED BY <1>13, <1>14, <1>19 DEF Books

(* The row of a return lot.                                                *)
ReturnRow(row, l, q) ==
    /\ row \in Lot /\ row.status = "IN STOCK" /\ row.qty = q /\ row.entry = q
    /\ row.parent = l /\ row.kind = lots[l].kind /\ row.sibling = 0
    /\ lots[l].kind = "seed" => row.root = RootOf(l) /\ row.level = lots[l].level + 1

LEMMA ProcessLotFields ==
    ASSUME Tables, NEW l \in Ids, NEW q \in Nat, NEW row, row = ProcessLot(l, q)
    PROVE  ReturnRow(row, l, q)
  <1>1. l \in Nat /\ lots[l] \in Lot
    BY TableRows
  <1>2. PICK p : p = Piece(l, q)
    OBVIOUS
  <1>3. /\ p \in Lot /\ p.status = "IN STOCK" /\ p.qty = q /\ p.parent = l
        /\ p.kind = lots[l].kind /\ p.sibling = 0 /\ p.root = RootOf(l)
        /\ p.level = lots[l].level + 1
    BY <1>1, <1>2, PieceFields
  <1>4. PICK b, c : /\ b = IF lots[l].kind = "seed" THEN p.root ELSE 0
                    /\ c = IF lots[l].kind = "seed" THEN p.level ELSE 0
    OBVIOUS
  <1>5. b \in Nat /\ c \in Nat
    <2>1. p.root \in Nat /\ p.level \in Nat
      BY <1>3, LotFields
    <2> QED BY <1>4, <2>1
  <1>6. row = [p EXCEPT !.entry = q, !.root = b, !.level = c]
    BY <1>2, <1>4 DEF ProcessLot
  <1>7. /\ row \in Lot /\ row.status = p.status /\ row.qty = p.qty /\ row.entry = q
        /\ row.parent = p.parent /\ row.kind = p.kind /\ row.sibling = p.sibling
        /\ row.root = b /\ row.level = c
    BY ONLY <1>3, <1>5, <1>6, q \in Nat DEF Lot
  <1> QED BY <1>3, <1>4, <1>7 DEF ReturnRow

(* The row of a part of a lot that is issued.                              *)
PartRow(row, l, q) ==
    /\ row \in Lot /\ row.status = "IN PROCESS" /\ row.qty = q /\ row.entry = q
    /\ row.parent = l /\ row.kind = lots[l].kind
    /\ row.sibling = 0 \/ row.sibling = nextSiblingCode(l)
    /\ lots[l].kind = "seed" => row.root = RootOf(l) /\ row.level = lots[l].level + 1

LEMMA IssuedPartFields ==
    ASSUME Tables, NEW l \in Ids, NEW q \in Nat, NEW row, row = IssuedPart(l, q)
    PROVE  PartRow(row, l, q)
  <1>1. PICK p : p = ProcessLot(l, q)
    OBVIOUS
  <1>2. ReturnRow(p, l, q)
    BY <1>1, ProcessLotFields
  <1>3. PICK c \in Nat : /\ c = IF lots[l].kind = "seed" THEN nextSiblingCode(l) ELSE 0
                         /\ c = 0 \/ c = nextSiblingCode(l)
    BY NextCode
  <1>4. row = [p EXCEPT !.status = "IN PROCESS", !.sibling = c]
    BY <1>1, <1>3 DEF IssuedPart
  <1>5. /\ row \in Lot /\ row.status = "IN PROCESS" /\ row.qty = p.qty /\ row.entry = p.entry
        /\ row.parent = p.parent /\ row.kind = p.kind /\ row.sibling = c
        /\ row.root = p.root /\ row.level = p.level
    <2>1. p \in Lot
      BY <1>2 DEF ReturnRow
    <2> QED BY ONLY <1>3, <1>4, <2>1, c \in Nat DEF Lot
  <1> QED BY ONLY <1>2, <1>3, <1>5 DEF ReturnRow, PartRow

(* Part of a lot goes into the process under another number: the tables.   *)
PartIssued(l, n, h, id, iss, row) ==
    /\ Grows(1) /\ NewCodes(1) /\ id = Len(lots) + 1 /\ id \in Ids' /\ id \notin Ids
    /\ PartRow(lots'[id], l, n)
    /\ lots[l].qty = h /\ lots'[l].qty = h - n /\ lots'[l].status = "IN STOCK"
    /\ lots[l].status = "IN STOCK"
    /\ \A x \in Ids \ {l} : lots'[x] = lots[x]
    /\ \A x \in Ids : net'[x] = net[x]
    /\ issues' \in Seq(Issue) /\ IssueAdded(iss, row)
    /\ row.source = l /\ row.lot = id /\ row.issued = n /\ row.remaining = n

LEMMA IssuePartTables ==
    ASSUME Books, NEW l \in Ids, NEW n \in Nat, n > 0, IssuePart(l, n)
    PROVE  \E h \in Nat, id \in Nat : \E iss, row :
                n <= h /\ PartIssued(l, n, h, id, iss, row)
  <1>1. Tables
    BY DEF Books
  <1>18. lots[l].qty \in Nat /\ Len(lots) + 1 \in Nat
    <2>1. lots[l].qty \in Nat /\ Len(lots) \in Nat
      BY <1>1, RowFields, TableRows
    <2>2. PICK b \in Nat : b = Len(lots)
      BY <2>1
    <2> QED BY <2>1, <2>2
  <1>2. PICK h \in Nat, id \in Nat : h = lots[l].qty /\ id = Len(lots) + 1
    BY <1>18
  <1>3. n <= h /\ h - n \in Nat
    <2>1. n \in 1..(h - 1)
      BY <1>2 DEF IssuePart
    <2> QED BY ONLY <2>1, n \in Nat, h \in Nat
  <1>4. PICK part, r, old, row :
           /\ part = IssuedPart(l, n) /\ r = [lots[l] EXCEPT !.qty = h - n]
           /\ old = [lots EXCEPT ![l] = r]
           /\ row = [source |-> l, lot |-> id, issued |-> n, remaining |-> n]
    OBVIOUS
  <1>5. /\ lots' = Append(old, part) /\ net' = Append(net, 0) /\ issues' = Append(issues, row)
        /\ lots[l].status = "IN STOCK"
    BY <1>2, <1>4 DEF IssuePart
  <1>6. PartRow(part, l, n)
    BY <1>1, <1>4, IssuedPartFields
  <1>7. /\ r \in Lot /\ r.qty = h - n /\ r.status = "IN STOCK" /\ SameOrigin(r, lots[l])
    BY <1>1, <1>3, <1>4, <1>5, RowFields, QtyFields
  <1>8. old \in [Ids -> Lot] /\ old[l] = r /\ \A x \in Ids \ {l} : old[x] = lots[x]
    <2>1. lots \in [Ids -> Lot]
      <3>1. lots \in Seq(Lot)
        BY <1>1 DEF Tables
      <3> QED BY <3>1, <1>1, TableRows DEF Ids
    <2> QED BY ONLY <1>4, <1>7, <2>1, l \in Ids
  <1>9. part \in Lot
    BY <1>6 DEF PartRow
  <1>10. /\ lots' \in Seq(Lot) /\ Len(lots') = Len(lots) + 1
         /\ \A x \in Ids : lots'[x] = old[x]
         /\ lots'[id] = part
    BY ONLY <1>1, <1>2, <1>5, <1>8, <1>9, WrittenOne
  <1>11. /\ net' \in Seq(Int) /\ Len(net') = Len(lots) + 1
         /\ \A x \in Ids : net'[x] = net[x]
         /\ net'[id] = 0
    <2>1. net \in Nets
      <3>1. net \in Seq(Int) /\ Len(net) = Len(lots) /\ Ids = 1..Len(lots)
        BY <1>1, TableRows DEF Tables
      <3> QED BY ONLY <3>1 DEF Nets
    <2>2. PICK z \in Int : z = 0
      OBVIOUS
    <2>3. WroteOneNet(net, z)
      BY ONLY <1>1, <1>5, <2>1, <2>2, WrittenOneNet
    <2> QED BY <1>2, <2>2, <2>3 DEF WroteOneNet
  <1>12. row \in Issue /\ row.source = l /\ row.lot = id /\ row.issued = n /\ row.remaining = n
    <2>1. l \in Nat
      BY <1>1, RowFields
    <2> QED BY ONLY <1>4, <2>1, n \in Nat, id \in Nat DEF Issue
  <1>13. PICK iss : issues' \in Seq(Issue) /\ IssueAdded(iss, row)
    BY <1>1, <1>5, <1>12, IssueInserted
  <1>14. Grows(1)
    <2>1. \A x \in Ids : SameOrigin(lots'[x], lots[x])
      BY ONLY <1>7, <1>8, <1>10 DEF SameOrigin
    <2>2. /\ part.parent = l /\ part.kind = lots[l].kind /\ part.qty = n /\ part.entry = n
          /\ lots[l].kind = "seed" => part.root = RootOf(l) /\ part.level = lots[l].level + 1
      BY ONLY <1>6 DEF PartRow
    <2>3. Below(id, l)
      BY ONLY <1>10, <2>2 DEF Below
    <2>4. iss \in DOMAIN issues' /\ issues'[iss].lot = id
      BY ONLY <1>12, <1>13 DEF IssueAdded
    <2>5. n = n + 0
      BY ONLY n \in Nat
    <2>6. Added(id)
      BY ONLY <1>10, <1>11, <2>2, <2>3, <2>4, <2>5, l \in Ids DEF Added
    <2>7. \A k \in 1..1 : Len(lots) + k = id
      BY ONLY <1>2
    <2> QED BY ONLY <1>10, <1>11, <2>1, <2>6, <2>7 DEF Grows
  <1>15. NewCodes(1)
    <2>1. \A k \in 1..1 : k = 1
      OBVIOUS
    <2>2. part.parent = l /\ (part.sibling = 0 \/ part.sibling = nextSiblingCode(l))
      BY ONLY <1>6 DEF PartRow
    <2>3. \A a \in Ids : lots[a].parent = l => lots[a].sibling < nextSiblingCode(l)
      BY <1>1, NextCode
    <2>4. \A k \in 1..1 : lots'[Len(lots) + k] = part
      BY ONLY <1>2, <1>10, <2>1
    <2> QED BY ONLY <2>1, <2>2, <2>3, <2>4 DEF NewCodes
  <1>16. id \in Ids' /\ id \notin Ids
    <2>1. 1 \in Nat /\ 1 \in 1..1
      OBVIOUS
    <2> QED BY <1>1, <1>2, <1>14, <2>1, GrownIds
  <1>17. PartIssued(l, n, h, id, iss, row)
    <2>1. lots'[l].qty = h - n /\ lots'[l].status = "IN STOCK"
      BY <1>7, <1>8, <1>10
    <2>2. \A x \in Ids \ {l} : lots'[x] = lots[x]
      BY <1>8, <1>10
    <2> QED BY ONLY <1>2, <1>5, <1>6, <1>10, <1>11, <1>12, <1>13, <1>14, <1>15, <1>16, <2>1, <2>2
            DEF PartIssued
  <1> QED BY <1>3, <1>17

LEMMA IssuePartKeeps ==
    ASSUME Books, NEW l \in Ids, NEW n \in Nat, n > 0, IssuePart(l, n)
    PROVE  Books' /\ Ids \subseteq Ids'
  <1>1. Tables /\ Issued /\ Lineage /\ Codes /\ MovementsExplainStock /\ StockConserved
    BY DEF Books
  <1>40. PICK h \in Nat, id \in Nat :
           \E iss, row : n <= h /\ PartIssued(l, n, h, id, iss, row)
    BY IssuePartTables
  <1>2. PICK iss, row : n <= h /\ PartIssued(l, n, h, id, iss, row)
    BY <1>40
  <1>31. Grows(1) /\ NewCodes(1) /\ PartRow(lots'[id], l, n)
    BY <1>2 DEF PartIssued
  <1>3. /\ id = Len(lots) + 1 /\ id \in Ids' /\ id \notin Ids
        /\ lots[l].qty = h /\ lots'[l].qty = h - n /\ lots'[l].status = "IN STOCK"
        /\ lots[l].status = "IN STOCK"
        /\ \A x \in Ids \ {l} : lots'[x] = lots[x]
        /\ \A x \in Ids : net'[x] = net[x]
    BY <1>2 DEF PartIssued
  <1>4. /\ issues' \in Seq(Issue) /\ IssueAdded(iss, row)
        /\ row.source = l /\ row.lot = id /\ row.issued = n /\ row.remaining = n
        /\ iss \notin DOMAIN issues /\ DOMAIN issues' = DOMAIN issues \cup {iss}
        /\ issues'[iss] = row /\ \A i \in DOMAIN issues : issues'[i] = issues[i]
    BY <1>2 DEF PartIssued, IssueAdded
  <1>5. lots'[id].status = "IN PROCESS" /\ lots'[id].qty = n
    BY <1>31 DEF PartRow
  <1>6. surplus' = surplus
    BY DEF IssuePart
  <1>7. PICK m \in Nat, b \in Nat : m = 1 /\ b = Len(lots) /\ id = b + 1
    BY <1>1, <1>3, TableRows
  <1>8. /\ Grows(m) /\ NewCodes(m) /\ Ids \subseteq Ids'
        /\ \A x \in Ids' \ Ids : x = id
    <2>1. Grows(m) /\ NewCodes(m)
      BY <1>31, <1>7
    <2>2. Ids \subseteq Ids' /\ \A x \in Ids' \ Ids : \E k \in 1..m : x = Len(lots) + k
      BY ONLY <1>1, <2>1, m \in Nat, GrownIds
    <2>3. ASSUME NEW x \in Ids' \ Ids
          PROVE  x = id
      <3>1. PICK k \in 1..m : x = b + k
        BY <1>7, <2>2
      <3> QED BY ONLY <1>7, <3>1, b \in Nat
    <2> QED BY ONLY <2>1, <2>2, <2>3
  <1>9. Tables'
    <2>1. surplus' \in Int
      BY <1>1, <1>6 DEF Tables
    <2> QED BY ONLY <1>1, <1>4, <1>8, <2>1, m \in Nat, GrownTables
  <1>10. \A i \in DOMAIN issues : issues[i].lot \in Ids /\ issues[i].source \in Ids
    BY <1>1 DEF Issued
  <1>32. id \notin Ids /\ \A x \in Ids : net'[x] = net[x]
    BY <1>3
  <1>11. ASSUME NEW x \in Ids
         PROVE  OpenIssues(x)' = OpenIssues(x)
    BY <1>4, <1>32 DEF OpenIssues
  <1>12. OpenIssues(id)' = {iss}
    <2>1. \A i \in DOMAIN issues : issues'[i].lot # id
      BY <1>4, <1>10, <1>32
    <2>2. issues'[iss].lot = id /\ issues'[iss].remaining > 0
      BY <1>4
    <2> QED BY ONLY <1>4, <2>1, <2>2 DEF OpenIssues
  <1>13. OpenIssues(l) = {}
    BY <1>1, <1>3 DEF Issued
  <1>14. \A i \in DOMAIN issues' : issues'[i].lot \in Ids' /\ issues'[i].source \in Ids
    BY ONLY <1>3, <1>4, <1>8, <1>10, l \in Ids
  <1>15. Issued'
    <2>1. ASSUME NEW x \in Ids'
          PROVE  /\ lots'[x].status = "IN PROCESS" <=> OpenIssues(x)' # {}
                 /\ \A i, j \in OpenIssues(x)' : i = j
      <3>1. CASE x \in Ids
        <4>1. lots'[x].status = lots[x].status /\ OpenIssues(x)' = OpenIssues(x)
          BY <1>3, <1>11, <3>1
        <4>2. /\ lots[x].status = "IN PROCESS" <=> OpenIssues(x) # {}
              /\ \A i, j \in OpenIssues(x) : i = j
          BY <1>1, <3>1 DEF Issued
        <4> QED BY ONLY <4>1, <4>2
      <3>2. CASE x \notin Ids
        <4>1. x = id
          BY <1>8, <3>2
        <4> QED BY ONLY <1>5, <1>12, <4>1
      <3> QED BY <3>1, <3>2
    <2> QED BY <1>8, <1>14, <2>1 DEF Issued
  <1>16. MovementsExplainStock'
    <2>1. ASSUME NEW x \in Ids, OpenOnly(x)'
          PROVE  /\ OpenOnly(x)
                 /\ (lots'[x].qty + Away(x)') - (lots[x].qty + Away(x)) = net'[x] - net[x]
      <3>1. OpenOnly(x)
        BY <1>4, <2>1 DEF OpenOnly
      <3>2. PICK a \in Nat, e \in Int, w \in Int : a = lots[x].qty /\ e = net[x] /\ w = Away(x)
        BY <1>1, RowFields, TableRows, AwayIs DEF AwayTold, AwayRight
      <3>3. e - e = 0 /\ net'[x] = e
        BY <1>32, <3>2
      <3>4. CASE x = l
        <4>1. row.source = x /\ row.lot # x
          BY <1>3, <1>4, <3>4
        <4>2. Away(x)' = w + n
          BY <1>1, <1>4, <1>9, <3>2, <4>1, AwayAdded
        <4>3. lots'[x].qty = a - n
          BY <1>3, <3>2, <3>4
        <4>4. ((a - n) + (w + n)) - (a + w) = 0
          BY ONLY a \in Nat, n \in Nat, w \in Int
        <4> QED BY <3>1, <3>2, <3>3, <4>2, <4>3, <4>4
      <3>5. CASE x # l
        <4>1. row.source # x \/ row.lot = x
          BY <1>4, <3>5
        <4>2. Away(x)' = w
          BY <1>1, <1>4, <1>9, <3>2, <4>1, AwayAdded
        <4>3. lots'[x].qty = a
          BY <1>3, <3>2, <3>5
        <4>4. (a + w) - (a + w) = 0
          BY ONLY a \in Nat, w \in Int
        <4> QED BY <3>1, <3>2, <3>3, <4>2, <4>3, <4>4
      <3> QED BY <3>4, <3>5
    <2> QED BY <1>1, <1>8, <1>9, <1>14, <2>1, GrownExplained
  <1>17. Lineage' /\ Codes'
    BY <1>1, <1>8, GrownLineage, GrownCodes
  <1>18. (Tables /\ Issued => \A x \in Ids : HeldRight(x))'
    BY HeldIs, PTL
  <1>19. \A x \in Ids : HeldRight(x) /\ HeldRight(x)'
    BY <1>1, <1>8, <1>9, <1>15, <1>18, HeldIs
  <1>20. Held(l) = h /\ Held(l)' = h - n
    BY <1>3, <1>11, <1>13, <1>19 DEF HeldRight
  <1>21. ASSUME NEW x \in Ids \ {l}
         PROVE  Held(x)' = Held(x)
    <2>1. OpenIssues(x)' = OpenIssues(x) /\ lots'[x] = lots[x] /\ HeldRight(x) /\ HeldRight(x)'
      BY <1>3, <1>11, <1>19
    <2>2. CASE OpenIssues(x) = {} \/ lots[x].kind = "growth_run"
      BY ONLY <2>1, <2>2 DEF HeldRight
    <2>3. CASE OpenIssues(x) # {} /\ lots[x].kind # "growth_run"
      <3>1. PICK i \in OpenIssues(x) : TRUE
        BY <2>3
      <3>2. issues'[i].remaining = issues[i].remaining
        BY <1>4, <3>1 DEF OpenIssues
      <3> QED BY ONLY <2>1, <2>3, <3>1, <3>2 DEF HeldRight
    <2> QED BY <2>2, <2>3
  <1>22. PICK d : d = [x \in Ids |-> IF x = l THEN 0 - n ELSE 0]
    OBVIOUS
  <1>23. 0 - n \in Int /\ h - n = h + (0 - n) /\ n \in Int
    BY ONLY n \in Nat, h \in Nat
  <1>24. d[l] = 0 - n /\ \A x \in Ids \ {l} : d[x] = 0
    BY ONLY <1>22, l \in Ids
  <1>25. ASSUME NEW x \in Ids
         PROVE  d[x] \in Int /\ Held(x)' = Held(x) + d[x]
    <2>1. CASE x = l
      BY ONLY <1>20, <1>23, <1>24, <2>1
    <2>2. CASE x # l
      <3>1. d[x] = 0 /\ Held(x)' = Held(x)
        BY ONLY <1>21, <1>24, <2>2, x \in Ids
      <3>2. Held(x) \in Int
        BY <1>1, HeldIs DEF HeldRight
      <3> QED BY ONLY <3>1, <3>2
    <2> QED BY <2>1, <2>2
  <1>26. SumFunctionOnSet(d, Ids) = 0 - n
    <2>1. IsFiniteSet(Ids)
      BY <1>1, TableRows
    <2> QED BY ONLY <1>23, <1>24, <2>1, l \in Ids, SumOnly
  <1>27. PICK f : f = [k \in 1..1 |-> n]
    OBVIOUS
  <1>28. /\ \A k \in 1..1 : f[k] \in Int /\ Held(b + k)' = f[k]
         /\ SumFunctionOnSet(f, 1..1) = n
    <2>1. DOMAIN f = 1..1 /\ f[1] = n /\ \A k \in 1..1 : k = 1 /\ f[k] = n
      BY ONLY <1>27
    <2>2. SumFunctionOnSet(f, 1..1) = f[1]
      BY ONLY <1>23, <2>1, SumShort
    <2>3. HeldRight(id)'
      BY <1>3, <1>9, <1>15, <1>18
    <2>4. Held(id)' = n
      <3>1. CASE lots'[id].kind = "growth_run"
        BY ONLY <1>5, <2>3, <3>1 DEF HeldRight
      <3>2. CASE lots'[id].kind # "growth_run"
        <4>1. Held(id)' = issues'[iss].remaining
          BY ONLY <1>12, <2>3, <3>2 DEF HeldRight
        <4> QED BY <1>4, <4>1
      <3> QED BY <3>1, <3>2
    <2>5. \A k \in 1..1 : b + k = id
      BY ONLY <1>7, b \in Nat
    <2>6. \A k \in 1..1 : Held(b + k)' = n
      BY ONLY <2>4, <2>5
    <2> QED BY ONLY <1>23, <2>1, <2>2, <2>6
  <1>29. surplus' = surplus + SumFunctionOnSet(d, Ids) + SumFunctionOnSet(f, 1..1)
    <2>1. PICK s \in Int : s = surplus
      BY <1>1 DEF Tables
    <2>2. s + (0 - n) + n = s
      BY ONLY s \in Int, n \in Nat
    <2> QED BY ONLY <1>6, <1>26, <1>28, <2>1, <2>2
  <1>30. Accounted(b, m, d, f)
    BY ONLY <1>7, <1>25, <1>28, <1>29 DEF Accounted
  <1>33. StockConserved'
    BY ONLY m \in Nat, b \in Nat, <1>1, <1>8, <1>9, <1>30, GrownAccount
  <1> QED BY <1>8, <1>9, <1>15, <1>16, <1>17, <1>33 DEF Books

(* Any other lot is returned as a new one.                                 *)
LEMMA ReturnNewKeeps ==
    ASSUME Books, NEW i \in DOMAIN issues, NEW q \in Nat, q > 0, q <= issues[i].remaining,
           Return(i, q), lots[issues[i].lot].kind # "growth_run"
    PROVE  Books' /\ Ids \subseteq Ids'
  <1>1. PICK l : l = issues[i].lot
    OBVIOUS
  <1>2. Tables /\ Issued /\ StockConserved /\ l \in Ids
    BY <1>1 DEF Books, Issued
  <1>3. PICK old : old = [lots EXCEPT ![l] = IF q = issues[i].remaining THEN Consume(@) ELSE @]
    OBVIOUS
  <1>4. PICK row : row = ProcessLot(l, q)
    OBVIOUS
  <1>5. /\ issues' = [issues EXCEPT ![i].remaining = @ - q] /\ surplus' = surplus
        /\ lots' = Append(old, row) /\ net' = Append(net, 0)
    BY <1>1, <1>3, <1>4 DEF Return
  <1>6. IssueReturned(i, q, l)
    BY <1>1, <1>2, <1>5, ReturnedIssues
  <1>7. /\ row \in Lot /\ row.status = "IN STOCK" /\ row.qty = q /\ row.entry = q
        /\ row.parent = l /\ row.kind = lots[l].kind /\ row.sibling = 0
        /\ lots[l].kind = "seed" => row.root = RootOf(l) /\ row.level = lots[l].level + 1
    <2>1. ReturnRow(row, l, q)
      BY ONLY <1>2, <1>4, q \in Nat, ProcessLotFields
    <2> QED BY <2>1 DEF ReturnRow
  <1>8. /\ lots[l] \in Lot /\ Consume(lots[l]) \in Lot /\ Consume(lots[l]).qty = 0
        /\ Consume(lots[l]).status = "CONSUMED" /\ SameOrigin(Consume(lots[l]), lots[l])
    BY <1>2, TableRows, ConsumeFields
  <1>9. /\ old \in [Ids -> Lot]
        /\ q = issues[i].remaining => old[l] = Consume(lots[l])
        /\ q # issues[i].remaining => old[l] = lots[l]
        /\ \A x \in Ids \ {l} : old[x] = lots[x]
    <2>1. PICK r : r = IF q = issues[i].remaining THEN Consume(lots[l]) ELSE lots[l]
      OBVIOUS
    <2>2. old = [lots EXCEPT ![l] = r] /\ r \in Lot
      BY <1>3, <1>8, <2>1
    <2>3. lots \in [Ids -> Lot]
      <3>1. lots \in Seq(Lot)
        BY <1>2 DEF Tables
      <3> QED BY <3>1, <1>2, TableRows DEF Ids
    <2>4. /\ old \in [Ids -> Lot] /\ old[l] = r
          /\ \A x \in Ids \ {l} : old[x] = lots[x]
      BY ONLY <1>2, <2>2, <2>3
    <2> QED BY ONLY <2>1, <2>4
  <1>10. /\ lots' \in Seq(Lot) /\ Len(lots') = Len(lots) + 1
         /\ \A x \in Ids : lots'[x] = old[x]
         /\ lots'[Len(lots) + 1] = row
    BY ONLY <1>2, <1>5, <1>7, <1>9, WrittenOne
  <1>11. /\ net' \in Seq(Int) /\ Len(net') = Len(lots) + 1
         /\ \A x \in Ids : net'[x] = net[x]
         /\ net'[Len(lots) + 1] = 0
    <2>1. net \in Nets
      <3>1. net \in Seq(Int) /\ Len(net) = Len(lots) /\ Ids = 1..Len(lots)
        BY <1>2, TableRows DEF Tables
      <3> QED BY ONLY <3>1 DEF Nets
    <2>2. PICK z \in Int : z = 0
      OBVIOUS
    <2>3. WroteOneNet(net, z)
      BY ONLY <1>2, <1>5, <2>1, <2>2, WrittenOneNet
    <2> QED BY <2>2, <2>3 DEF WroteOneNet
  <1>12. Grows(1)
    <2>1. \A x \in Ids : SameOrigin(lots'[x], lots[x])
      BY ONLY <1>8, <1>9, <1>10 DEF SameOrigin
    <2>2. PICK id : id = Len(lots) + 1
      OBVIOUS
    <2>3. lots'[id] = row /\ net'[id] = 0 /\ q = q + 0
      BY <1>10, <1>11, <2>2
    <2>4. Below(id, l)
      BY ONLY <1>7, <2>3 DEF Below
    <2>5. Added(id)
      BY ONLY <1>2, <1>7, <2>3, <2>4 DEF Added
    <2>6. \A k \in 1..1 : Len(lots) + k = id
      BY ONLY <2>2
    <2> QED BY ONLY <1>10, <1>11, <2>1, <2>5, <2>6 DEF Grows
  <1>13. NewCodes(1)
    <2>1. \A k \in 1..1 : k = 1
      OBVIOUS
    <2> QED BY ONLY <1>7, <1>10, <2>1 DEF NewCodes
  <1>14. q = issues[i].remaining => lots'[l].status # "IN PROCESS"
    BY <1>2, <1>8, <1>9, <1>10
  <1>15. q # issues[i].remaining => lots'[l] = lots[l]
    BY <1>2, <1>9, <1>10
  <1>16. 1 \in Nat /\ \A x \in Ids \ {l} : lots'[x] = lots[x]
    BY <1>9, <1>10
  <1>32. LotReturned(i, q, l)
    BY ONLY <1>11, <1>14, <1>15, <1>16 DEF LotReturned
  <1>17. /\ Tables' /\ Issued' /\ Lineage' /\ Codes' /\ MovementsExplainStock'
         /\ \A x \in Ids \ {l} : Held(x)' = Held(x)
    BY ONLY Books, i \in DOMAIN issues, q \in Nat, q > 0, q <= issues[i].remaining,
            <1>1, <1>5, <1>6, <1>12, <1>13, <1>16, <1>32, ReturnedRest
  <1>18. Ids \subseteq Ids'
    BY <1>2, <1>12, <1>16, GrownIds
  <1>19. (Tables /\ Issued => \A x \in Ids : HeldRight(x))'
    BY HeldIs, PTL
  <1>20. PICK n \in Nat : n = issues[i].remaining
    BY <1>6 DEF IssueReturned
  <1>21. Held(l) = n /\ Held(l)' = n - q
    <2>1. HeldRight(l) /\ HeldRight(l)'
      BY <1>2, <1>17, <1>18, <1>19, HeldIs
    <2>2. lots[l].kind # "growth_run" /\ lots'[l].kind # "growth_run"
      BY <1>1, <1>2, <1>12 DEF Grows, SameOrigin
    <2>3. Held(l) = n
      BY ONLY <1>6, <1>20, <2>1, <2>2 DEF HeldRight, IssueReturned
    <2>4. CASE q = n
      <3>1. lots'[l].qty = 0 /\ OpenIssues(l)' = {}
        BY <1>2, <1>6, <1>8, <1>9, <1>10, <1>20, <2>4 DEF IssueReturned
      <3>2. n - q = 0
        BY ONLY <2>4, n \in Nat
      <3> QED BY ONLY <2>1, <2>3, <3>1, <3>2 DEF HeldRight
    <2>5. CASE q # n
      <3>1. issues'[i].remaining = n - q /\ i \in OpenIssues(l)'
        BY <1>6, <1>20, <2>5 DEF IssueReturned
      <3> QED BY ONLY <2>1, <2>2, <2>3, <3>1 DEF HeldRight
    <2> QED BY <2>4, <2>5
  <1>22. PICK d : d = [x \in Ids |-> IF x = l THEN 0 - q ELSE 0]
    OBVIOUS
  <1>23. 0 - q \in Int /\ n - q = n + (0 - q) /\ q \in Int
    BY ONLY q \in Nat, n \in Nat
  <1>24. d[l] = 0 - q /\ \A x \in Ids \ {l} : d[x] = 0
    BY <1>2, <1>22
  <1>25. ASSUME NEW x \in Ids
         PROVE  d[x] \in Int /\ Held(x)' = Held(x) + d[x]
    <2>1. CASE x = l
      BY ONLY <1>21, <1>23, <1>24, <2>1
    <2>2. CASE x # l
      <3>1. d[x] = 0 /\ Held(x)' = Held(x)
        BY ONLY <1>17, <1>24, <2>2, x \in Ids
      <3>2. Held(x) \in Int
        BY <1>2, HeldIs DEF HeldRight
      <3> QED BY ONLY <3>1, <3>2
    <2> QED BY <2>1, <2>2
  <1>26. SumFunctionOnSet(d, Ids) = 0 - q
    <2>1. IsFiniteSet(Ids)
      BY <1>2, TableRows
    <2> QED BY ONLY <1>2, <1>23, <1>24, <2>1, SumOnly
  <1>27. PICK f : f = [k \in 1..1 |-> q]
    OBVIOUS
  <1>28. /\ \A k \in 1..1 : f[k] = lots'[Len(lots) + k].qty
         /\ SumFunctionOnSet(f, 1..1) = q
    <2>1. DOMAIN f = 1..1 /\ f[1] = q /\ \A k \in 1..1 : k = 1 /\ f[k] = q
      BY ONLY <1>27
    <2>2. SumFunctionOnSet(f, 1..1) = f[1]
      BY ONLY <1>23, <2>1, SumShort
    <2> QED BY ONLY <1>7, <1>10, <2>1, <2>2
  <1>29. surplus' = surplus + SumFunctionOnSet(d, Ids) + SumFunctionOnSet(f, 1..1)
    <2>1. PICK s \in Int : s = surplus
      BY <1>2 DEF Tables
    <2>2. s + (0 - q) + q = s
      BY ONLY s \in Int, q \in Nat
    <2> QED BY ONLY <1>5, <1>26, <1>28, <2>1, <2>2
  <1>30. \A j \in DOMAIN issues' : issues'[j].lot \in Ids
    BY <1>6 DEF IssueReturned
  <1>31. StockConserved'
    <2>1. PICK m \in Nat : m = 1
      OBVIOUS
    <2>2. /\ Grows(m) /\ \A k \in 1..m : f[k] = lots'[Len(lots) + k].qty
          /\ surplus' = surplus + SumFunctionOnSet(d, Ids) + SumFunctionOnSet(f, 1..m)
      BY ONLY <1>12, <1>28, <1>29, <2>1
    <2>3. Tables /\ Issued /\ StockConserved /\ Tables'
      BY ONLY <1>2, <1>17
    <2>4. \A x \in Ids : d[x] \in Int /\ Held(x)' = Held(x) + d[x]
      BY ONLY <1>25
    <2> QED BY ONLY m \in Nat, <1>30, <2>2, <2>3, <2>4, GrownHeld
  <1> QED BY <1>17, <1>18, <1>31 DEF Books

LEMMA ReturnKeeps ==
    ASSUME Books, NEW i \in DOMAIN issues, NEW q \in 1..issues[i].remaining, Return(i, q)
    PROVE  Books' /\ Ids \subseteq Ids'
  <1>1. PICK n \in Nat : n = issues[i].remaining
    BY TableRows, IssueFields DEF Books
  <1>2. q \in Nat /\ q > 0 /\ q <= issues[i].remaining
    BY ONLY <1>1, n \in Nat, q \in 1..issues[i].remaining
  <1> QED BY <1>2, ReturnBiscuitKeeps, ReturnNewKeeps

-----------------------------------------------------------------------------
(* The genealogy that lineage tells of each lot and its parent is the one  *)
(* found by following parents to the end.                                  *)

LEMMA RootNumber ==
    ASSUME Tables, Lineage, NEW l \in Seeds
    PROVE  /\ l \in Nat /\ l > 0 /\ lots[l].level \in Nat
           /\ lots[l].parent = 0 => lots[l].level = 0 /\ RootOf(l) = l
           /\ lots[l].parent # 0 => /\ lots[l].parent \in Seeds /\ lots[l].parent < l
                                    /\ lots[l].root = RootOf(lots[l].parent)
                                    /\ RootOf(l) = lots[l].root
                                    /\ lots[l].level = lots[lots[l].parent].level + 1
  <1>1. \A x \in Seeds : x \in Ids
    BY DEF Seeds
  <1>2. l \in Nat /\ l > 0 /\ lots[l].level \in Nat
    BY <1>1, RowFields
  <1>3. Origin(l) \/ Child(l)
    BY DEF Lineage
  <1>4. CASE lots[l].parent = 0
    <2>1. ~Child(l)
      <3>1. ASSUME NEW p \in Seeds
            PROVE  p # 0
        <4>1. p \in Ids
          BY <1>1
        <4>2. p \in Nat /\ p > 0
          BY <4>1, RowFields
        <4> QED BY ONLY <4>2
      <3> QED BY <1>4, <3>1 DEF Child
    <2> QED BY <1>2, <1>3, <1>4, <2>1 DEF Origin, RootOf
  <1>5. CASE lots[l].parent # 0
    <2>1. PICK p \in Seeds : /\ p = lots[l].parent /\ p < l /\ lots[l].root = RootOf(p)
                             /\ lots[l].level = lots[p].level + 1
      BY <1>3, <1>5 DEF Origin, Child
    <2>2. p \in Ids
      BY <1>1
    <2>3. p # 0 /\ RootOf(p) # 0
      <3>1. p # 0
        <4>1. p \in Nat /\ p > 0
          BY <2>2, RowFields
        <4> QED BY ONLY <4>1
      <3> QED BY <3>1 DEF RootOf
    <2> QED BY <1>2, <1>5, <2>1, <2>3 DEF RootOf
  <1> QED BY <1>4, <1>5

LEMMA TopIs ==
    ASSUME Tables, Lineage
    PROVE  \A l \in Seeds : Top[l] = RootOf(l)
  <1> DEFINE F(t) == [l \in Seeds |-> IF lots[l].parent = 0 THEN l ELSE t[lots[l].parent]]
             g == [l \in Seeds |-> RootOf(l)]
  <1>1. Top = CHOOSE t : t = F(t)
    BY DEF Top
  <1>2. g = F(g)
    <2>1. ASSUME NEW l \in Seeds
          PROVE  g[l] = IF lots[l].parent = 0 THEN l ELSE g[lots[l].parent]
      BY RootNumber
    <2> QED BY <2>1
  <1> HIDE DEF F
  <1>3. Top = F(Top)
    BY <1>1, <1>2
  <1> DEFINE B == {l \in Seeds : Top[l] # g[l]}
  <1>4. SUFFICES ASSUME B # {}
                 PROVE  FALSE
    OBVIOUS
  <1>5. B \subseteq Nat
    BY RootNumber
  <1>6. PICK l \in B : \A x \in B : l <= x
    BY <1>4, <1>5, LeastNumber
  <1>7. l \in Seeds /\ Top[l] # g[l] /\ l \in Nat
    BY <1>5, <1>6
  <1>8. Top[l] = IF lots[l].parent = 0 THEN l ELSE Top[lots[l].parent]
    BY <1>3, <1>7 DEF F
  <1>9. g[l] = IF lots[l].parent = 0 THEN l ELSE g[lots[l].parent]
    BY <1>7, RootNumber
  <1>10. lots[l].parent # 0
    BY <1>7, <1>8, <1>9
  <1>11. PICK p \in Seeds : p = lots[l].parent /\ p < l /\ p \in Nat
    BY <1>7, <1>10, RootNumber
  <1>12. p \in B
    BY <1>7, <1>8, <1>9, <1>10, <1>11
  <1> QED BY <1>6, <1>7, <1>11, <1>12

LEMMA DepthIs ==
    ASSUME Tables, Lineage
    PROVE  \A l \in Seeds : Depth[l] = lots[l].level
  <1> DEFINE F(t) == [l \in Seeds |-> IF lots[l].parent = 0 THEN 0 ELSE 1 + t[lots[l].parent]]
             g == [l \in Seeds |-> lots[l].level]
  <1>1. Depth = CHOOSE t : t = F(t)
    BY DEF Depth
  <1>2. ASSUME NEW l \in Seeds
        PROVE  g[l] = IF lots[l].parent = 0 THEN 0 ELSE 1 + g[lots[l].parent]
    <2>1. CASE lots[l].parent = 0
      BY <2>1, RootNumber
    <2>2. CASE lots[l].parent # 0
      <3>1. PICK p \in Seeds : p = lots[l].parent /\ lots[l].level = lots[p].level + 1
        BY <2>2, RootNumber
      <3>2. PICK n \in Nat : n = lots[p].level
        BY RootNumber
      <3>3. n + 1 = 1 + n
        BY ONLY n \in Nat
      <3> QED BY <2>2, <3>1, <3>2, <3>3
    <2> QED BY <2>1, <2>2
  <1>3. g = F(g)
    BY <1>2
  <1> HIDE DEF F
  <1>4. Depth = F(Depth)
    BY <1>1, <1>3
  <1> DEFINE B == {l \in Seeds : Depth[l] # g[l]}
  <1>5. SUFFICES ASSUME B # {}
                 PROVE  FALSE
    OBVIOUS
  <1>6. B \subseteq Nat
    BY RootNumber
  <1>7. PICK l \in B : \A x \in B : l <= x
    BY <1>5, <1>6, LeastNumber
  <1>8. l \in Seeds /\ Depth[l] # g[l] /\ l \in Nat
    BY <1>6, <1>7
  <1>9. Depth[l] = IF lots[l].parent = 0 THEN 0 ELSE 1 + Depth[lots[l].parent]
    BY <1>4, <1>8 DEF F
  <1>10. g[l] = IF lots[l].parent = 0 THEN 0 ELSE 1 + g[lots[l].parent]
    BY <1>2, <1>8
  <1>11. lots[l].parent # 0
    BY <1>8, <1>9, <1>10
  <1>12. PICK p \in Seeds : p = lots[l].parent /\ p < l /\ p \in Nat
    BY <1>8, <1>11, RootNumber
  <1>13. p \in B
    BY <1>8, <1>9, <1>10, <1>11, <1>12
  <1> QED BY <1>7, <1>8, <1>12, <1>13

LEMMA LineageIs == Tables /\ Lineage /\ Codes => LineageSound
  <1> SUFFICES ASSUME Tables, Lineage, Codes
               PROVE  LineageSound
    OBVIOUS
  <1>1. ASSUME NEW l \in Seeds
        PROVE  /\ lots[l].parent < l
               /\ lots[l].parent # 0 => lots[l].root = Top[l]
               /\ lots[l].level = Depth[l]
    <2>1. Top[l] = RootOf(l) /\ Depth[l] = lots[l].level
      BY TopIs, DepthIs
    <2> QED BY <2>1, RootNumber
  <1> QED BY <1>1 DEF LineageSound, Codes

-----------------------------------------------------------------------------
(* The whole specification.                                                *)

SInv == IInv /\ Asked /\ Books

LEMMA RequestsNamed ==
    ASSUME NEW req \in Requests
    PROVE  Named(req)
  <1>1. PICK named \in SUBSET Ids : req \in [named -> 1..MaxQty]
    BY DEF Requests
  <1>2. MaxQty \in Nat
    BY StockAssumption
  <1>3. DOMAIN req = named /\ \A l \in named : req[l] \in 1..MaxQty
    BY <1>1
  <1>4. 1..MaxQty \subseteq Nat \ {0}
    BY <1>2
  <1> QED BY <1>3, <1>4 DEF Named

(* A transfer that stays pending asks for what it asked for.               *)
LEMMA AskedKeeps ==
    ASSUME Asked, Ids \subseteq Ids',
           \A t \in Transfers : pending'[t].status = "Pending" =>
              /\ pending[t].status = "Pending" /\ pending'[t].req = pending[t].req
              /\ pending'[t].dest = pending[t].dest
    PROVE  Asked'
  <1>1. ASSUME NEW t \in Transfers, pending'[t].status = "Pending"
        PROVE  /\ DOMAIN pending'[t].req \subseteq Ids'
               /\ \A l \in DOMAIN pending'[t].req : pending'[t].req[l] \in Nat \ {0}
               /\ pending'[t].dest \in Places
    BY <1>1 DEF Asked, Named
  <1> QED BY <1>1 DEF Asked, Named

LEMMA AskedMarked ==
    ASSUME IInv, Asked, Ids \subseteq Ids', NEW t \in Transfers, NEW word, word # "Pending",
           pending' = [pending EXCEPT ![t].status = word]
    PROVE  Asked'
  <1>1. pending'[t].status = word /\ \A u \in Transfers \ {t} : pending'[u] = pending[u]
    BY Marking
  <1> QED BY <1>1, AskedKeeps

LEMMA AskedSubmitted ==
    ASSUME IInv, Asked, NEW t \in Transfers, NEW req \in Requests, NEW dest \in Places,
           Submit(t, req, dest)
    PROVE  Asked'
  <1> DEFINE new == [status |-> "Pending", req |-> req, dest |-> dest, reviews |-> Reviews(t) + 1]
  <1>1. pending' = [pending EXCEPT ![t] = new] /\ lots' = lots
    BY DEF Submit
  <1>2. new.req = req /\ new.dest = dest
    OBVIOUS
  <1> HIDE DEF new
  <1>3. pending'[t] = new /\ \A u \in Transfers \ {t} : pending'[u] = pending[u]
    BY <1>1 DEF IInv, Rows
  <1>4. Named(req)
    BY RequestsNamed
  <1>5. Ids' = Ids
    BY <1>1 DEF Ids
  <1>6. ASSUME NEW u \in Transfers, pending'[u].status = "Pending"
        PROVE  /\ DOMAIN pending'[u].req \subseteq Ids'
               /\ \A l \in DOMAIN pending'[u].req : pending'[u].req[l] \in Nat \ {0}
               /\ pending'[u].dest \in Places
    <2>1. CASE u = t
      BY <1>2, <1>3, <1>4, <1>5, <2>1 DEF Named
    <2>2. CASE u # t
      BY <1>3, <1>5, <1>6, <2>2 DEF Asked, Named
    <2> QED BY <2>1, <2>2
  <1> QED BY <1>6 DEF Asked, Named

LEMMA AskedWithdrawn ==
    ASSUME IInv, Asked, NEW t \in Transfers, Withdraw(t)
    PROVE  Asked'
  <1>1. /\ pending' = [pending EXCEPT ![t] = None] /\ lots' = lots /\ None.status # "Pending"
    BY DEF Withdraw, None
  <1>2. pending'[t] = None /\ \A u \in Transfers \ {t} : pending'[u] = pending[u]
    BY <1>1 DEF IInv, Rows
  <1>3. Ids' = Ids
    BY <1>1 DEF Ids
  <1> QED BY <1>1, <1>2, <1>3, AskedKeeps

LEMMA UntouchedKeeps ==
    ASSUME Books, UNCHANGED <<lots, net, issues, surplus>>
    PROVE  Books' /\ Ids \subseteq Ids'
  <1>1. Ids' = Ids /\ Seeds' = Seeds
    BY DEF Ids, Seeds
  <1>2. \A l : OpenIssues(l)' = OpenIssues(l) /\ RootOf(l)' = RootOf(l)
    BY DEF OpenIssues, RootOf
  <1>3. Tables' /\ Issued'
    BY <1>1, <1>2 DEF Books, Tables, Issued
  <1>4. Lineage' /\ Codes'
    BY <1>1, <1>2 DEF Books, Lineage, Origin, Child, Codes, Siblings
  <1>10. \A l : Away(l)' = Away(l)
    <2>1. IssuesKept
      BY DEF IssuesKept
    <2> QED BY <2>1, AwayKept
  <1>5. MovementsExplainStock'
    BY <1>1, <1>10 DEF Books, MovementsExplainStock
  <1>6. Bought' = Bought
    BY <1>1 DEF Bought
  <1>7. \A l : Held(l)' = Held(l)
    BY <1>2 DEF Held
  <1>8. [l \in Ids |-> Held(l)]' = [l \in Ids |-> Held(l)]
    BY <1>1, <1>7
  <1>9. StockConserved'
    BY <1>6, <1>8 DEF Books, StockConserved
  <1> QED BY <1>1, <1>3, <1>4, <1>5, <1>9 DEF Books

LEMMA InitBooks ==
    ASSUME Init
    PROVE  Books
  <1>1. PICK p \in Purchases :
            lots = [k \in DOMAIN p |->
                      [kind |-> p[k].kind, qty |-> p[k].qty, status |-> "IN STOCK", place |-> Home,
                       parent |-> 0, root |-> 0, level |-> 0, sibling |-> 0, entry |-> p[k].qty]]
    BY DEF Init
  <1>2. PICK n \in Nat : DOMAIN p = 1..n /\ n = Len(p)
    BY StockAssumption
  <1>3. \A k \in 1..n : p[k].kind \in {"seed", "rough", "growth_run"} /\ p[k].qty \in Nat
    <2>1. PICK K : K = [kind : {"seed", "rough", "growth_run"}, qty : Nat \ {0}]
      OBVIOUS
    <2>2. p \in Seq(K)
      BY <2>1, StockAssumption
    <2>3. \A k \in 1..n : p[k] \in K
      BY ONLY <1>2, <2>2
    <2> QED BY ONLY <2>1, <2>3
  <1>4. Ids = 1..n /\ issues = <<>> /\ surplus = 0 /\ net = [l \in 1..n |-> 0]
    BY <1>1, <1>2 DEF Init, Ids
  <1>5. ASSUME NEW k \in Ids
        PROVE  /\ lots[k] \in Lot /\ lots[k].status = "IN STOCK" /\ lots[k].parent = 0
               /\ lots[k].root = 0 /\ lots[k].level = 0 /\ lots[k].sibling = 0
               /\ lots[k].qty = lots[k].entry
    <2>1. Home \in Places
      BY StockAssumption
    <2> QED BY <1>1, <1>2, <1>3, <1>4, <2>1 DEF Lot
  <1>6. Tables
    <2>1. lots \in [1..n -> Lot]
      BY <1>1, <1>2, <1>4, <1>5
    <2>2. lots \in Seq(Lot) /\ Len(lots) = n
      BY <2>1, RewriteRows
    <2>3. net \in Seq(Int) /\ Len(net) = n
      <3>1. net \in [1..n -> Int]
        BY <1>4
      <3> QED BY <3>1, RewriteRows
    <2>4. issues \in Seq(Issue) /\ surplus \in Int
      BY <1>4
    <2> QED BY <2>2, <2>3, <2>4 DEF Tables
  <1>7. DOMAIN issues = {}
    BY <1>4
  <1>8. \A l : OpenIssues(l) = {}
    BY <1>7 DEF OpenIssues
  <1>9. Issued
    BY <1>5, <1>7, <1>8 DEF Issued
  <1>10. Lineage
    BY <1>5 DEF Lineage, Seeds, Origin
  <1>11. Codes
    BY <1>5 DEF Codes
  <1>12. MovementsExplainStock
    <2>1. ASSUME NEW l \in Ids
          PROVE  lots[l].qty + Away(l) = lots[l].entry + net[l]
      <3>1. PICK q \in Nat : q = lots[l].qty /\ q = lots[l].entry
        BY <1>5, <1>6, RowFields
      <3>2. net[l] = 0 /\ q + 0 = q
        BY <1>4
      <3>3. Away(l) = 0
        <4>1. PartIssues(l) = {}
          BY <1>7 DEF PartIssues
        <4> QED BY <1>6, <4>1, AwayIs, SumEmpty DEF AwayTold, AwayRight
      <3> QED BY <3>1, <3>2, <3>3
    <2> QED BY <2>1 DEF MovementsExplainStock
  <1>13. StockConserved
    <2>1. Bought = SumFunctionOnSet([l \in Ids |-> BoughtFor(l)], Ids)
      BY <1>6, BoughtIs
    <2>2. \A l \in Ids : Held(l) = BoughtFor(l)
      BY <1>5, <1>8 DEF Held, BoughtFor
    <2>3. [l \in Ids |-> Held(l)] = [l \in Ids |-> BoughtFor(l)]
      BY <2>2
    <2>4. SumFunction([l \in Ids |-> BoughtFor(l)])
             = SumFunctionOnSet([l \in Ids |-> BoughtFor(l)], Ids)
      BY DEF SumFunction
    <2>5. Bought \in Int
      <3>1. \A l \in Ids : [x \in Ids |-> BoughtFor(x)][l] \in Int
        BY <1>6, BoughtForInt
      <3>2. IsFiniteSet(Ids)
        BY <1>6, TableRows
      <3> QED BY <2>1, <3>1, <3>2, SumInt
    <2>6. Bought = Bought + surplus
      BY ONLY <1>4, <2>5
    <2> QED BY <2>1, <2>3, <2>4, <2>6 DEF StockConserved
  <1> QED BY <1>6, <1>9, <1>10, <1>11, <1>12, <1>13 DEF Books

LEMMA InitSInv ==
    ASSUME Init
    PROVE  SInv
  <1>1. \A t \in Transfers : pending[t].status # "Pending"
    BY DEF Init, None
  <1> QED BY <1>1, InitIInv, InitBooks DEF SInv, Asked

LEMMA StepSInv ==
    ASSUME SInv, [Next]_vars
    PROVE  SInv'
  <1>1. IInv /\ Asked /\ Books /\ IInv'
    BY StepIInv DEF SInv
  <1>2. SUFFICES Asked' /\ Books'
    BY <1>1 DEF SInv
  <1>3. ASSUME Ids \subseteq Ids', pending' = pending
        PROVE  Asked'
    BY <1>1, <1>3, AskedKeeps
  <1>4. ASSUME NEW l \in Ids, NEW parts \in Divisions(l), Split(l, parts)
        PROVE  Asked' /\ Books'
    <2>1. pending' = pending
      BY <1>4 DEF Split
    <2>2. Books' /\ Ids \subseteq Ids'
      BY <1>1, <1>4, SplitKeeps
    <2> QED BY <1>3, <2>1, <2>2
  <1>5. ASSUME NEW parents \in SUBSET Ids, Cardinality(parents) = 2, Mix(parents)
        PROVE  Asked' /\ Books'
    <2>1. parents # {}
      BY <1>5, FS_EmptySet
    <2>2. pending' = pending
      BY <1>5 DEF Mix
    <2>3. Books' /\ Ids \subseteq Ids'
      BY <1>1, <1>5, <2>1, MixKeeps
    <2> QED BY <1>3, <2>2, <2>3
  <1>6. ASSUME NEW l \in Ids, Sell(l)
        PROVE  Asked' /\ Books'
    <2>1. pending' = pending
      BY <1>6 DEF Sell
    <2>2. Books' /\ Ids \subseteq Ids'
      BY <1>1, <1>6, SellKeeps
    <2> QED BY <1>3, <2>1, <2>2
  <1>15. ASSUME NEW l \in Ids, NEW qty \in 1..lots[l].qty, IssueLot(l, qty) \/ IssuePart(l, qty)
        PROVE  Asked' /\ Books'
    <2>1. pending' = pending
      BY <1>15 DEF IssueLot, IssuePart
    <2>2. qty \in Nat /\ qty > 0
      <3>1. PICK h \in Nat : h = lots[l].qty
        BY <1>1, RowFields DEF Books
      <3> QED BY ONLY <3>1, h \in Nat, qty \in 1..lots[l].qty
    <2>3. Books' /\ Ids \subseteq Ids'
      BY <1>1, <1>15, <2>2, IssueLotKeeps, IssuePartKeeps
    <2> QED BY <1>3, <2>1, <2>3
  <1>7. ASSUME NEW i \in DOMAIN issues, NEW qty \in 1..issues[i].remaining, Return(i, qty)
        PROVE  Asked' /\ Books'
    <2>1. pending' = pending
      BY <1>7 DEF Return
    <2>2. Books' /\ Ids \subseteq Ids'
      BY <1>1, <1>7, ReturnKeeps
    <2> QED BY <1>3, <2>1, <2>2
  <1>8. ASSUME NEW req \in Requests, NEW dest \in Places, TransferNow(req, dest)
        PROVE  Asked' /\ Books'
    <2>1. pending' = pending
      BY <1>8 DEF TransferNow
    <2>2. Books' /\ Ids \subseteq Ids'
      BY <1>1, <1>8, RequestsNamed, TransferNowKeeps
    <2> QED BY <1>3, <2>1, <2>2
  <1>9. ASSUME NEW req \in Requests, NEW dest \in Places, NEW t \in Transfers,
               Submit(t, req, dest)
        PROVE  Asked' /\ Books'
    <2>1. UNCHANGED <<lots, net, issues, surplus>>
      BY <1>9 DEF Submit
    <2> QED BY <1>1, <1>9, <2>1, AskedSubmitted, UntouchedKeeps
  <1>10. ASSUME NEW t \in Transfers, Approve(t)
         PROVE  Asked' /\ Books'
    <2>1. PICK req, dest : req = pending[t].req /\ dest = pending[t].dest
      OBVIOUS
    <2>2. /\ pending[t].status = "Pending" /\ MoveLots(req, dest)
          /\ \A l \in DOMAIN req : Transferable(l)
          /\ pending' = [pending EXCEPT ![t].status = "Approved"]
          /\ issues' = issues /\ surplus' = surplus + Taken(req)
      BY <1>10, <2>1 DEF Approve, Approvable, IsPending
    <2>3. Named(req) /\ dest \in Places
      BY <1>1, <2>1, <2>2 DEF Asked
    <2>4. Books' /\ Ids \subseteq Ids'
      BY <1>1, <2>2, <2>3, MoveLotsKeeps
    <2> QED BY <1>1, <2>2, <2>4, AskedMarked
  <1>11. ASSUME NEW t \in Transfers, BeginReject(t)
         PROVE  Asked' /\ Books'
    <2>1. UNCHANGED <<lots, net, issues, surplus, pending>>
      BY <1>11 DEF BeginReject
    <2> QED BY <1>1, <1>3, <2>1, UntouchedKeeps
  <1>12. ASSUME NEW t \in Transfers, FinishReject(t)
         PROVE  Asked' /\ Books'
    <2>1. /\ UNCHANGED <<lots, net, issues, surplus>>
          /\ pending' = [pending EXCEPT ![t].status = "Rejected"]
      BY <1>12 DEF FinishReject
    <2>2. Books' /\ Ids \subseteq Ids'
      BY <1>1, <2>1, UntouchedKeeps
    <2> QED BY <1>1, <2>1, <2>2, AskedMarked
  <1>13. ASSUME NEW t \in Transfers, Withdraw(t)
         PROVE  Asked' /\ Books'
    <2>1. UNCHANGED <<lots, net, issues, surplus>>
      BY <1>13 DEF Withdraw
    <2> QED BY <1>1, <1>13, <2>1, AskedWithdrawn, UntouchedKeeps
  <1>14. ASSUME UNCHANGED vars
         PROVE  Asked' /\ Books'
    <2>1. UNCHANGED <<lots, net, issues, surplus, pending>>
      BY <1>14 DEF vars
    <2> QED BY <1>1, <1>3, <2>1, UntouchedKeeps
  <1> QED BY <1>4, <1>5, <1>6, <1>7, <1>8, <1>9, <1>10, <1>11, <1>12, <1>13, <1>14, <1>15 DEF Next

(* What the records say of the stock stays true through every request.     *)
THEOREM StockInvariant == Spec => []SInv
  BY InitSInv, StepSInv, PTL DEF Spec

(* Whatever is split, mixed, moved, sold, issued and returned, and however *)
(* transfers under review interleave with it, the lots account for what    *)
(* was bought, and for what approvals took from lots in a process: the     *)
(* handlers of lotMovements.js, stockTransfer.js and processIssues.js.     *)
THEOREM StockIsConserved == Spec => []StockConserved
  <1>1. SInv => StockConserved
    BY DEF SInv, Books
  <1> QED BY <1>1, StockInvariant, PTL

(* Every lot that no process consumed holds what its own entry, its        *)
(* movement rows (lot_movement_parents, lot_movement_children) and the     *)
(* issues of parts of it (lot_process_issues) explain.                     *)
THEOREM MovementsExplain == Spec => []MovementsExplainStock
  <1>1. SInv => MovementsExplainStock
    BY DEF SInv, Books
  <1> QED BY <1>1, StockInvariant, PTL

(* root_lot_id and split_level of every seed lot are the end and the   *)
(* length of its chain of parents, which only leads to earlier lots, and   *)
(* no code is given twice to lots split from one parent.                   *)
THEOREM LineageHolds == Spec => []LineageSound
  <1>1. SInv => LineageSound
    BY LineageIs DEF SInv, Books
  <1> QED BY <1>1, StockInvariant, PTL

=============================================================================
