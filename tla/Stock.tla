------------------------------- MODULE Stock -------------------------------
(***************************************************************************)
(* Stock lots and what divides, joins and moves them: splits and mixes,    *)
(* direct stock transfers, transfers that a second user approves, sales,   *)
(* and the issue of lots, or of part of one, to a process and their return.*)
(*                                                                         *)
(* Each handler locks the rows it needs FOR UPDATE and decides on what it  *)
(* reads under the lock, so it is one action; the rejection of a transfer  *)
(* reads without a lock and writes in a later statement.  A table is the   *)
(* sequence of its rows and 0 a NULL key.  A lot's qty is its effective    *)
(* quantity: the weight when its unit is CT, else the qty column.          *)
(***************************************************************************)
EXTENDS Integers, Sequences, FiniteSets, FiniteSetsExt

CONSTANTS
    Purchases,    \* what may be bought at the start: sequences of [kind, qty]
    Places,       \* locations.id
    Home,         \* where the purchased lots are
    Transfers,    \* pending_transfers.transfer_id, chosen by the client
    Ops,          \* the handlers the users call
    MaxLots, MaxIssues, \* bounds: rows the tables may hold
    MaxLines, MaxQty, \* bounds: lots a transfer names, quantity it asks of one
    MaxReviews    \* bound: submissions of one transfer

AllOps == {"split", "mix", "sell", "issue", "direct", "pending"}

ASSUME StockAssumption ==
    /\ Purchases \subseteq Seq([kind : {"seed", "rough", "growth_run"}, qty : Nat \ {0}])
    /\ Home \in Places /\ Ops \subseteq AllOps
    /\ {MaxLots, MaxIssues, MaxLines, MaxQty, MaxReviews} \subseteq Nat

VARIABLES
    lots,      \* inventory
    net,       \* per lot: quantities of its lot_movement_children minus _parents
    issues,    \* lot_process_issues
    pending,   \* pending_transfers, each with its pending_transfer_lots
    rejecting, \* the transfers whose rejection has read the status Pending
    carried,   \* history: how often a transfer was carried out since it was submitted
    overtaken, \* history: the transfers a rejection overwrote after they left Pending
    surplus    \* history: what transfers took from lots that were in a process

vars == <<lots, net, issues, pending, rejecting, carried, overtaken, surplus>>

Dead == {"CONSUMED", "SOLD"}
Lot == [kind : {"seed", "rough", "growth_run"}, qty : Nat, status : {"IN STOCK", "IN PROCESS"} \cup Dead,
        place : Places, parent : Nat, root : Nat, level : Nat, sibling : Nat, entry : Nat]
(* source_lot_id, process_lot_id, issued_qty, remaining_in_process.        *)
Issue == [source : Nat, lot : Nat, issued : Nat, remaining : Nat]
None == [status |-> "none"]

Ids == DOMAIN lots
OpenIssues(l) == {i \in DOMAIN issues : issues[i].lot = l /\ issues[i].remaining > 0}
(* A request names at most MaxLines lots, each with the quantity asked for. *)
Requests == UNION {[named -> 1..MaxQty] :
                      named \in {s \in SUBSET Ids : Cardinality(s) \in 1..MaxLines}}

-----------------------------------------------------------------------------
(* A row for a piece of lot l.  root_lot_id is the parent's, or the parent *)
(* itself when it has none.                                                *)
RootOf(l) == IF lots[l].root # 0 THEN lots[l].root ELSE l

Piece(l, qty) ==
    [lots[l] EXCEPT !.qty = qty, !.status = "IN STOCK", !.parent = l, !.root = RootOf(l),
                    !.level = @ + 1, !.sibling = 0, !.entry = 0]
(* A piece whose handler records no genealogy.                             *)
Unrelated(l, qty) == [Piece(l, qty) EXCEPT !.parent = 0, !.root = 0, !.level = 0]

(* nextSiblingCode: one more than the largest number in use.               *)
nextSiblingCode_Index(l) == 1
nextSiblingCode(l) == 1 + Max({0} \cup {lots[c].sibling : c \in {x \in Ids : lots[x].parent = l}})

Consume(row) == [row EXCEPT !.qty = 0, !.status = "CONSUMED"]

-----------------------------------------------------------------------------
(* POST /lot-movements/split                                               *)

Splittable(l) ==
    /\ lots[l].kind # "growth_run"
    /\ lots[l].status = "IN STOCK"
    /\ lots[l].qty > 0

Parts(n) == {<<n>>} \cup {<<a, n - a>> : a \in 1..(n - 1)}

(* The seeds not given to a child stay with the parent, other kinds are    *)
(* divided exactly.                                                        *)
Divisions_Over(l) == UNION {Parts(n) : n \in 1..(lots[l].qty + 1)}
Divisions(l) ==
    IF lots[l].kind = "seed" THEN UNION {Parts(n) : n \in 1..lots[l].qty}
    ELSE Parts(lots[l].qty)

SplitChild(l, parts, k) ==
    IF lots[l].kind = "seed"
    THEN [Piece(l, parts[k]) EXCEPT !.sibling = nextSiblingCode(l) + k - 1]
    ELSE Unrelated(l, parts[k])

AfterSplit_All(row, given) == Consume(row)
AfterSplit(row, given) ==
    IF row.kind = "seed" /\ given < row.qty THEN [row EXCEPT !.qty = @ - given]
    ELSE Consume(row)

Split(l, parts) ==
    LET given == SumFunction(parts)
    IN  /\ "split" \in Ops
        /\ Splittable(l)
        /\ Len(lots) + Len(parts) <= MaxLots
        /\ lots' = [lots EXCEPT ![l] = AfterSplit(@, given)]
                   \o [k \in DOMAIN parts |-> SplitChild(l, parts, k)]
        /\ net' = [net EXCEPT ![l] = @ - given] \o parts
        /\ UNCHANGED <<issues, pending, rejecting, carried, overtaken, surplus>>

(* POST /lot-movements/mix                                                 *)
Mixable(l) == lots[l].kind # "growth_run" /\ lots[l].status = "IN STOCK" /\ lots[l].qty > 0

(* The mixed lot takes the place of the first parent, the one of least id; *)
(* a mixed seed lot starts a genealogy of its own.                         *)
Mixed(parents, total) ==
    LET first == Min(parents)
        id == Len(lots) + 1
    IN  [Unrelated(first, total) EXCEPT !.root = IF lots[first].kind = "seed" THEN id ELSE 0]

Mix(parents) ==
    LET total == SumFunction([l \in parents |-> lots[l].qty])
    IN  /\ "mix" \in Ops
        /\ \A l \in parents : Mixable(l)
        /\ \A k, l \in parents : lots[k].kind = lots[l].kind
        /\ Len(lots) < MaxLots
        /\ lots' = Append([l \in Ids |-> IF l \in parents THEN Consume(lots[l]) ELSE lots[l]],
                          Mixed(parents, total))
        /\ net' = Append([l \in Ids |-> IF l \in parents THEN net[l] - lots[l].qty ELSE net[l]],
                         total)
        /\ UNCHANGED <<issues, pending, rejecting, carried, overtaken, surplus>>

(* POST /invoices, one line.                                               *)
Sellable(l) == lots[l].status = "IN STOCK"
Sell(l) ==
    /\ "sell" \in Ops
    /\ Sellable(l)
    /\ lots' = [lots EXCEPT ![l].status = "SOLD"]
    /\ UNCHANGED <<net, issues, pending, rejecting, carried, overtaken, surplus>>

-----------------------------------------------------------------------------
(* POST /process-issues and /process-issues/:id/return, one lot a request  *)
(* and usable returns (module ShopFloor has all of it).                    *)

(* A lot that a process divides leaves with a quantity of its own, told by *)
(* the issue or the return; its root_lot_id is kept for seeds only.        *)
ProcessLot(l, qty) ==
    [Piece(l, qty) EXCEPT !.entry = qty,
                          !.root = IF lots[l].kind = "seed" THEN @ ELSE 0,
                          !.level = IF lots[l].kind = "seed" THEN @ ELSE 0]

(* The lot itself goes into the process, a biscuit whatever is asked of it.*)
IssueLot(l, qty) ==
    /\ "issue" \in Ops
    /\ lots[l].status = "IN STOCK" /\ qty \in 1..lots[l].qty
    /\ qty = lots[l].qty \/ lots[l].kind = "growth_run"
    /\ Len(issues) < MaxIssues
    /\ lots' = [lots EXCEPT ![l].status = "IN PROCESS"]
    /\ issues' = Append(issues, [source |-> l, lot |-> l, issued |-> qty, remaining |-> qty])
    /\ UNCHANGED <<net, pending, rejecting, carried, overtaken, surplus>>

(* Part of a lot goes as a new lot, the rest stays in stock; no movement   *)
(* row is written.                                                         *)
IssuedPart(l, qty) ==
    [ProcessLot(l, qty) EXCEPT !.status = "IN PROCESS",
                               !.sibling = IF lots[l].kind = "seed" THEN nextSiblingCode(l) ELSE 0]

IssuePart(l, qty) ==
    /\ "issue" \in Ops
    /\ lots[l].status = "IN STOCK" /\ lots[l].kind # "growth_run"
    /\ qty \in 1..(lots[l].qty - 1)
    /\ Len(issues) < MaxIssues /\ Len(lots) < MaxLots
    /\ lots' = Append([lots EXCEPT ![l].qty = @ - qty], IssuedPart(l, qty))
    /\ net' = Append(net, 0)
    /\ issues' = Append(issues, [source |-> l, lot |-> Len(lots) + 1,
                                 issued |-> qty, remaining |-> qty])
    /\ UNCHANGED <<pending, rejecting, carried, overtaken, surplus>>

(* The return lot holds what the issue, not the lot, still accounts for. A *)
(* biscuit is returned in place.                                           *)
Return(i, qty) ==
    LET l == issues[i].lot
        final == qty = issues[i].remaining
        biscuit == lots[l].kind = "growth_run"
    IN  /\ qty \in 1..issues[i].remaining
        /\ biscuit \/ Len(lots) < MaxLots
        /\ issues' = [issues EXCEPT ![i].remaining = @ - qty]
        /\ IF biscuit
           THEN /\ lots' = [lots EXCEPT ![l].status = IF final THEN "IN STOCK" ELSE @]
                /\ UNCHANGED net
           ELSE /\ lots' = Append([lots EXCEPT ![l] = IF final THEN Consume(@) ELSE @],
                                  ProcessLot(l, qty))
                /\ net' = Append(net, 0)
        /\ UNCHANGED <<pending, rejecting, carried, overtaken, surplus>>

-----------------------------------------------------------------------------
(* Stock transfers.  A lot of which less than all is asked for is divided: *)
(* the part moves as a new lot.  Any other lot moves whole.                *)

PartMoves(l, asked) == asked < lots[l].qty

Divided(req) == {l \in DOMAIN req : PartMoves(l, req[l])}
(* The lots are read without ORDER BY: their parts come in any order.      *)
Orders(D) == Bijection(1..Cardinality(D), D)

Moved(req, dest, l) ==
    IF l \notin DOMAIN req THEN lots[l]
    ELSE IF l \in Divided(req) THEN [lots[l] EXCEPT !.qty = @ - req[l]]
    ELSE [lots[l] EXCEPT !.place = dest]

MoveLots(req, dest) ==
    LET D == Divided(req)
    IN  /\ Len(lots) + Cardinality(D) <= MaxLots
        /\ \E parts \in Orders(D) :
              lots' = [l \in Ids |-> Moved(req, dest, l)]
                      \o [k \in DOMAIN parts |-> [Piece(parts[k], req[parts[k]]) EXCEPT !.place = dest]]
              /\ net' = [l \in Ids |-> IF l \in D THEN net[l] - req[l] ELSE net[l]]
                        \o [k \in DOMAIN parts |-> req[parts[k]]]

(* POST /stock-transfer: every lot in stock and at the source.             *)
TransferNow(req, dest) ==
    /\ "direct" \in Ops
    /\ \A l \in DOMAIN req : lots[l].status = "IN STOCK" /\ lots[l].place # dest
    /\ \A k, l \in DOMAIN req : lots[k].place = lots[l].place
    /\ MoveLots(req, dest)
    /\ UNCHANGED <<issues, pending, rejecting, carried, overtaken, surplus>>

(* POST /stock-transfer/pending: the lots are not looked at.  Submitting   *)
(* an id again replaces its lots and makes it Pending, whatever it was.    *)
Reviews(t) == IF pending[t] = None THEN 0 ELSE pending[t].reviews
Submit(t, req, dest) ==
    /\ "pending" \in Ops
    /\ Reviews(t) < MaxReviews
    /\ pending' = [pending EXCEPT ![t] = [status |-> "Pending", req |-> req, dest |-> dest,
                                          reviews |-> Reviews(t) + 1]]
    /\ carried' = [carried EXCEPT ![t] = 0]
    /\ overtaken' = overtaken \ {t}
    /\ UNCHANGED <<lots, net, issues, rejecting, surplus>>

IsPending(t) == pending[t].status = "Pending"

Approvable_Again(t) == pending[t].status \in {"Pending", "Approved"}
Approvable(t) == IsPending(t)

(* The statuses a transfer takes: a lot in a process is let through, save  *)
(* a biscuit.                                                              *)
Transferable(l) ==
    \/ lots[l].status = "IN STOCK"
    \/ lots[l].status = "IN PROCESS" /\ lots[l].kind # "growth_run"

Taken(req) == SumFunctionOnSet(req, {l \in Divided(req) : lots[l].status = "IN PROCESS"})

(* POST /stock-transfer/pending/:id/approve                                *)
Approve(t) ==
    /\ Approvable(t)
    /\ \A l \in DOMAIN pending[t].req : Transferable(l)
    /\ MoveLots(pending[t].req, pending[t].dest)
    /\ pending' = [pending EXCEPT ![t].status = "Approved"]
    /\ carried' = [carried EXCEPT ![t] = @ + 1]
    /\ surplus' = surplus + Taken(pending[t].req)
    /\ UNCHANGED <<issues, rejecting, overtaken>>

(* POST /stock-transfer/pending/:id/reject: the status is read, then the   *)
(* row updated by its id alone.                                            *)
BeginReject(t) ==
    /\ IsPending(t)
    /\ t \notin rejecting
    /\ rejecting' = rejecting \cup {t}
    /\ UNCHANGED <<lots, net, issues, pending, carried, overtaken, surplus>>

FinishReject(t) ==
    /\ t \in rejecting
    /\ rejecting' = rejecting \ {t}
    /\ pending' = [pending EXCEPT ![t].status = "Rejected"]
    /\ overtaken' = IF IsPending(t) THEN overtaken ELSE overtaken \cup {t}
    /\ UNCHANGED <<lots, net, issues, carried, surplus>>

(* DELETE /stock-transfer/pending/:id, in one statement.  A transfer       *)
(* submitted under the id later is another row, so the UPDATE of a         *)
(* rejection that had read this one will match nothing.                    *)
Withdraw(t) ==
    /\ IsPending(t)
    /\ pending' = [pending EXCEPT ![t] = None]
    /\ rejecting' = rejecting \ {t}
    /\ UNCHANGED <<lots, net, issues, carried, overtaken, surplus>>

-----------------------------------------------------------------------------
Init ==
    /\ lots \in {[k \in DOMAIN p |->
                   [kind |-> p[k].kind, qty |-> p[k].qty, status |-> "IN STOCK", place |-> Home,
                    parent |-> 0, root |-> 0, level |-> 0, sibling |-> 0, entry |-> p[k].qty]]
                : p \in Purchases}
    /\ net = [l \in Ids |-> 0]
    /\ issues = <<>>
    /\ pending = [t \in Transfers |-> None]
    /\ rejecting = {} /\ overtaken = {}
    /\ carried = [t \in Transfers |-> 0]
    /\ surplus = 0

Next ==
    \/ \E l \in Ids : \E parts \in Divisions(l) : Split(l, parts)
    \/ \E parents \in {s \in SUBSET Ids : Cardinality(s) = 2} : Mix(parents)
    \/ \E l \in Ids : Sell(l) \/ \E qty \in 1..lots[l].qty : IssueLot(l, qty) \/ IssuePart(l, qty)
    \/ \E i \in DOMAIN issues : \E qty \in 1..issues[i].remaining : Return(i, qty)
    \/ \E req \in Requests, dest \in Places :
          TransferNow(req, dest) \/ \E t \in Transfers : Submit(t, req, dest)
    \/ \E t \in Transfers : Approve(t) \/ BeginReject(t) \/ FinishReject(t) \/ Withdraw(t)

Spec == Init /\ [][Next]_vars

-----------------------------------------------------------------------------
(* What a lot accounts for: while a process holds it, the issue's balance, *)
(* save a biscuit, which its process works on in place.                    *)
Held(l) ==
    IF OpenIssues(l) = {} \/ lots[l].kind = "growth_run" THEN lots[l].qty
    ELSE SumFunctionOnSet([i \in DOMAIN issues |-> issues[i].remaining], OpenIssues(l))

(* No chain of splits, mixes, transfers, sales, issues and returns makes   *)
(* or loses stock, with one exception that is accounted for to the piece:  *)
(* a transfer that takes part of a lot already in a process, whose issue   *)
(* is still returned in full.                                              *)
Bought == SumFunction([l \in {x \in Ids : lots[x].parent = 0} |-> lots[l].entry])
StockConserved == SumFunction([l \in Ids |-> Held(l)]) = Bought + surplus

(* What was issued out of a lot under another's number.                    *)
Away(l) ==
    LET parts == {i \in DOMAIN issues : issues[i].source = l /\ issues[i].lot # l}
    IN  SumFunction([i \in parts |-> issues[i].issued])

(* The movement ledger and the issues explain the stock: a lot that no     *)
(* process consumed holds what it was bought, issued or returned with,     *)
(* plus what its movement rows brought it, minus what they took and what   *)
(* was issued out of it, of which no movement row tells.                   *)
MovementsExplainStock ==
    \A l \in Ids :
        (\A i \in DOMAIN issues : issues[i].lot = l => issues[i].remaining > 0)
            => lots[l].qty + Away(l) = lots[l].entry + net[l]

(* The genealogy of seeds is sound, through any mixture of splits,         *)
(* transfers, mixes and returns: a lot's root is the top of its chain of   *)
(* parents and its level the chain's length (the lineage page reads both), *)
(* and no two lots split from one parent ever get the same code, whichever *)
(* requests they come from (the code is UNIQUE: the split would fail).     *)
Seeds == {l \in Ids : lots[l].kind = "seed"}
Top[l \in Seeds] == IF lots[l].parent = 0 THEN l ELSE Top[lots[l].parent]
Depth[l \in Seeds] == IF lots[l].parent = 0 THEN 0 ELSE 1 + Depth[lots[l].parent]
Siblings(a, b) == lots[a].parent = lots[b].parent /\ lots[a].parent # 0
LineageSound ==
    /\ \A l \in Seeds :
          /\ lots[l].parent < l
          /\ lots[l].parent # 0 => lots[l].root = Top[l]
          /\ lots[l].level = Depth[l]
    /\ \A a, b \in Ids :
          Siblings(a, b) /\ lots[a].sibling = lots[b].sibling /\ lots[a].sibling # 0 => a = b

(* The verdict tells what happened: the lots of an Approved transfer were  *)
(* moved once since it was last submitted, those of a Pending or Rejected  *)
(* one were not - unless a rejection that had read Pending overwrote the   *)
(* approval.                                                               *)
VerdictTold ==
    \A t \in Transfers :
        /\ pending[t].status = "Approved" => carried[t] = 1
        /\ pending[t].status = "Pending" => carried[t] = 0
        /\ pending[t].status = "Rejected" /\ t \notin overtaken => carried[t] = 0

=============================================================================
