---------------------------- MODULE Receivables ----------------------------
(***************************************************************************)
(* The invoices of one customer and what settles them: receipts, and       *)
(* journal entries that are allocated to invoices.                         *)
(*                                                                         *)
(* Every request visits its invoices in the order it lists them and writes *)
(* with the last one in hand.  A receipt locks an invoice and then reads   *)
(* it.  An allocation reads what is open in the statement that waits for   *)
(* the lock, and a removal stores a balance it computed before the UPDATE  *)
(* that waits for it: for these two, Look and Lock are separate actions.   *)
(* Amounts are in the smallest unit of currency.                           *)
(***************************************************************************)
EXTENDS InvoiceBooks, Sequences, FiniteSets

CONSTANTS
    NoEntry,     \* the entry of a receipt, which is its own
    Sessions,    \* requests in flight at the same time
    Extras,      \* amounts of a receipt beyond its invoices
    MaxInvoiced, \* bound: the grand totals of the invoices, added up
    MaxCredited  \* bound: what entries credit to the receivables account

ASSUME ReceivablesAssumption ==
    /\ IsFiniteSet(Invoices) /\ IsFiniteSet(Entries)
    /\ NoEntry \notin Entries
    /\ Extras \subseteq Nat /\ MaxInvoiced \in Nat /\ MaxCredited \in Nat

VARIABLE
    sess  \* the requests in flight: what they ask, hold and have read

vars == <<books, sess>>

Amounts == [Invoices -> 0..MaxInvoiced]
Unseen == -1 - MaxInvoiced
Named(alloc) == {i \in Invoices : alloc[i] > 0}

(* The orders in which a request may list a set of invoices.               *)
Orders(S) == {o \in [1..Cardinality(S) -> S] : \A i \in S : \E k \in DOMAIN o : o[k] = i}

Idle == [op |-> "idle", held |-> {}, todo |-> <<>>, seen |-> Unseen]

-----------------------------------------------------------------------------
(* The settlement columns of an invoice.                                   *)

NoInvoice == [total |-> 0, paid |-> 0, due |-> 0, status |-> "UNPAID"]
Exists(i) == invoice[i].total > 0

Columns(total, paid, due) ==
    [total |-> total, paid |-> paid, due |-> due,
     status |-> IF due = 0 THEN "PAID" ELSE IF paid > 0 THEN "PARTIAL" ELSE "UNPAID"]

(* After a receipt: from the new amount_paid.                              *)
AfterReceipt(r, amt) == Columns(r.total, r.paid + amt, Max0(r.total - (r.paid + amt)))

(* getInvoiceOutstanding: what receipts and entries leave open.            *)
Open(i) == invoice[i].total - received[i] - JeSettled(i)

(* syncInvoiceStatus: from what getInvoiceOutstanding found.               *)
AfterSync(r, open) == Columns(r.total, r.total - Max0(open), Max0(open))

-----------------------------------------------------------------------------
(* Row locks on invoices, held until the transaction ends.                 *)

Free(i, s) == \A t \in Sessions \ {s} : i \notin sess[t].held
End(s) == sess' = [sess EXCEPT ![s] = Idle]
Visiting(s) == sess[s].todo # <<>>
Ready(s, op) == sess[s].op = op /\ ~Visiting(s)

(* The rows a removal has deleted do not count for it any more.            *)
OpenTo_All(r, i) == Open(i)
OpenTo(r, i) == Open(i) + IF r.op = "unallocate" THEN r.alloc[i] ELSE 0

Look(s) ==
    LET r == sess[s]
    IN  /\ r.op \in {"allocate", "unallocate"} /\ Visiting(s) /\ r.seen = Unseen
        /\ sess' = [sess EXCEPT ![s].seen = OpenTo(r, Head(r.todo))]
        /\ UNCHANGED books

(* A receipt may settle what is due, an allocation what was open to it.    *)
Accepts_Any(r, i) == TRUE
Accepts(r, i) ==
    CASE r.op = "receipt" -> r.alloc[i] <= invoice[i].due
      [] r.op = "allocate" -> r.alloc[i] <= r.seen
      [] r.op = "unallocate" -> TRUE

Lock(s) ==
    LET r == sess[s]
        i == Head(r.todo)
    IN  /\ Visiting(s) /\ (r.op = "receipt" \/ r.seen # Unseen)
        /\ Free(i, s)
        /\ IF Accepts(r, i)
           THEN sess' = [sess EXCEPT ![s].held = @ \cup {i}, ![s].todo = Tail(@),
                                     ![s].seen = Unseen, ![s].found[i] = r.seen]
           ELSE End(s)
        /\ UNCHANGED books

(* lock_timeout: a request waits five seconds for a lock and is refused.   *)
GiveUp(s) == Visiting(s) /\ ~Free(Head(sess[s].todo), s) /\ End(s) /\ UNCHANGED books

(* Nothing settles an invoice while it is held, so a look that differs     *)
(* from what is open at the commit was overtaken before the lock.          *)
Remember(r) ==
    stale' = [i \in Invoices |-> stale[i] \cup
                 IF r.alloc[i] > 0 /\ r.found[i] # OpenTo(r, i) THEN {r.op} ELSE {}]

(* The balances computed anew count no deleted draft.                      *)
Recounted(r) ==
    orphaned' = [i \in Invoices |-> IF r.alloc[i] > 0 THEN 0 ELSE orphaned[i]]

-----------------------------------------------------------------------------
(* POST /invoices: the invoice, its entry and the customer's outstanding.  *)
CreateInvoice(i, grandTotal) ==
    /\ ~Exists(i)
    /\ grandTotal + SumFunction([k \in Invoices |-> invoice[k].total]) <= MaxInvoiced
    /\ invoice' = [invoice EXCEPT ![i] = Columns(grandTotal, 0, grandTotal)]
    /\ receivable' = receivable + grandTotal
    /\ outstanding' = outstanding + grandTotal
    /\ UNCHANGED <<received, jeAlloc, credited, orphaned, stale, sess>>

(* POST /journal-entries and what reverses them: an entry whose lines      *)
(* credit the receivables account, or debit it.  No check relates this     *)
(* amount to what is allocated of the entry, or to whether it is posted.   *)
PostEntry(n) ==
    /\ credited + n \in 0..MaxCredited
    /\ receivable' = receivable - n
    /\ credited' = credited + n
    /\ UNCHANGED <<invoice, received, jeAlloc, outstanding, orphaned, stale, sess>>

(* DELETE /journal-entries/:id: the allocations of a draft go with it, and  *)
(* no invoice is told.  The rows a request is removing keep the draft until *)
(* that request ends, and one that allocates it can only be rolled back.    *)
(* The name of the entry then stands for the next one.                      *)
DeleteDraft(e) ==
    /\ \A t \in Sessions : sess[t] # Idle => sess[t].entry # e
    /\ jeAlloc' = [jeAlloc EXCEPT ![e] = [i \in Invoices |-> 0]]
    /\ orphaned' = [i \in Invoices |-> orphaned[i] + jeAlloc[e][i]]
    /\ UNCHANGED <<invoice, received, outstanding, receivable, credited, stale, sess>>

Start(s, op, entry, alloc, extra, manual, order) ==
    /\ sess[s] = Idle
    /\ \A i \in Named(alloc) : alloc[i] <= invoice[i].total
    /\ sess' = [sess EXCEPT ![s] = [op |-> op, entry |-> entry, alloc |-> alloc,
                    extra |-> extra, manual |-> manual, todo |-> order, held |-> {}, seen |-> Unseen,
                    found |-> [i \in Invoices |-> Unseen]]]
    /\ UNCHANGED books

(* POST /receipts: invoices, and a surplus that becomes an advance (a row  *)
(* of customer_advances, which nothing reads) but for what its manual      *)
(* lines credit elsewhere; here, to the receivables account itself.        *)
RequestReceipt(s, alloc, extra, manual, order) ==
    /\ order # <<>>
    /\ manual <= extra
    /\ Start(s, "receipt", NoEntry, alloc, extra, manual, order)

(* What a receipt takes off the receivables, and what off the outstanding. *)
appliedToInvoices(r) == SumFunction(r.alloc)
reduceBy_Amount(r) == appliedToInvoices(r) + r.extra
reduceBy(r) == appliedToInvoices(r)

FinishReceipt(s) ==
    LET r == sess[s]
    IN  /\ Ready(s, "receipt")
        /\ invoice' = [i \in Invoices |->
               IF r.alloc[i] > 0 THEN AfterReceipt(invoice[i], r.alloc[i]) ELSE invoice[i]]
        /\ received' = [i \in Invoices |-> received[i] + r.alloc[i]]
        /\ receivable' = receivable - appliedToInvoices(r) - r.manual
        /\ credited' = credited + r.manual
        /\ outstanding' = Max0(outstanding - reduceBy(r))
        /\ End(s)
        /\ UNCHANGED <<jeAlloc, orphaned, stale>>

(* POST /je-allocations, for invoices.                                     *)
RequestAllocate(s, e, alloc, order) ==
    /\ order # <<>>
    /\ \A i \in Named(alloc) : jeAlloc[e][i] = 0
    /\ \A t \in Sessions : sess[t].op = "allocate" /\ sess[t].entry = e =>
           Named(sess[t].alloc) \cap Named(alloc) = {}
    /\ Start(s, "allocate", e, alloc, 0, 0, order)

FinishAllocate(s) ==
    LET r == sess[s]
    IN  /\ Ready(s, "allocate")
        /\ jeAlloc' = [jeAlloc EXCEPT ![r.entry] = [i \in Invoices |-> @[i] + r.alloc[i]]]
        /\ invoice' = [i \in Invoices |->
               IF r.alloc[i] > 0 THEN AfterSync(invoice[i], Open(i) - r.alloc[i]) ELSE invoice[i]]
        /\ Recounted(r)
        /\ Remember(r)
        /\ End(s)
        /\ UNCHANGED <<received, outstanding, receivable, credited>>

(* DELETE /je-allocations/:id and /by-je/:je_id: the rows are deleted, and *)
(* kept from others, before the first look.                                *)
RequestUnallocate(s, e, S, order) ==
    LET rows == [i \in Invoices |-> IF i \in S THEN jeAlloc[e][i] ELSE 0]
    IN  /\ S # {} /\ S = Named(rows)
        /\ \A t \in Sessions : sess[t].op = "unallocate" /\ sess[t].entry = e =>
               Named(sess[t].alloc) \cap S = {}
        /\ Start(s, "unallocate", e, rows, 0, 0, order)

FinishUnallocate(s) ==
    LET r == sess[s]
    IN  /\ Ready(s, "unallocate")
        /\ jeAlloc' = [jeAlloc EXCEPT ![r.entry] = [i \in Invoices |-> @[i] - r.alloc[i]]]
        /\ invoice' = [i \in Invoices |->
               IF r.alloc[i] > 0 THEN AfterSync(invoice[i], r.found[i]) ELSE invoice[i]]
        /\ Recounted(r)
        /\ Remember(r)
        /\ End(s)
        /\ UNCHANGED <<received, outstanding, receivable, credited>>

(* An error or a lost connection: ROLLBACK.                                *)
Rollback(s) == sess[s] # Idle /\ End(s) /\ UNCHANGED books

-----------------------------------------------------------------------------
Init ==
    /\ invoice = [i \in Invoices |-> NoInvoice]
    /\ received = [i \in Invoices |-> 0]
    /\ jeAlloc = [e \in Entries |-> [i \in Invoices |-> 0]]
    /\ outstanding = 0 /\ receivable = 0 /\ credited = 0
    /\ orphaned = [i \in Invoices |-> 0]
    /\ stale = [i \in Invoices |-> {}]
    /\ sess = [s \in Sessions |-> Idle]

Request(s) ==
    \/ \E alloc \in Amounts : \E o \in Orders(Named(alloc)), x, m \in Extras \cup {0} :
          RequestReceipt(s, alloc, x, m, o)
    \/ \E e \in Entries, alloc \in Amounts : \E o \in Orders(Named(alloc)) :
          RequestAllocate(s, e, alloc, o)
    \/ \E e \in Entries, S \in SUBSET Invoices : \E o \in Orders(S) :
          RequestUnallocate(s, e, S, o)

Proceed(s) ==
    \/ Look(s) \/ Lock(s) \/ GiveUp(s)
    \/ FinishReceipt(s) \/ FinishAllocate(s) \/ FinishUnallocate(s)

Next ==
    \/ \E i \in Invoices, n \in 1..MaxInvoiced : CreateInvoice(i, n)
    \/ \E n \in -MaxCredited..MaxCredited : PostEntry(n)
    \/ \E e \in Entries : DeleteDraft(e)
    \/ \E s \in Sessions : Request(s) \/ Proceed(s) \/ Rollback(s)

Spec == Init /\ [][Next]_vars

=============================================================================
