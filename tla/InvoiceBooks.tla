---------------------------- MODULE InvoiceBooks ----------------------------
(***************************************************************************)
(* What the database says of the invoices of one customer, and what has to *)
(* be true of it.  Receivables has the requests that change it.            *)
(***************************************************************************)
EXTENDS Integers, Functions

CONSTANTS
    Invoices,  \* invoices.id of the customer
    Entries    \* journal entries that may be allocated to invoices

VARIABLES
    invoice,      \* invoices: grand_total and the stored settlement columns
    received,     \* receipt_allocations, added up for each invoice
    jeAlloc,      \* je_allocations (bound: one row per entry and invoice)
    outstanding,  \* customers.outstanding
    receivable,   \* the customer's part of the receivables account
    credited,     \* history: what journal entries and manual lines credited to that account
    orphaned,     \* history: what deleted drafts had settled and the invoice still counts
    stale         \* history: kinds of request that settled an invoice on a stale look

books == <<invoice, received, jeAlloc, outstanding, receivable, credited, orphaned, stale>>

Max0(n) == IF n > 0 THEN n ELSE 0

(* je_allocations of an invoice, added up.                                 *)
JeSettled(i) == SumFunction([e \in Entries |-> jeAlloc[e][i]])

-----------------------------------------------------------------------------
(* Properties.                                                             *)

Settled(i) == received[i] + JeSettled(i)

(* The balance stored with an invoice is the one openDocumentService calls *)
(* canonical, what its receipts and its entries leave open, whatever races *)
(* with whatever, unless a removal stored a balance it had looked up too   *)
(* early; it still counts what drafts had settled that are gone, until the *)
(* next allocation or removal computes it anew.  In particular an          *)
(* allocation that was overtaken still stores a balance that is right.     *)
DueIsDerived ==
    \A i \in Invoices : "unallocate" \notin stale[i] =>
        /\ invoice[i].due = Max0(invoice[i].total - (Settled(i) + orphaned[i]))
        /\ invoice[i].paid = invoice[i].total - invoice[i].due

(* An invoice is settled beyond its total only if a request that had       *)
(* looked at it too early settled it; receipts, which lock before they     *)
(* read, never do it among themselves.                                     *)
OverSettledByStaleLook ==
    \A i \in Invoices : Settled(i) > invoice[i].total => stale[i] # {}

(* The outstanding amount of the customer, which is reduced but never      *)
(* below 0, is what the receipts leave of the invoices: an invoice closed  *)
(* in part by an entry never lets a receipt take more than the customer    *)
(* owes.  It exceeds the receivables account by exactly what was credited  *)
(* to that account by hand, in a journal entry or a line of a receipt:     *)
(* allocating an entry tells the customer nothing.                         *)
CustomerAgrees ==
    (\A i \in Invoices : "unallocate" \notin stale[i]) =>
        /\ outstanding = receivable + credited
        /\ outstanding = SumFunction([i \in Invoices |-> invoice[i].total - received[i]])

=============================================================================
