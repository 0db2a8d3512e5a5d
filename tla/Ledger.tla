------------------------------- MODULE Ledger -------------------------------
(***************************************************************************)
(* The general ledger: journal entries, the stored balance of each         *)
(* account, and the settlement of open bills by journal entries.           *)
(*                                                                         *)
(* Every handler is one READ COMMITTED transaction.  One that locks the    *)
(* entry it works on before it reads anything is one action; one that      *)
(* reads without a lock, or after its locks reads rows that others may     *)
(* change, is a Begin action (what it read is in sess[s]) and a Finish     *)
(* action (its writes and the COMMIT).                                     *)
(*                                                                         *)
(* The lines of an entry are kept as the net debit of each account, in the *)
(* smallest unit of currency: an entry is balanced when they add up to 0.  *)
(* Entries stand in the order they were committed; 0 is a NULL source_id.  *)
(* Bills stand for bills and invoices, which the handlers treat alike.     *)
(***************************************************************************)
EXTENDS Integers, Sequences, FiniteSets, Functions

CONSTANTS
    Accounts,      \* accounts.id
    DebitNatured,  \* the asset and expense accounts
    Bills,         \* open documents that entries may settle
    Sessions,      \* requests in flight at the same time
    Ops,           \* the handlers the users call
    BillTotal,     \* grand_total of a bill
    MaxAmount,     \* bound: amount of a line
    MaxEntries,    \* bound: rows of journal_entries
    DraftsOwned    \* TRUE: no two requests work on one draft at the same time

ASSUME LedgerAssumption ==
    /\ IsFiniteSet(Accounts) /\ DebitNatured \subseteq Accounts
    /\ Ops \subseteq {"create", "post", "edit", "correct", "reverse", "delete",
                      "allocate", "unallocate"}
    /\ BillTotal \in Nat /\ MaxAmount \in Nat /\ MaxEntries \in Nat
    /\ DraftsOwned \in BOOLEAN

VARIABLES
    entries,  \* journal_entries with their je_lines and je_allocations
    balance,  \* accounts.balance
    due,      \* purchase_notes.balance_due
    orphaned, \* history: what deleted drafts had settled and balance_due still counts
    sess      \* what each unfinished request has read so far

vars == <<entries, balance, due, orphaned, sess>>

Sources  == {"manual", "reversal", "edit_reversal", "manual_correction"}
Statuses == {"draft", "posted", "deleted"}
Entry == [status : Statuses, source : Sources, of : Nat,
          lines : [Accounts -> Int], alloc : [Bills -> Nat]]

Idle == [op |-> "idle"]
Session == {Idle}
    \cup [op : {"post"}, entry : Nat, lines : [Accounts -> Int]]
    \cup [op : {"cancel"}, entry : Nat, added : Seq(Entry), removed : [Bills -> Nat],
          due : [Bills -> Nat], orphans : [Bills -> Nat]]
    \cup [op : {"allocate"}, entry : Nat, bill : Bills, amount : Nat]
    \cup [op : {"unallocate"}, entry : Nat, removed : [Bills -> Nat],
          due : [Bills -> Nat], orphans : [Bills -> Nat]]

-----------------------------------------------------------------------------
(* Lines and balances.                                                     *)

(* validateLines refuses lines whose debits and credits differ.            *)
validateLines(lines) == SumFunction(lines) = 0

Postings == {l \in [Accounts -> -MaxAmount..MaxAmount] : validateLines(l)}

(* A debit raises an asset or an expense, a credit any other account.      *)
Effect(a, net) == IF a \in DebitNatured THEN net ELSE -net

updateBalances(bal, lines) == [a \in Accounts |-> bal[a] + Effect(a, lines[a])]

Swapped(lines) == [a \in Accounts |-> -lines[a]]

NoAlloc == [b \in Bills |-> 0]

insertJournal(status, source, of, lines) ==
    [status |-> status, source |-> source, of |-> of, lines |-> lines, alloc |-> NoAlloc]

-----------------------------------------------------------------------------
(* Locks that outlive a step.  A reversal or a correction in flight has    *)
(* its entry FOR UPDATE and has updated the accounts of its new entries;   *)
(* it and the removal of allocations have deleted the entry's allocations. *)

EntryLocked(e) == \E s \in Sessions : sess[s].op = "cancel" /\ sess[s].entry = e

AllocsLocked(e) ==
    \E s \in Sessions : sess[s].op \in {"cancel", "unallocate"} /\ sess[s].entry = e

AccountsFree(lines) ==
    \A s \in Sessions : sess[s].op = "cancel" =>
        \A k \in DOMAIN sess[s].added, a \in Accounts :
            sess[s].added[k].lines[a] # 0 => lines[a] = 0

(* The users' own discipline, where DraftsOwned says they have it.         *)
DraftFree(e) ==
    DraftsOwned => \A s \in Sessions : sess[s].op = "post" => sess[s].entry # e

Begin(s, request) ==
    /\ sess[s] = Idle
    /\ sess' = [sess EXCEPT ![s] = request]

End(s) == sess' = [sess EXCEPT ![s] = Idle]

-----------------------------------------------------------------------------
(* POST /journal-entries, and every document that posts an entry.          *)
createEntry(lines, autoPost) ==
    /\ "create" \in Ops
    /\ Len(entries) < MaxEntries
    /\ autoPost => AccountsFree(lines)
    /\ entries' = Append(entries,
                         insertJournal(IF autoPost THEN "posted" ELSE "draft", "manual", 0, lines))
    /\ balance' = IF autoPost THEN updateBalances(balance, lines) ELSE balance
    /\ UNCHANGED <<due, orphaned, sess>>

(* PUT /journal-entries/:id/post reads header and lines without a lock.    *)
Postable_Any(e) == entries[e].status # "deleted"
Postable(e) == entries[e].status = "draft"

BeginPost(s, e) ==
    /\ "post" \in Ops
    /\ Postable(e)
    /\ DraftFree(e)
    /\ Begin(s, [op |-> "post", entry |-> e, lines |-> entries[e].lines])
    /\ UNCHANGED <<entries, balance, due, orphaned>>

(* The UPDATE of the header finds no row when the draft was deleted.       *)
FinishPost(s) ==
    LET e == sess[s].entry
    IN  /\ sess[s].op = "post"
        /\ ~EntryLocked(e)
        /\ AccountsFree(sess[s].lines)
        /\ entries' = IF entries[e].status = "deleted" THEN entries
                      ELSE [entries EXCEPT ![e].status = "posted"]
        /\ balance' = updateBalances(balance, sess[s].lines)
        /\ End(s)
        /\ UNCHANGED <<due, orphaned>>

(* PUT /journal-entries/:id of a draft: new lines, posted or still a draft. *)
IsDraft_Any(e) == entries[e].status # "deleted"
IsDraft(e) == entries[e].status = "draft"

EditDraft(e, lines, autoPost) ==
    /\ "edit" \in Ops
    /\ IsDraft(e)
    /\ DraftFree(e) /\ ~EntryLocked(e)
    /\ autoPost => AccountsFree(lines)
    /\ entries' = [entries EXCEPT ![e].lines = lines,
                                  ![e].status = IF autoPost THEN "posted" ELSE "draft"]
    /\ balance' = IF autoPost THEN updateBalances(balance, lines) ELSE balance
    /\ UNCHANGED <<due, orphaned, sess>>

(* DELETE /journal-entries/:id, drafts only.  The cascade deletes what the *)
(* draft had settled, and no bill is synchronised.                         *)
DeleteDraft(e) ==
    /\ "delete" \in Ops
    /\ IsDraft(e)
    /\ DraftFree(e) /\ ~AllocsLocked(e)
    /\ entries' = [entries EXCEPT ![e].status = "deleted", ![e].alloc = NoAlloc]
    /\ orphaned' = [b \in Bills |-> orphaned[b] + entries[e].alloc[b]]
    /\ UNCHANGED <<balance, due, sess>>

-----------------------------------------------------------------------------
(* Bills and the entries allocated to them.                                *)

Allocated(b, es) == SumFunction([e \in es |-> entries[e].alloc[b]])

(* getBillOutstanding: GREATEST(0, grand_total - allocated).               *)
Outstanding(allocated) == IF allocated > BillTotal THEN 0 ELSE BillTotal - allocated

(* Deleting the allocations of an entry: the documents to synchronise are  *)
(* listed, the rows deleted, and the outstanding amounts read without them. *)
(* Only the update of syncBillStatus locks a bill.                         *)
DueWithout(e) == [b \in Bills |-> Outstanding(Allocated(b, DOMAIN entries \ {e}))]

Removed(e) == entries[e].alloc

Without(alloc, removed) == [b \in Bills |-> alloc[b] - removed[b]]
syncBillStatus_None(r) == due
syncBillStatus(r) == [b \in Bills |-> IF r.removed[b] > 0 THEN r.due[b] ELSE due[b]]
Synced(r) ==
    [b \in Bills |-> IF r.removed[b] > 0 THEN orphaned[b] - r.orphans[b] ELSE orphaned[b]]

(* POST /je-allocations.  The statement that locks the bill computes what  *)
(* is allocated from its own snapshot, which is older than the lock when   *)
(* it had to wait for it.  The entry has to exist, whatever its status.    *)
Affordable(b, amount) == amount <= BillTotal - Allocated(b, DOMAIN entries)

BeginAllocate(s, e, b, amount) ==
    /\ "allocate" \in Ops
    /\ entries[e].status # "deleted"
    /\ Affordable(b, amount)
    /\ Begin(s, [op |-> "allocate", entry |-> e, bill |-> b, amount |-> amount])
    /\ UNCHANGED <<entries, balance, due, orphaned>>

(* The insert waits for a reversal of its entry (the foreign key), and     *)
(* fails when the entry was deleted.                                       *)
FinishAllocate(s) ==
    LET e == sess[s].entry
        b == sess[s].bill
    IN  /\ sess[s].op = "allocate"
        /\ entries[e].status # "deleted" /\ ~EntryLocked(e)
        /\ entries' = [entries EXCEPT ![e].alloc[b] = @ + sess[s].amount]
        /\ due' = [due EXCEPT ![b] = Outstanding(Allocated(b, DOMAIN entries) + sess[s].amount)]
        /\ orphaned' = [orphaned EXCEPT ![b] = 0]
        /\ End(s)
        /\ UNCHANGED balance

(* DELETE /je-allocations/by-je/:id                                        *)
BeginUnallocate(s, e) ==
    /\ "unallocate" \in Ops
    /\ ~AllocsLocked(e)
    /\ Begin(s, [op |-> "unallocate", entry |-> e, removed |-> Removed(e),
                 due |-> DueWithout(e), orphans |-> orphaned])
    /\ UNCHANGED <<entries, balance, due, orphaned>>

FinishUnallocate(s) ==
    /\ sess[s].op = "unallocate"
    /\ entries' = [entries EXCEPT ![sess[s].entry].alloc = Without(@, sess[s].removed)]
    /\ due' = syncBillStatus(sess[s])
    /\ orphaned' = Synced(sess[s])
    /\ End(s)
    /\ UNCHANGED balance

-----------------------------------------------------------------------------
(* Reversal and correction: the entry is locked, its mirror image (and the *)
(* replacement of a correction) inserted and posted, its allocations       *)
(* deleted and its bills synchronised.                                     *)

Cancel(s, e, added) ==
    /\ entries[e].status = "posted"
    /\ ~AllocsLocked(e)
    /\ \A k \in DOMAIN added : AccountsFree(added[k].lines)
    /\ Begin(s, [op |-> "cancel", entry |-> e, added |-> added,
                 removed |-> Removed(e), due |-> DueWithout(e), orphans |-> orphaned])
    /\ UNCHANGED <<entries, balance, due, orphaned>>

Reversals(e) ==
    {r \in DOMAIN entries : entries[r].of = e /\ entries[r].source = "reversal"}
Corrections(e) ==
    {r \in DOMAIN entries : entries[r].of = e /\ entries[r].source = "edit_reversal"}

(* PUT /journal-entries/:id of a posted entry.                             *)
Correctable_NotCorrected(e) == Corrections(e) = {}
Correctable(e) == Reversals(e) \cup Corrections(e) = {}

BeginCorrect(s, e, lines) ==
    /\ "correct" \in Ops
    /\ Correctable(e)
    /\ Cancel(s, e, <<insertJournal("posted", "edit_reversal", e, Swapped(entries[e].lines)),
                      insertJournal("posted", "manual_correction", e, lines)>>)

(* POST /journal-entries/:id/reverse                                       *)
BeginReverse(s, e) ==
    /\ "reverse" \in Ops
    /\ Reversals(e) = {}
    /\ Cancel(s, e, <<insertJournal("posted", "reversal", e, Swapped(entries[e].lines))>>)

FinishCancel(s) ==
    LET r == sess[s]
    IN  /\ r.op = "cancel"
        /\ Len(entries) + Len(r.added) <= MaxEntries
        /\ entries' = [entries EXCEPT ![r.entry].alloc = Without(@, r.removed)] \o r.added
        /\ balance' = IF Len(r.added) = 1 THEN updateBalances(balance, r.added[1].lines)
                      ELSE updateBalances(updateBalances(balance, r.added[1].lines),
                                          r.added[2].lines)
        /\ due' = syncBillStatus(r)
        /\ orphaned' = Synced(r)
        /\ End(s)

(* An error, a deadlock or a lost connection: ROLLBACK.                    *)
Rollback(s) ==
    /\ sess[s] # Idle
    /\ End(s)
    /\ UNCHANGED <<entries, balance, due, orphaned>>

-----------------------------------------------------------------------------
Init ==
    /\ entries = <<>>
    /\ balance = [a \in Accounts |-> 0]
    /\ due = [b \in Bills |-> BillTotal]
    /\ orphaned = NoAlloc
    /\ sess = [s \in Sessions |-> Idle]

Next ==
    \/ \E l \in Postings, p \in BOOLEAN : createEntry(l, p)
    \/ \E e \in DOMAIN entries, l \in Postings, p \in BOOLEAN : EditDraft(e, l, p)
    \/ \E e \in DOMAIN entries : DeleteDraft(e)
    \/ \E s \in Sessions, e \in DOMAIN entries : BeginPost(s, e)
    \/ \E s \in Sessions, e \in DOMAIN entries, l \in Postings : BeginCorrect(s, e, l)
    \/ \E s \in Sessions, e \in DOMAIN entries : BeginReverse(s, e)
    \/ \E s \in Sessions, e \in DOMAIN entries, b \in Bills, n \in 1..BillTotal :
          BeginAllocate(s, e, b, n)
    \/ \E s \in Sessions, e \in DOMAIN entries : BeginUnallocate(s, e)
    \/ \E s \in Sessions : FinishPost(s)
    \/ \E s \in Sessions : FinishCancel(s)
    \/ \E s \in Sessions : FinishAllocate(s)
    \/ \E s \in Sessions : FinishUnallocate(s)
    \/ \E s \in Sessions : Rollback(s)

Spec == Init /\ [][Next]_vars

-----------------------------------------------------------------------------
(* Properties.                                                             *)

(* Journal entries have their type, and refer to earlier entries only.     *)
EntriesOK == entries \in Seq(Entry) /\ \A e \in DOMAIN entries : entries[e].of < e

(* The stored balance of an account is the sum of its posted lines: the    *)
(* balance sheet, which reads the one, agrees with the trial balance and   *)
(* the account ledger, which add up the other.                             *)
PostedLine(entry, a) == IF entry.status = "posted" THEN Effect(a, entry.lines[a]) ELSE 0

BalancesMatchLedger ==
    \A a \in Accounts :
        balance[a] = SumFunction([e \in DOMAIN entries |-> PostedLine(entries[e], a)])

(* Assets and expenses equal liabilities, equity and revenue: the balances *)
(* of the two kinds of account always have the same sum.                   *)
AccountingEquation ==
    SumFunctionOnSet(balance, DebitNatured) = SumFunctionOnSet(balance, Accounts \ DebitNatured)

(* The two together: the balance sheet, built from the stored balances,    *)
(* agrees with the trial balance, built from the lines, and balances.      *)
TrialBalance == BalancesMatchLedger /\ AccountingEquation

(* An entry is reversed at most once and corrected at most once, and never *)
(* corrected after it was reversed, however many requests race to do so.   *)
ReversedOnce ==
    \A e \in DOMAIN entries :
        /\ \A q, r \in Reversals(e) : q = r
        /\ \A q, r \in Corrections(e) : q = r
        /\ \A c \in Corrections(e), r \in Reversals(e) : c < r

(* A reversal undoes exactly the entry it names, as that entry stands now: *)
(* the two net to zero on every account (reversal and correction handlers, *)
(* and every handler that could still change the entry under them).        *)
ReversalMirrors ==
    \A e \in DOMAIN entries, r \in DOMAIN entries :
        r \in Reversals(e) \cup Corrections(e) =>
            /\ entries[e].status = "posted" /\ entries[r].status = "posted"
            /\ entries[r].lines = Swapped(entries[e].lines)

(* What is posted stays posted with the lines it was posted with: a        *)
(* mistake is corrected by new entries, never in place.                    *)
PostedStays ==
    [][\A e \in DOMAIN entries : entries[e].status = "posted" =>
          entries'[e].status = "posted" /\ entries'[e].lines = entries[e].lines]_vars

(* The balance due stored with a bill is what its allocations leave open,  *)
(* whatever became of the entries allocated to it; only what a deleted     *)
(* draft had settled stays settled, until the bill is next synchronised    *)
(* (every handler that changes allocations, the deletion's cascade apart). *)
DueMatches ==
    \A b \in Bills : due[b] = Outstanding(Allocated(b, DOMAIN entries) + orphaned[b])

=============================================================================
