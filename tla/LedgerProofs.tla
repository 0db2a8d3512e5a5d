---------------------------- MODULE LedgerProofs ----------------------------
(***************************************************************************)
(* Proofs about Ledger, for every set of accounts, every number of entries *)
(* and of concurrent requests, and whether or not drafts are shared.       *)
(***************************************************************************)
EXTENDS Ledger, TableLemmas

-----------------------------------------------------------------------------
(* The inductive invariant.  An entry row is typed as in Ledger, but for   *)
(* its allocations, whose sign the proofs below do not need.               *)

Row == [status : Statuses, source : Sources, of : Nat,
        lines : [Accounts -> Int], alloc : [Bills -> Int]]

RowsOK == entries \in Seq(Row) /\ \A e \in DOMAIN entries : entries[e].of < e

Mirror(source, e) == insertJournal("posted", source, e, Swapped(entries[e].lines))

(* What a reversal or a correction in flight is about to insert.           *)
AddedOK(e, added) ==
    \/ added = <<Mirror("reversal", e)>>
    \/ /\ Corrections(e) = {}
       /\ \E l \in [Accounts -> Int] :
             added = <<Mirror("edit_reversal", e),
                       insertJournal("posted", "manual_correction", e, l)>>

(* What a request in flight has read, and what its locks keep true of it.  *)
RequestOK(q) ==
    /\ q.op \in {"idle", "post", "cancel", "allocate", "unallocate"}
    /\ q.op # "idle" => q.entry \in DOMAIN entries
    /\ q.op = "allocate" => q.bill \in Bills /\ q.amount \in Nat
    /\ q.op \in {"cancel", "unallocate"} => q.removed \in [Bills -> Int]
    /\ q.op = "cancel" =>
          /\ entries[q.entry].status = "posted"
          /\ Reversals(q.entry) = {}
          /\ AddedOK(q.entry, q.added)

(* At most one reversal or correction of an entry is in flight.            *)
OneCancel ==
    \A s, t \in Sessions :
        sess[s].op = "cancel" /\ sess[t].op = "cancel" /\ sess[s].entry = sess[t].entry => s = t

SessionsOK ==
    /\ sess = [s \in Sessions |-> sess[s]]
    /\ \A s \in Sessions : RequestOK(sess[s])

IInv == RowsOK /\ SessionsOK /\ OneCancel /\ ReversedOnce /\ ReversalMirrors

(* How any handler may change the table of entries: rows are only added,   *)
(* keep their origin, and do not change once posted.                       *)
Keeps ==
    /\ Len(entries) <= Len(entries')
    /\ \A e \in DOMAIN entries :
          /\ entries'[e].source = entries[e].source
          /\ entries'[e].of = entries[e].of
          /\ entries[e].status = "posted" =>
                entries'[e].status = "posted" /\ entries'[e].lines = entries[e].lines

NoNewReversal ==
    \A e \in DOMAIN entries' \ DOMAIN entries :
        entries'[e].source \notin {"reversal", "edit_reversal"}

-----------------------------------------------------------------------------
(* What a handler that adds no reversal leaves alone.                      *)

LEMMA RowDomain ==
    ASSUME RowsOK, RowsOK', Keeps
    PROVE  /\ DOMAIN entries = 1..Len(entries) /\ DOMAIN entries' = 1..Len(entries')
           /\ Len(entries) \in Nat /\ Len(entries') \in Nat
           /\ DOMAIN entries \subseteq DOMAIN entries'
  BY DEF RowsOK, Keeps

LEMMA UndoKept ==
    ASSUME RowsOK, RowsOK', Keeps, NoNewReversal
    PROVE  /\ \A e \in DOMAIN entries :
                 Reversals(e)' = Reversals(e) /\ Corrections(e)' = Corrections(e)
           /\ \A e \in DOMAIN entries' \ DOMAIN entries :
                 Reversals(e)' = {} /\ Corrections(e)' = {}
<1>1. /\ DOMAIN entries = 1..Len(entries) /\ DOMAIN entries' = 1..Len(entries')
      /\ Len(entries) \in Nat /\ Len(entries') \in Nat
      /\ DOMAIN entries \subseteq DOMAIN entries'
  BY RowDomain
<1>2. \A r \in DOMAIN entries : entries'[r].source = entries[r].source /\ entries'[r].of = entries[r].of
  BY DEF Keeps
<1>3. \A r \in DOMAIN entries' \ DOMAIN entries :
         entries'[r].source # "reversal" /\ entries'[r].source # "edit_reversal"
  BY DEF NoNewReversal
<1>4. \A r \in DOMAIN entries : entries[r].of \in Nat /\ entries[r].of < r
  <2>1. \A r \in DOMAIN entries : entries[r] \in Row
    BY DEF RowsOK
  <2>. QED
    BY <2>1 DEF Row, RowsOK
<1>5. ASSUME NEW e \in DOMAIN entries
      PROVE  Reversals(e)' = Reversals(e) /\ Corrections(e)' = Corrections(e)
  BY <1>1, <1>2, <1>3 DEF Reversals, Corrections
<1>6. ASSUME NEW e \in DOMAIN entries' \ DOMAIN entries
      PROVE  Reversals(e)' = {} /\ Corrections(e)' = {}
  <2>1. \A r \in DOMAIN entries : entries[r].of # e
    BY <1>1, <1>4
  <2>. QED
    BY <1>1, <1>2, <1>3, <2>1 DEF Reversals, Corrections
<1>. QED
  BY <1>5, <1>6

LEMMA HistoryKept ==
    ASSUME RowsOK, RowsOK', Keeps, NoNewReversal, ReversedOnce, ReversalMirrors
    PROVE  ReversedOnce' /\ ReversalMirrors'
<1>1. /\ \A e \in DOMAIN entries :
            Reversals(e)' = Reversals(e) /\ Corrections(e)' = Corrections(e)
      /\ \A e \in DOMAIN entries' \ DOMAIN entries :
            Reversals(e)' = {} /\ Corrections(e)' = {}
  BY UndoKept
<1>2. ReversedOnce'
  BY <1>1 DEF ReversedOnce
<1>3. ASSUME NEW e \in DOMAIN entries', NEW r \in DOMAIN entries',
             r \in Reversals(e)' \cup Corrections(e)'
      PROVE  /\ entries'[e].status = "posted" /\ entries'[r].status = "posted"
             /\ entries'[r].lines = Swapped(entries'[e].lines)
  <2>1. e \in DOMAIN entries /\ r \in Reversals(e) \cup Corrections(e)
    BY <1>1, <1>3
  <2>2. r \in DOMAIN entries
    BY <2>1 DEF Reversals, Corrections
  <2>3. /\ entries[e].status = "posted" /\ entries[r].status = "posted"
        /\ entries[r].lines = Swapped(entries[e].lines)
    BY <2>1, <2>2 DEF ReversalMirrors
  <2>. QED
    BY <2>1, <2>2, <2>3 DEF Keeps
<1>4. ReversalMirrors'
  BY <1>3 DEF ReversalMirrors, Swapped
<1>. QED
  BY <1>2, <1>4

LEMMA RequestKept ==
    ASSUME RowsOK, RowsOK', Keeps, NEW q, RequestOK(q),
           q.op = "cancel" =>
              Reversals(q.entry)' = Reversals(q.entry) /\ Corrections(q.entry)' = Corrections(q.entry)
    PROVE  RequestOK(q)'
<1>1. DOMAIN entries \subseteq DOMAIN entries'
  BY RowDomain
<1>2. q.op = "cancel" =>
         entries'[q.entry].status = "posted" /\ entries'[q.entry].lines = entries[q.entry].lines
  BY DEF Keeps, RequestOK
<1>3. ASSUME q.op = "cancel"
      PROVE  AddedOK(q.entry, q.added)'
  BY <1>2, <1>3 DEF RequestOK, AddedOK, Mirror
<1>. QED
  BY <1>1, <1>2, <1>3 DEF RequestOK

(* A handler that adds no reversal and at most ends its own request        *)
(* preserves the invariant.                                                *)
LEMMA QuietStep ==
    ASSUME IInv, RowsOK', Keeps, NoNewReversal,
           sess' = sess \/ \E s \in Sessions : End(s)
    PROVE  IInv'
<1>. USE DEF IInv
<1>1. /\ \A e \in DOMAIN entries :
            Reversals(e)' = Reversals(e) /\ Corrections(e)' = Corrections(e)
      /\ \A e \in DOMAIN entries' \ DOMAIN entries :
            Reversals(e)' = {} /\ Corrections(e)' = {}
  BY UndoKept
<1>2. ReversedOnce' /\ ReversalMirrors'
  BY HistoryKept
<1>3. \A t \in Sessions : sess'[t] = sess[t] \/ sess'[t] = Idle
  BY DEF SessionsOK, End
<1>4. ASSUME NEW t \in Sessions
      PROVE  RequestOK(sess[t])'
  <2>1. CASE sess'[t] = Idle
    BY <2>1 DEF RequestOK, Idle
  <2>2. CASE sess'[t] = sess[t]
    <3>1. PICK q : q = sess[t]
      OBVIOUS
    <3>2. RequestOK(q) /\ (q.op = "cancel" => q.entry \in DOMAIN entries)
      BY <3>1 DEF SessionsOK, RequestOK
    <3>3. RequestOK(q)'
      BY <1>1, <3>2, RequestKept
    <3>. QED
      BY <2>2, <3>1, <3>3
  <2>. QED
    BY <1>3, <2>1, <2>2
<1>5. sess' = [t \in Sessions |-> sess'[t]]
  BY DEF SessionsOK, End
<1>6. OneCancel'
  BY <1>3 DEF OneCancel, Idle
<1>. QED
  BY <1>2, <1>4, <1>5, <1>6 DEF SessionsOK

(* A handler that only reads preserves it when what it read is right.      *)
LEMMA ReadStep ==
    ASSUME IInv, UNCHANGED entries, NEW s \in Sessions, NEW q, Begin(s, q), RequestOK(q),
           q.op = "cancel" => ~EntryLocked(q.entry)
    PROVE  IInv'
<1>. USE DEF IInv
<1>1. /\ RowsOK' /\ ReversedOnce' /\ ReversalMirrors'
  BY DEF RowsOK, ReversedOnce, ReversalMirrors, Reversals, Corrections
<1>2. /\ sess' = [sess EXCEPT ![s] = q]
      /\ sess'[s] = q /\ \A t \in Sessions \ {s} : sess'[t] = sess[t]
  BY DEF SessionsOK, Begin
<1>3. ASSUME NEW r, RequestOK(r)
      PROVE  RequestOK(r)'
  BY <1>3 DEF RequestOK, AddedOK, Mirror, Reversals, Corrections
<1>4. ASSUME NEW t \in Sessions
      PROVE  RequestOK(sess[t])'
  <2>1. PICK r : r = sess'[t]
    OBVIOUS
  <2>2. RequestOK(r)
    BY <1>2, <2>1 DEF SessionsOK
  <2>3. RequestOK(r)'
    BY <1>3, <2>2
  <2>. QED
    BY <2>1, <2>3
<1>5. sess' = [t \in Sessions |-> sess'[t]]
  BY <1>2 DEF SessionsOK
<1>6. OneCancel'
  <2>1. \A t \in Sessions \ {s} :
           q.op = "cancel" => ~(sess[t].op = "cancel" /\ sess[t].entry = q.entry)
    BY DEF EntryLocked
  <2>. QED
    BY <1>2, <2>1 DEF OneCancel
<1>. QED
  BY <1>1, <1>4, <1>5, <1>6 DEF SessionsOK

-----------------------------------------------------------------------------
(* The handlers, one by one.                                               *)

LEMMA NoAllocTyped == NoAlloc \in [Bills -> Int]
  BY DEF NoAlloc

LEMMA InsertedRow ==
    ASSUME NEW status \in Statuses, NEW source \in Sources, NEW of \in Nat,
           NEW l \in [Accounts -> Int]
    PROVE  insertJournal(status, source, of, l) \in Row
  BY NoAllocTyped DEF insertJournal, Row

(* Rewriting one row by one that keeps its origin, and its lines if posted. *)
LEMMA RowRewritten ==
    ASSUME RowsOK, NEW e \in DOMAIN entries, NEW row \in Row,
           entries' = [entries EXCEPT ![e] = row],
           row.source = entries[e].source, row.of = entries[e].of,
           entries[e].status = "posted" => row.status = "posted" /\ row.lines = entries[e].lines
    PROVE  RowsOK' /\ Keeps /\ NoNewReversal
<1>1. /\ entries' \in Seq(Row) /\ DOMAIN entries' = DOMAIN entries /\ Len(entries') = Len(entries)
      /\ entries'[e] = row /\ \A j \in DOMAIN entries \ {e} : entries'[j] = entries[j]
  BY UpdateRow DEF RowsOK
<1>2. Len(entries) \in Nat
  BY DEF RowsOK
<1>3. RowsOK'
  BY <1>1 DEF RowsOK
<1>. QED
  BY <1>1, <1>2, <1>3 DEF Keeps, NoNewReversal

LEMMA RowTyped == ASSUME RowsOK, NEW e \in DOMAIN entries PROVE entries[e] \in Row
  BY DEF RowsOK

LEMMA PostingsTyped == Postings \subseteq [Accounts -> Int]
<1>1. \A k \in -MaxAmount..MaxAmount : k \in Int
  BY LedgerAssumption
<1>. QED
  BY <1>1 DEF Postings

LEMMA createEntryOK ==
    ASSUME IInv, NEW l \in Postings, NEW p \in BOOLEAN, createEntry(l, p)
    PROVE  IInv' /\ Keeps
<1>. DEFINE row == insertJournal(IF p THEN "posted" ELSE "draft", "manual", 0, l)
<1>1. row \in Row
  BY PostingsTyped, InsertedRow DEF Statuses, Sources
<1>2. row.source = "manual" /\ row.of = 0
  BY DEF insertJournal
<1>3. entries' = Append(entries, row)
  BY DEF createEntry
<1>. HIDE DEF row
<1>4. /\ entries' \in Seq(Row) /\ Len(entries') = Len(entries) + 1
      /\ DOMAIN entries' = DOMAIN entries \cup {Len(entries) + 1}
      /\ entries'[Len(entries) + 1] = row /\ \A j \in DOMAIN entries : entries'[j] = entries[j]
  BY <1>1, <1>3, AppendRow DEF IInv, RowsOK
<1>5. Len(entries) \in Nat
  BY DEF IInv, RowsOK
<1>6. RowsOK'
  BY <1>2, <1>4, <1>5 DEF IInv, RowsOK
<1>7. Keeps /\ NoNewReversal
  BY <1>2, <1>4, <1>5 DEF Keeps, NoNewReversal
<1>. QED
  BY <1>6, <1>7, QuietStep DEF createEntry

LEMMA EditDraftOK ==
    ASSUME IInv, NEW e \in DOMAIN entries, NEW l \in Postings, NEW p \in BOOLEAN, EditDraft(e, l, p)
    PROVE  IInv' /\ Keeps
<1>. DEFINE row == [entries[e] EXCEPT !.lines = l, !.status = IF p THEN "posted" ELSE "draft"]
<1>1. entries[e] \in Row /\ l \in [Accounts -> Int]
  BY RowTyped, PostingsTyped DEF IInv
<1>2. /\ row \in Row
      /\ row.source = entries[e].source /\ row.of = entries[e].of
  BY <1>1 DEF Row, Statuses
<1>3. entries' = [entries EXCEPT ![e] = row] /\ entries[e].status = "draft" /\ sess' = sess
  BY DEF EditDraft, IsDraft
<1>. HIDE DEF row
<1>4. RowsOK' /\ Keeps /\ NoNewReversal
  BY <1>2, <1>3, RowRewritten DEF IInv
<1>. QED
  BY <1>3, <1>4, QuietStep

LEMMA DeleteDraftOK ==
    ASSUME IInv, NEW e \in DOMAIN entries, DeleteDraft(e)
    PROVE  IInv' /\ Keeps
<1>. DEFINE row == [entries[e] EXCEPT !.status = "deleted", !.alloc = NoAlloc]
<1>1. entries[e] \in Row
  BY RowTyped DEF IInv
<1>2. /\ row \in Row
      /\ row.source = entries[e].source /\ row.of = entries[e].of
  BY <1>1, NoAllocTyped DEF Row, Statuses
<1>3. entries' = [entries EXCEPT ![e] = row] /\ entries[e].status = "draft" /\ sess' = sess
  BY DEF DeleteDraft, IsDraft
<1>. HIDE DEF row
<1>4. RowsOK' /\ Keeps /\ NoNewReversal
  BY <1>2, <1>3, RowRewritten DEF IInv
<1>. QED
  BY <1>3, <1>4, QuietStep

LEMMA EntriesUnchanged ==
    ASSUME RowsOK, UNCHANGED entries
    PROVE  RowsOK' /\ Keeps /\ NoNewReversal
<1>1. Len(entries) \in Nat
  BY DEF RowsOK
<1>. QED
  BY <1>1 DEF RowsOK, Keeps, NoNewReversal

LEMMA FinishPostOK ==
    ASSUME IInv, NEW s \in Sessions, FinishPost(s)
    PROVE  IInv' /\ Keeps
<1>1. PICK e : e = sess[s].entry
  OBVIOUS
<1>2. e \in DOMAIN entries
  BY <1>1 DEF IInv, SessionsOK, RequestOK, FinishPost
<1>. DEFINE row == [entries[e] EXCEPT !.status = "posted"]
<1>3. entries[e] \in Row
  BY <1>2, RowTyped DEF IInv
<1>4. /\ row \in Row /\ row.status = "posted" /\ row.lines = entries[e].lines
      /\ row.source = entries[e].source /\ row.of = entries[e].of
  BY <1>3 DEF Row, Statuses
<1>5. entries' = entries \/ entries' = [entries EXCEPT ![e] = row]
  BY <1>1 DEF FinishPost
<1>. HIDE DEF row
<1>6. RowsOK' /\ Keeps /\ NoNewReversal
  BY <1>2, <1>4, <1>5, RowRewritten, EntriesUnchanged DEF IInv
<1>. QED
  BY <1>6, QuietStep DEF FinishPost

LEMMA FinishAllocateOK ==
    ASSUME IInv, NEW s \in Sessions, FinishAllocate(s)
    PROVE  IInv' /\ Keeps
<1>1. PICK e, b, n : e = sess[s].entry /\ b = sess[s].bill /\ n = sess[s].amount
  OBVIOUS
<1>2. e \in DOMAIN entries /\ b \in Bills /\ n \in Nat
  BY <1>1 DEF IInv, SessionsOK, RequestOK, FinishAllocate
<1>. DEFINE row == [entries[e] EXCEPT !.alloc[b] = @ + n]
<1>3. entries[e] \in Row
  BY <1>2, RowTyped DEF IInv
<1>4. /\ row \in Row /\ row.status = entries[e].status /\ row.lines = entries[e].lines
      /\ row.source = entries[e].source /\ row.of = entries[e].of
  BY <1>2, <1>3 DEF Row
<1>5. entries' = [entries EXCEPT ![e] = row]
  BY <1>1 DEF FinishAllocate
<1>. HIDE DEF row
<1>6. RowsOK' /\ Keeps /\ NoNewReversal
  BY <1>2, <1>4, <1>5, RowRewritten DEF IInv
<1>. QED
  BY <1>6, QuietStep DEF FinishAllocate

LEMMA FinishUnallocateOK ==
    ASSUME IInv, NEW s \in Sessions, FinishUnallocate(s)
    PROVE  IInv' /\ Keeps
<1>1. PICK e, removed : e = sess[s].entry /\ removed = sess[s].removed
  OBVIOUS
<1>2. e \in DOMAIN entries /\ removed \in [Bills -> Int]
  BY <1>1 DEF IInv, SessionsOK, RequestOK, FinishUnallocate
<1>. DEFINE row == [entries[e] EXCEPT !.alloc = Without(@, removed)]
<1>3. entries[e] \in Row
  BY <1>2, RowTyped DEF IInv
<1>4. /\ row \in Row /\ row.status = entries[e].status /\ row.lines = entries[e].lines
      /\ row.source = entries[e].source /\ row.of = entries[e].of
  BY <1>2, <1>3 DEF Row, Without
<1>5. entries' = [entries EXCEPT ![e] = row]
  BY <1>1 DEF FinishUnallocate
<1>. HIDE DEF row
<1>6. RowsOK' /\ Keeps /\ NoNewReversal
  BY <1>2, <1>4, <1>5, RowRewritten DEF IInv
<1>. QED
  BY <1>6, QuietStep DEF FinishUnallocate

LEMMA RollbackOK ==
    ASSUME IInv, NEW s \in Sessions, Rollback(s)
    PROVE  IInv' /\ Keeps
<1>1. RowsOK' /\ Keeps /\ NoNewReversal
  BY EntriesUnchanged DEF IInv, Rollback
<1>. QED
  BY <1>1, QuietStep DEF Rollback

LEMMA BeginPostOK ==
    ASSUME IInv, NEW s \in Sessions, NEW e \in DOMAIN entries, BeginPost(s, e)
    PROVE  IInv'
<1>. DEFINE q == [op |-> "post", entry |-> e, lines |-> entries[e].lines]
<1>1. RequestOK(q) /\ q.op # "cancel"
  BY DEF RequestOK
<1>2. Begin(s, q) /\ UNCHANGED entries
  BY DEF BeginPost
<1>. HIDE DEF q
<1>. QED
  BY <1>1, <1>2, ReadStep

LEMMA BeginAllocateOK ==
    ASSUME IInv, NEW s \in Sessions, NEW e \in DOMAIN entries, NEW b \in Bills,
           NEW n \in 1..BillTotal, BeginAllocate(s, e, b, n)
    PROVE  IInv'
<1>. DEFINE q == [op |-> "allocate", entry |-> e, bill |-> b, amount |-> n]
<1>1. RequestOK(q) /\ q.op # "cancel"
  BY LedgerAssumption DEF RequestOK
<1>2. Begin(s, q) /\ UNCHANGED entries
  BY DEF BeginAllocate
<1>. HIDE DEF q
<1>. QED
  BY <1>1, <1>2, ReadStep

LEMMA BeginUnallocateOK ==
    ASSUME IInv, NEW s \in Sessions, NEW e \in DOMAIN entries, BeginUnallocate(s, e)
    PROVE  IInv'
<1>. DEFINE q == [op |-> "unallocate", entry |-> e, removed |-> Removed(e), due |-> DueWithout(e),
                  orphans |-> orphaned]
<1>1. entries[e] \in Row
  BY RowTyped DEF IInv
<1>2. RequestOK(q) /\ q.op # "cancel"
  BY <1>1 DEF RequestOK, Removed, Row
<1>3. Begin(s, q) /\ UNCHANGED entries
  BY DEF BeginUnallocate
<1>. HIDE DEF q
<1>. QED
  BY <1>2, <1>3, ReadStep

LEMMA CancelOK ==
    ASSUME IInv, NEW s \in Sessions, NEW e \in DOMAIN entries, NEW added,
           Cancel(s, e, added), Reversals(e) = {}, AddedOK(e, added)
    PROVE  IInv'
<1>. DEFINE q == [op |-> "cancel", entry |-> e, added |-> added,
                  removed |-> Removed(e), due |-> DueWithout(e),
                  orphans |-> orphaned]
<1>1. entries[e] \in Row
  BY RowTyped DEF IInv
<1>2. /\ q.op = "cancel" /\ q.entry = e /\ q.added = added /\ q.removed = entries[e].alloc
  BY DEF Removed
<1>3. Begin(s, q) /\ UNCHANGED entries /\ entries[e].status = "posted" /\ ~EntryLocked(e)
  BY DEF Cancel, AllocsLocked, EntryLocked
<1>. HIDE DEF q
<1>4. entries[e].alloc \in [Bills -> Int]
  BY <1>1 DEF Row
<1>5. RequestOK(q)
  BY <1>2, <1>3, <1>4 DEF RequestOK
<1>. QED
  BY <1>2, <1>3, <1>5, ReadStep

LEMMA BeginReverseOK ==
    ASSUME IInv, NEW s \in Sessions, NEW e \in DOMAIN entries, BeginReverse(s, e)
    PROVE  IInv'
  BY CancelOK DEF BeginReverse, AddedOK, Mirror

LEMMA BeginCorrectOK ==
    ASSUME IInv, NEW s \in Sessions, NEW e \in DOMAIN entries, NEW l \in Postings,
           BeginCorrect(s, e, l)
    PROVE  IInv'
<1>1. Reversals(e) = {} /\ Corrections(e) = {}
  BY DEF BeginCorrect, Correctable
<1>2. l \in [Accounts -> Int]
  BY PostingsTyped
<1>3. PICK added : added = <<Mirror("edit_reversal", e),
                             insertJournal("posted", "manual_correction", e, l)>>
  OBVIOUS
<1>4. Cancel(s, e, added)
  BY <1>3 DEF BeginCorrect, Mirror
<1>5. AddedOK(e, added)
  BY <1>1, <1>2, <1>3 DEF AddedOK
<1>. QED
  BY <1>1, <1>4, <1>5, CancelOK

-----------------------------------------------------------------------------
(* The end of a reversal or a correction: row n undoes entry e.            *)

LEMMA ReversalInserted ==
    ASSUME IInv, RowsOK', Keeps,
           NEW e \in DOMAIN entries, NEW n \in DOMAIN entries' \ DOMAIN entries,
           entries[e].status = "posted", Reversals(e) = {},
           entries'[n].source \in {"reversal", "edit_reversal"},
           entries'[n].source = "edit_reversal" => Corrections(e) = {},
           entries'[n].of = e, entries'[n].status = "posted",
           entries'[n].lines = Swapped(entries[e].lines),
           \A k \in DOMAIN entries' \ DOMAIN entries :
               k # n => entries'[k].source \notin {"reversal", "edit_reversal"}
    PROVE  /\ ReversedOnce' /\ ReversalMirrors'
           /\ \A x \in DOMAIN entries \ {e} :
                 Reversals(x)' = Reversals(x) /\ Corrections(x)' = Corrections(x)
<1>. USE DEF IInv
<1>1. /\ DOMAIN entries = 1..Len(entries) /\ DOMAIN entries' = 1..Len(entries')
      /\ Len(entries) \in Nat /\ Len(entries') \in Nat
      /\ DOMAIN entries \subseteq DOMAIN entries'
  BY RowDomain
<1>2. \A r \in DOMAIN entries : entries'[r].source = entries[r].source /\ entries'[r].of = entries[r].of
  BY DEF Keeps
<1>3. \A r \in DOMAIN entries : entries[r].of \in Nat /\ entries[r].of < r
  <2>1. \A r \in DOMAIN entries : entries[r] \in Row
    BY DEF RowsOK
  <2>. QED
    BY <2>1 DEF Row, RowsOK
<1>4. \A x \in DOMAIN entries \ {e} :
         Reversals(x)' = Reversals(x) /\ Corrections(x)' = Corrections(x)
  BY <1>1, <1>2 DEF Reversals, Corrections
<1>5. \A x \in DOMAIN entries' \ DOMAIN entries : Reversals(x)' = {} /\ Corrections(x)' = {}
  <2>1. ASSUME NEW x \in DOMAIN entries' \ DOMAIN entries
        PROVE  Reversals(x)' = {} /\ Corrections(x)' = {}
    <3>1. \A r \in DOMAIN entries : entries[r].of # x
      BY <1>1, <1>3
    <3>2. x # e
      OBVIOUS
    <3>. QED
      BY <1>1, <1>2, <3>1, <3>2 DEF Reversals, Corrections
  <2>. QED
    BY <2>1
<1>6. Reversals(e)' \cup Corrections(e)' \subseteq {n} \cup Corrections(e)
  BY <1>1, <1>2 DEF Reversals, Corrections
<1>7. /\ Reversals(e)' \subseteq {n}
      /\ Corrections(e)' = Corrections(e) \/ (Corrections(e)' \subseteq {n} /\ Reversals(e)' = {})
  <2>1. CASE entries'[n].source = "reversal"
    BY <1>1, <1>2, <2>1 DEF Reversals, Corrections
  <2>2. CASE entries'[n].source = "edit_reversal"
    BY <1>1, <1>2, <2>2 DEF Reversals, Corrections
  <2>. QED
    BY <2>1, <2>2
<1>8. \A c \in Corrections(e) : c < n
  BY <1>1 DEF Corrections
<1>9. ReversedOnce'
  <2>1. ASSUME NEW x \in DOMAIN entries'
        PROVE  /\ \A q, r \in Reversals(x)' : q = r
               /\ \A q, r \in Corrections(x)' : q = r
               /\ \A c \in Corrections(x)', r \in Reversals(x)' : c < r
    <3>1. CASE x \in DOMAIN entries \ {e}
      BY <1>4, <3>1 DEF ReversedOnce
    <3>2. CASE x \notin DOMAIN entries
      BY <1>5, <3>2
    <3>3. CASE x = e
      BY <1>7, <1>8, <3>3 DEF ReversedOnce
    <3>. QED
      BY <3>1, <3>2, <3>3
  <2>. QED
    BY <2>1 DEF ReversedOnce
<1>10. ReversalMirrors'
  <2>1. ASSUME NEW x \in DOMAIN entries', NEW r \in DOMAIN entries',
               r \in Reversals(x)' \cup Corrections(x)'
        PROVE  /\ entries'[x].status = "posted" /\ entries'[r].status = "posted"
               /\ entries'[r].lines = Swapped(entries'[x].lines)
    <3>1. CASE x = e /\ r = n
      BY <3>1 DEF Keeps
    <3>2. CASE ~(x = e /\ r = n)
      <4>1. x \in DOMAIN entries /\ r \in Reversals(x) \cup Corrections(x)
        BY <1>4, <1>5, <1>6, <2>1, <3>2
      <4>2. r \in DOMAIN entries
        BY <4>1 DEF Reversals, Corrections
      <4>3. /\ entries[x].status = "posted" /\ entries[r].status = "posted"
            /\ entries[r].lines = Swapped(entries[x].lines)
        BY <4>1, <4>2 DEF ReversalMirrors
      <4>. QED
        BY <4>1, <4>2, <4>3 DEF Keeps
    <3>. QED
      BY <3>1, <3>2
  <2>. QED
    BY <2>1 DEF ReversalMirrors, Swapped
<1>. QED
  BY <1>4, <1>9, <1>10

LEMMA MirrorRow ==
    ASSUME RowsOK, NEW e \in DOMAIN entries, NEW source \in {"reversal", "edit_reversal"}
    PROVE  /\ Mirror(source, e) \in Row
           /\ Mirror(source, e).source = source /\ Mirror(source, e).of = e
           /\ Mirror(source, e).status = "posted"
           /\ Mirror(source, e).lines = Swapped(entries[e].lines)
<1>1. entries[e] \in Row /\ e \in Nat
  BY RowTyped DEF RowsOK
<1>2. Swapped(entries[e].lines) \in [Accounts -> Int]
  BY <1>1 DEF Row, Swapped
<1>3. Mirror(source, e) \in Row
  BY <1>1, <1>2, InsertedRow DEF Mirror, Statuses, Sources
<1>. QED
  BY <1>3 DEF Mirror, insertJournal

(* What is inserted: the mirror image, and after it at most a replacement. *)
LEMMA AddedRows ==
    ASSUME RowsOK, NEW e \in DOMAIN entries, NEW added, AddedOK(e, added)
    PROVE  /\ added \in Seq(Row) /\ Len(added) \in {1, 2}
           /\ added[1].source \in {"reversal", "edit_reversal"}
           /\ added[1].source = "edit_reversal" => Corrections(e) = {}
           /\ added[1].of = e /\ added[1].status = "posted"
           /\ added[1].lines = Swapped(entries[e].lines)
           /\ Len(added) = 2 =>
                 added[2].source = "manual_correction" /\ added[2].of = e /\ added[2].status = "posted"
<1>1. CASE added = <<Mirror("reversal", e)>>
  <2>1. PICK r \in Row : r = Mirror("reversal", e)
    BY MirrorRow
  <2>2. /\ r.source = "reversal" /\ r.of = e /\ r.status = "posted"
        /\ r.lines = Swapped(entries[e].lines)
    BY <2>1, MirrorRow
  <2>3. added = <<r>>
    BY <1>1, <2>1
  <2>. QED
    BY <2>2, <2>3
<1>2. CASE /\ Corrections(e) = {}
           /\ \E l \in [Accounts -> Int] :
                 added = <<Mirror("edit_reversal", e),
                           insertJournal("posted", "manual_correction", e, l)>>
  <2>1. PICK r \in Row : r = Mirror("edit_reversal", e)
    BY MirrorRow
  <2>2. /\ r.source = "edit_reversal" /\ r.of = e /\ r.status = "posted"
        /\ r.lines = Swapped(entries[e].lines)
    BY <2>1, MirrorRow
  <2>3. PICK l \in [Accounts -> Int] :
           added = <<r, insertJournal("posted", "manual_correction", e, l)>>
    BY <1>2, <2>1
  <2>4. e \in Nat
    BY DEF RowsOK
  <2>5. PICK c \in Row : c = insertJournal("posted", "manual_correction", e, l)
    BY <2>4, InsertedRow DEF Statuses, Sources
  <2>6. c.source = "manual_correction" /\ c.of = e /\ c.status = "posted"
    BY <2>5 DEF insertJournal
  <2>7. added = <<r, c>>
    BY <2>3, <2>5
  <2>. QED
    BY <1>2, <2>2, <2>6, <2>7
<1>. QED
  BY <1>1, <1>2 DEF AddedOK

LEMMA FinishCancelOK ==
    ASSUME IInv, NEW s \in Sessions, FinishCancel(s)
    PROVE  IInv' /\ Keeps
<1>1. PICK q : q = sess[s]
  OBVIOUS
<1>2. PICK e, added, removed : e = q.entry /\ added = q.added /\ removed = q.removed
  OBVIOUS
<1>3. /\ q.op = "cancel" /\ e \in DOMAIN entries /\ removed \in [Bills -> Int]
      /\ entries[e].status = "posted" /\ Reversals(e) = {} /\ AddedOK(e, added)
  BY <1>1, <1>2 DEF IInv, SessionsOK, RequestOK, FinishCancel
<1>. DEFINE row == [entries[e] EXCEPT !.alloc = Without(@, removed)]
<1>4. entries[e] \in Row
  BY <1>3, RowTyped DEF IInv
<1>5. /\ row \in Row /\ row.status = entries[e].status /\ row.lines = entries[e].lines
      /\ row.source = entries[e].source /\ row.of = entries[e].of
  BY <1>3, <1>4 DEF Row, Without
<1>. DEFINE tab == [entries EXCEPT ![e] = row]
<1>6. entries' = tab \o added
  BY <1>1, <1>2 DEF FinishCancel
<1>. HIDE DEF row
<1>7. /\ tab \in Seq(Row) /\ DOMAIN tab = DOMAIN entries /\ Len(tab) = Len(entries)
      /\ tab[e] = row /\ \A j \in DOMAIN entries \ {e} : tab[j] = entries[j]
  BY <1>3, <1>5, UpdateRow DEF IInv, RowsOK
<1>. HIDE DEF tab
<1>8. /\ added \in Seq(Row) /\ Len(added) \in {1, 2}
      /\ added[1].source \in {"reversal", "edit_reversal"}
      /\ added[1].source = "edit_reversal" => Corrections(e) = {}
      /\ added[1].of = e /\ added[1].status = "posted"
      /\ added[1].lines = Swapped(entries[e].lines)
      /\ Len(added) = 2 => added[2].source = "manual_correction" /\ added[2].of = e
  BY <1>3, AddedRows DEF IInv
<1>9. Len(entries) \in Nat /\ DOMAIN entries = 1..Len(entries) /\ DOMAIN added = 1..Len(added)
  BY <1>8 DEF IInv, RowsOK
<1>10. /\ entries' \in Seq(Row) /\ Len(entries') = Len(entries) + Len(added)
       /\ \A j \in DOMAIN entries : entries'[j] = tab[j]
       /\ \A j \in DOMAIN entries' \ DOMAIN entries :
             j - Len(entries) \in DOMAIN added /\ entries'[j] = added[j - Len(entries)]
  BY <1>6, <1>7, <1>8, InsertRows
<1>11. DOMAIN entries' = 1..(Len(entries) + Len(added))
  BY <1>10
<1>12. RowsOK'
  <2>1. \A j \in DOMAIN entries : entries'[j].of < j
    BY <1>5, <1>7, <1>10 DEF IInv, RowsOK
  <2>2. \A j \in DOMAIN entries' \ DOMAIN entries : entries'[j].of = e
    BY <1>8, <1>9, <1>10
  <2>. QED
    BY <1>3, <1>9, <1>10, <1>11, <2>1, <2>2 DEF RowsOK
<1>13. Keeps
  BY <1>5, <1>7, <1>8, <1>9, <1>10 DEF Keeps
<1>. DEFINE n == Len(entries) + 1
<1>14. n \in DOMAIN entries' \ DOMAIN entries /\ entries'[n] = added[1]
  <2>1. n \in DOMAIN entries' \ DOMAIN entries
    BY <1>8, <1>9, <1>11
  <2>2. n - Len(entries) = 1
    BY <1>9
  <2>. QED
    BY <1>10, <2>1, <2>2
<1>15. \A k \in DOMAIN entries' \ DOMAIN entries :
          k # n => entries'[k].source \notin {"reversal", "edit_reversal"}
  <2>1. ASSUME NEW k \in DOMAIN entries' \ DOMAIN entries, k # n
        PROVE  entries'[k] = added[2] /\ Len(added) = 2
    BY <1>8, <1>9, <1>10, <1>11, <2>1
  <2>. QED
    BY <1>8, <2>1
<1>. HIDE DEF n
<1>16. /\ ReversedOnce' /\ ReversalMirrors'
       /\ \A x \in DOMAIN entries \ {e} :
             Reversals(x)' = Reversals(x) /\ Corrections(x)' = Corrections(x)
  BY <1>3, <1>8, <1>12, <1>13, <1>14, <1>15, ReversalInserted
<1>17. sess' = [sess EXCEPT ![s] = Idle]
  BY DEF FinishCancel, End
<1>18. \A t \in Sessions : sess'[t] = IF t = s THEN Idle ELSE sess[t]
  BY <1>17 DEF IInv, SessionsOK
<1>19. ASSUME NEW t \in Sessions
       PROVE  RequestOK(sess[t])'
  <2>1. CASE t = s
    BY <1>18, <2>1 DEF RequestOK, Idle
  <2>2. CASE t # s
    <3>1. PICK r : r = sess[t]
      OBVIOUS
    <3>2. RequestOK(r) /\ sess'[t] = r
      BY <1>18, <2>2, <3>1 DEF IInv, SessionsOK
    <3>3. r.op = "cancel" => r.entry # e /\ r.entry \in DOMAIN entries
      BY <1>1, <1>2, <1>3, <2>2, <3>1, <3>2 DEF IInv, OneCancel, RequestOK
    <3>4. RequestOK(r)'
      BY <1>12, <1>13, <1>16, <3>2, <3>3, RequestKept DEF IInv
    <3>. QED
      BY <3>2, <3>4
  <2>. QED
    BY <2>1, <2>2
<1>20. OneCancel'
  BY <1>18 DEF IInv, OneCancel, Idle
<1>21. sess' = [t \in Sessions |-> sess'[t]]
  BY <1>17 DEF IInv, SessionsOK
<1>. QED
  BY <1>12, <1>13, <1>16, <1>19, <1>20, <1>21 DEF IInv, SessionsOK

-----------------------------------------------------------------------------
(* Every step preserves the invariant.                                     *)

LEMMA InitOK == Init => IInv
<1>. SUFFICES ASSUME Init PROVE IInv
  OBVIOUS
<1>1. entries = <<>> /\ entries \in Seq(Row) /\ DOMAIN entries = {}
  BY DEF Init
<1>2. \A s \in Sessions : sess[s] = Idle
  BY DEF Init
<1>3. SessionsOK
  BY <1>2 DEF Init, SessionsOK, RequestOK, Idle
<1>4. OneCancel
  BY <1>2 DEF OneCancel, Idle
<1>. QED
  BY <1>1, <1>3, <1>4 DEF IInv, RowsOK, ReversedOnce, ReversalMirrors

LEMMA NextOK == IInv /\ [Next]_vars => IInv' /\ Keeps
<1>. SUFFICES ASSUME IInv, [Next]_vars PROVE IInv' /\ Keeps
  OBVIOUS
<1>1. CASE UNCHANGED vars
  BY <1>1, EntriesUnchanged, QuietStep DEF vars, IInv
<1>2. ASSUME UNCHANGED entries
      PROVE  Keeps
  BY <1>2, EntriesUnchanged DEF IInv
<1>3. ASSUME NEW l \in Postings, NEW p \in BOOLEAN, createEntry(l, p)
      PROVE  IInv' /\ Keeps
  BY <1>3, createEntryOK
<1>4. ASSUME NEW e \in DOMAIN entries, NEW l \in Postings, NEW p \in BOOLEAN, EditDraft(e, l, p)
      PROVE  IInv' /\ Keeps
  BY <1>4, EditDraftOK
<1>5. ASSUME NEW e \in DOMAIN entries, DeleteDraft(e)
      PROVE  IInv' /\ Keeps
  BY <1>5, DeleteDraftOK
<1>6. ASSUME NEW s \in Sessions, NEW e \in DOMAIN entries, BeginPost(s, e)
      PROVE  IInv' /\ Keeps
  BY <1>2, <1>6, BeginPostOK DEF BeginPost
<1>7. ASSUME NEW s \in Sessions, NEW e \in DOMAIN entries, NEW l \in Postings, BeginCorrect(s, e, l)
      PROVE  IInv' /\ Keeps
  BY <1>2, <1>7, BeginCorrectOK DEF BeginCorrect, Cancel
<1>8. ASSUME NEW s \in Sessions, NEW e \in DOMAIN entries, BeginReverse(s, e)
      PROVE  IInv' /\ Keeps
  BY <1>2, <1>8, BeginReverseOK DEF BeginReverse, Cancel
<1>9. ASSUME NEW s \in Sessions, NEW e \in DOMAIN entries, NEW b \in Bills,
             NEW n \in 1..BillTotal, BeginAllocate(s, e, b, n)
      PROVE  IInv' /\ Keeps
  BY <1>2, <1>9, BeginAllocateOK DEF BeginAllocate
<1>10. ASSUME NEW s \in Sessions, NEW e \in DOMAIN entries, BeginUnallocate(s, e)
       PROVE  IInv' /\ Keeps
  BY <1>2, <1>10, BeginUnallocateOK DEF BeginUnallocate
<1>11. ASSUME NEW s \in Sessions,
              FinishPost(s) \/ FinishCancel(s) \/ FinishAllocate(s)
                  \/ FinishUnallocate(s) \/ Rollback(s)
       PROVE  IInv' /\ Keeps
  BY <1>11, FinishPostOK, FinishCancelOK, FinishAllocateOK, FinishUnallocateOK, RollbackOK
<1>. QED
  BY <1>1, <1>3, <1>4, <1>5, <1>6, <1>7, <1>8, <1>9, <1>10, <1>11 DEF Next

-----------------------------------------------------------------------------
(* The balances.  Every set of lines that is posted is balanced, in the    *)
(* table and in what a request in flight has read or is about to insert.   *)

Balanced(bal) ==
    /\ bal \in [Accounts -> Int]
    /\ SumFunctionOnSet(bal, DebitNatured) = SumFunctionOnSet(bal, Accounts \ DebitNatured)

RequestBalances(q) ==
    /\ q.op = "post" => q.lines \in [Accounts -> Int] /\ validateLines(q.lines)
    /\ q.op = "cancel" => \A k \in DOMAIN q.added : validateLines(q.added[k].lines)

LinesBalance ==
    /\ \A e \in DOMAIN entries : validateLines(entries[e].lines)
    /\ \A s \in Sessions : RequestBalances(sess[s])

BooksInv == IInv /\ LinesBalance /\ Balanced(balance)

LEMMA AccountsFinite ==
    /\ IsFiniteSet(Accounts) /\ DebitNatured \in SUBSET Accounts
    /\ IsFiniteSet(DebitNatured) /\ IsFiniteSet(Accounts \ DebitNatured)
  BY LedgerAssumption, FS_Subset

LEMMA SwappedBalances ==
    ASSUME NEW l \in [Accounts -> Int], validateLines(l)
    PROVE  Swapped(l) \in [Accounts -> Int] /\ validateLines(Swapped(l))
<1>. DEFINE m == Swapped(l)
<1>1. m \in [Accounts -> Int] /\ \A a \in Accounts : l[a] \in Int /\ m[a] = -l[a]
  BY DEF Swapped
<1>2. SumFunctionOnSet(l, Accounts) = 0
  BY DEF validateLines, SumFunction
<1>. HIDE DEF m
<1>3. SumFunctionOnSet(m, Accounts) = 0 - SumFunctionOnSet(l, Accounts)
  BY <1>1, AccountsFinite, SumMinus
<1>4. SumFunctionOnSet(m, Accounts) = 0
  <2>1. 0 - 0 = 0
    OBVIOUS
  <2>. QED
    BY <1>2, <1>3, <2>1, Zenon
<1>. QED
  BY <1>1, <1>4 DEF m, validateLines, SumFunction

(* Posting balanced lines keeps the two sides of the books equal.          *)
LEMMA Booked ==
    ASSUME NEW bal, Balanced(bal), NEW l \in [Accounts -> Int], validateLines(l)
    PROVE  Balanced(updateBalances(bal, l))
<1>. DEFINE new == updateBalances(bal, l)
            C == Accounts \ DebitNatured
            minus == [a \in Accounts |-> -l[a]]
<1>1. new \in [Accounts -> Int]
  BY DEF Balanced, updateBalances, Effect
<1>2. \A a \in DebitNatured : bal[a] \in Int /\ l[a] \in Int /\ new[a] = bal[a] + l[a]
  BY AccountsFinite DEF Balanced, updateBalances, Effect
<1>3. \A a \in C : /\ bal[a] \in Int /\ l[a] \in Int /\ minus[a] \in Int /\ minus[a] = -l[a]
                   /\ new[a] = bal[a] + minus[a]
  BY DEF Balanced, updateBalances, Effect
<1>4. SumFunctionOnSet(l, Accounts) = 0
  BY DEF validateLines, SumFunction
<1>5. \A a \in Accounts : l[a] \in Int
  OBVIOUS
<1>6. IsFiniteSet(DebitNatured) /\ IsFiniteSet(C)
  BY AccountsFinite
<1>7. SumFunctionOnSet(l, Accounts) = SumFunctionOnSet(l, DebitNatured) + SumFunctionOnSet(l, C)
  BY <1>5, AccountsFinite, SumSplit
<1>. HIDE DEF new, C, minus
<1>8. SumFunctionOnSet(new, DebitNatured)
        = SumFunctionOnSet(bal, DebitNatured) + SumFunctionOnSet(l, DebitNatured)
  BY <1>2, <1>6, SumPlus
<1>9. SumFunctionOnSet(new, C) = SumFunctionOnSet(bal, C) + SumFunctionOnSet(minus, C)
  BY <1>3, <1>6, SumPlus
<1>10. SumFunctionOnSet(minus, C) = 0 - SumFunctionOnSet(l, C)
  BY <1>3, <1>6, SumMinus
<1>11. /\ SumFunctionOnSet(bal, DebitNatured) \in Int /\ SumFunctionOnSet(l, DebitNatured) \in Int
       /\ SumFunctionOnSet(bal, C) \in Int /\ SumFunctionOnSet(l, C) \in Int
  BY <1>2, <1>3, <1>6, SumInt
<1>12. SumFunctionOnSet(bal, DebitNatured) = SumFunctionOnSet(bal, C)
  BY DEF Balanced, C
<1>13. SumFunctionOnSet(new, DebitNatured) = SumFunctionOnSet(new, C)
  BY <1>4, <1>7, <1>8, <1>9, <1>10, <1>11, <1>12
<1>. QED
  BY <1>1, <1>13 DEF Balanced, new, C

LEMMA PostingsBalance == \A l \in Postings : l \in [Accounts -> Int] /\ validateLines(l)
  BY PostingsTyped DEF Postings

LEMMA LinesTyped ==
    ASSUME RowsOK, NEW e \in DOMAIN entries
    PROVE  entries[e].lines \in [Accounts -> Int]
  BY RowTyped DEF Row

(* What a step must show to preserve BooksInv.                             *)
LEMMA BooksStep ==
    ASSUME BooksInv, IInv', Balanced(balance'),
           \A e \in DOMAIN entries' : validateLines(entries'[e].lines),
           \A t \in Sessions : sess'[t] = sess[t] \/ RequestBalances(sess'[t])
    PROVE  BooksInv'
<1>1. \A t \in Sessions : RequestBalances(sess[t])'
  <2>1. \A q : RequestBalances(q)' <=> RequestBalances(q)
    BY DEF RequestBalances, validateLines
  <2>2. \A t \in Sessions : RequestBalances(sess'[t])
    BY DEF BooksInv, LinesBalance
  <2>. QED
    BY <2>1, <2>2
<1>. QED
  BY <1>1 DEF BooksInv, LinesBalance, Balanced, validateLines

LEMMA IdleBalances == RequestBalances(Idle)
  BY DEF RequestBalances, Idle

LEMMA EndBalances ==
    ASSUME SessionsOK, NEW s \in Sessions, End(s)
    PROVE  \A t \in Sessions : sess'[t] = sess[t] \/ RequestBalances(sess'[t])
<1>1. \A t \in Sessions : sess'[t] = sess[t] \/ sess'[t] = Idle
  BY DEF SessionsOK, End
<1>. QED
  BY <1>1, IdleBalances

LEMMA BeginBalances ==
    ASSUME SessionsOK, NEW s \in Sessions, NEW q, Begin(s, q), RequestBalances(q)
    PROVE  \A t \in Sessions : sess'[t] = sess[t] \/ RequestBalances(sess'[t])
<1>1. \A t \in Sessions : sess'[t] = sess[t] \/ sess'[t] = q
  BY DEF SessionsOK, Begin
<1>. QED
  BY <1>1

(* A row is rewritten: by balanced lines.                                  *)
LEMMA RewrittenBalance ==
    ASSUME RowsOK, LinesBalance, NEW e \in DOMAIN entries, NEW row,
           entries' = [entries EXCEPT ![e] = row], validateLines(row.lines)
    PROVE  \A j \in DOMAIN entries' : validateLines(entries'[j].lines)
  BY DEF RowsOK, LinesBalance

LEMMA createEntryBooks ==
    ASSUME BooksInv, NEW l \in Postings, NEW p \in BOOLEAN, createEntry(l, p)
    PROVE  BooksInv'
<1>. DEFINE row == insertJournal(IF p THEN "posted" ELSE "draft", "manual", 0, l)
<1>1. l \in [Accounts -> Int] /\ validateLines(l)
  BY PostingsBalance
<1>2. row \in Row /\ row.lines = l
  BY <1>1, InsertedRow DEF Statuses, Sources, insertJournal
<1>3. entries' = Append(entries, row) /\ entries \in Seq(Row)
  BY DEF createEntry, BooksInv, IInv, RowsOK
<1>. HIDE DEF row
<1>4. \A e \in DOMAIN entries' : validateLines(entries'[e].lines)
  <2>1. /\ DOMAIN entries' = DOMAIN entries \cup {Len(entries) + 1}
        /\ entries'[Len(entries) + 1] = row /\ \A j \in DOMAIN entries : entries'[j] = entries[j]
    BY <1>2, <1>3, AppendRow
  <2>. QED
    BY <1>1, <1>2, <2>1 DEF BooksInv, LinesBalance
<1>5. Balanced(balance')
  BY <1>1, Booked DEF createEntry, BooksInv
<1>6. IInv' /\ UNCHANGED sess
  BY createEntryOK DEF BooksInv, createEntry
<1>. QED
  BY <1>4, <1>5, <1>6, BooksStep

LEMMA EditDraftBooks ==
    ASSUME BooksInv, NEW e \in DOMAIN entries, NEW l \in Postings, NEW p \in BOOLEAN,
           EditDraft(e, l, p)
    PROVE  BooksInv'
<1>. DEFINE row == [entries[e] EXCEPT !.lines = l, !.status = IF p THEN "posted" ELSE "draft"]
<1>1. l \in [Accounts -> Int] /\ validateLines(l)
  BY PostingsBalance
<1>2. entries' = [entries EXCEPT ![e] = row]
  BY DEF EditDraft
<1>3. row.lines = l
  BY RowTyped DEF BooksInv, IInv, Row
<1>. HIDE DEF row
<1>4. \A j \in DOMAIN entries' : validateLines(entries'[j].lines)
  BY <1>1, <1>2, <1>3, RewrittenBalance DEF BooksInv, IInv
<1>5. Balanced(balance')
  BY <1>1, Booked DEF EditDraft, BooksInv
<1>6. IInv' /\ UNCHANGED sess
  BY EditDraftOK DEF BooksInv, EditDraft
<1>. QED
  BY <1>4, <1>5, <1>6, BooksStep

LEMMA DeleteDraftBooks ==
    ASSUME BooksInv, NEW e \in DOMAIN entries, DeleteDraft(e)
    PROVE  BooksInv'
<1>. DEFINE row == [entries[e] EXCEPT !.status = "deleted", !.alloc = NoAlloc]
<1>1. entries' = [entries EXCEPT ![e] = row]
  BY DEF DeleteDraft
<1>2. row.lines = entries[e].lines
  BY RowTyped DEF BooksInv, IInv, Row
<1>. HIDE DEF row
<1>3. \A j \in DOMAIN entries' : validateLines(entries'[j].lines)
  BY <1>1, <1>2, RewrittenBalance DEF BooksInv, IInv, LinesBalance
<1>4. Balanced(balance') /\ IInv' /\ UNCHANGED sess
  BY DeleteDraftOK DEF BooksInv, DeleteDraft
<1>. QED
  BY <1>3, <1>4, BooksStep

LEMMA FinishPostBooks ==
    ASSUME BooksInv, NEW s \in Sessions, FinishPost(s)
    PROVE  BooksInv'
<1>1. PICK e, l : e = sess[s].entry /\ l = sess[s].lines
  OBVIOUS
<1>2. e \in DOMAIN entries /\ l \in [Accounts -> Int] /\ validateLines(l)
  BY <1>1 DEF BooksInv, IInv, SessionsOK, RequestOK, FinishPost, LinesBalance, RequestBalances
<1>. DEFINE row == [entries[e] EXCEPT !.status = "posted"]
<1>3. entries' = entries \/ entries' = [entries EXCEPT ![e] = row]
  BY <1>1 DEF FinishPost
<1>4. row.lines = entries[e].lines
  BY <1>2, RowTyped DEF BooksInv, IInv, Row
<1>. HIDE DEF row
<1>5. \A j \in DOMAIN entries' : validateLines(entries'[j].lines)
  BY <1>2, <1>3, <1>4, RewrittenBalance DEF BooksInv, IInv, LinesBalance
<1>6. Balanced(balance')
  BY <1>1, <1>2, Booked DEF FinishPost, BooksInv
<1>7. IInv' /\ End(s)
  BY FinishPostOK DEF BooksInv, FinishPost
<1>. QED
  BY <1>5, <1>6, <1>7, BooksStep, EndBalances DEF BooksInv, IInv

LEMMA FinishAllocateBooks ==
    ASSUME BooksInv, NEW s \in Sessions, FinishAllocate(s)
    PROVE  BooksInv'
<1>1. PICK e, b, n : e = sess[s].entry /\ b = sess[s].bill /\ n = sess[s].amount
  OBVIOUS
<1>2. e \in DOMAIN entries
  BY <1>1 DEF BooksInv, IInv, SessionsOK, RequestOK, FinishAllocate
<1>. DEFINE row == [entries[e] EXCEPT !.alloc[b] = @ + n]
<1>3. entries' = [entries EXCEPT ![e] = row]
  BY <1>1 DEF FinishAllocate
<1>4. row.lines = entries[e].lines
  BY <1>2, RowTyped DEF BooksInv, IInv, Row
<1>. HIDE DEF row
<1>5. \A j \in DOMAIN entries' : validateLines(entries'[j].lines)
  BY <1>2, <1>3, <1>4, RewrittenBalance DEF BooksInv, IInv, LinesBalance
<1>6. Balanced(balance') /\ IInv' /\ End(s)
  BY FinishAllocateOK DEF BooksInv, FinishAllocate
<1>. QED
  BY <1>5, <1>6, BooksStep, EndBalances DEF BooksInv, IInv

LEMMA FinishUnallocateBooks ==
    ASSUME BooksInv, NEW s \in Sessions, FinishUnallocate(s)
    PROVE  BooksInv'
<1>1. PICK e, removed : e = sess[s].entry /\ removed = sess[s].removed
  OBVIOUS
<1>2. e \in DOMAIN entries
  BY <1>1 DEF BooksInv, IInv, SessionsOK, RequestOK, FinishUnallocate
<1>. DEFINE row == [entries[e] EXCEPT !.alloc = Without(@, removed)]
<1>3. entries' = [entries EXCEPT ![e] = row]
  BY <1>1 DEF FinishUnallocate
<1>4. row.lines = entries[e].lines
  BY <1>2, RowTyped DEF BooksInv, IInv, Row
<1>. HIDE DEF row
<1>5. \A j \in DOMAIN entries' : validateLines(entries'[j].lines)
  BY <1>2, <1>3, <1>4, RewrittenBalance DEF BooksInv, IInv, LinesBalance
<1>6. Balanced(balance') /\ IInv' /\ End(s)
  BY FinishUnallocateOK DEF BooksInv, FinishUnallocate
<1>. QED
  BY <1>5, <1>6, BooksStep, EndBalances DEF BooksInv, IInv

(* What the end of a reversal or a correction does to the table.           *)
Cancels(e, added) ==
    \E row \in Row :
        /\ row.status = entries[e].status /\ row.lines = entries[e].lines
        /\ entries' = [entries EXCEPT ![e] = row] \o added

LEMMA CancelShape ==
    ASSUME IInv, NEW s \in Sessions, FinishCancel(s),
           NEW e, e = sess[s].entry, NEW added, added = sess[s].added
    PROVE  /\ e \in DOMAIN entries /\ added \in Seq(Row) /\ Len(added) \in {1, 2}
           /\ \A k \in DOMAIN added : added[k].status = "posted"
           /\ Cancels(e, added)
<1>1. PICK q : q = sess[s]
  OBVIOUS
<1>2. PICK removed : removed = q.removed
  OBVIOUS
<1>3. /\ q.op = "cancel" /\ e \in DOMAIN entries /\ removed \in [Bills -> Int] /\ AddedOK(e, added)
  BY <1>1, <1>2 DEF IInv, SessionsOK, RequestOK, FinishCancel
<1>. DEFINE row == [entries[e] EXCEPT !.alloc = Without(@, removed)]
<1>4. row \in Row /\ row.status = entries[e].status /\ row.lines = entries[e].lines
  BY <1>3, RowTyped DEF IInv, Row, Without
<1>5. entries' = [entries EXCEPT ![e] = row] \o added
  BY <1>1, <1>2 DEF FinishCancel
<1>. HIDE DEF row
<1>6. /\ added \in Seq(Row) /\ Len(added) \in {1, 2} /\ added[1].status = "posted"
      /\ Len(added) = 2 => added[2].status = "posted"
  BY <1>3, AddedRows DEF IInv
<1>7. \A k \in DOMAIN added : added[k].status = "posted"
  <2>1. \A k \in DOMAIN added : k = 1 \/ (k = 2 /\ Len(added) = 2)
    BY <1>6
  <2>. QED
    BY <1>6, <2>1
<1>. QED
  BY <1>3, <1>4, <1>5, <1>6, <1>7 DEF Cancels

LEMMA FinishCancelBooks ==
    ASSUME BooksInv, NEW s \in Sessions, FinishCancel(s)
    PROVE  BooksInv'
<1>1. PICK e, added : e = sess[s].entry /\ added = sess[s].added
  OBVIOUS
<1>2. e \in DOMAIN entries /\ added \in Seq(Row) /\ Len(added) \in {1, 2}
  BY <1>1, CancelShape DEF BooksInv
<1>3. PICK row \in Row :
         /\ row.status = entries[e].status /\ row.lines = entries[e].lines
         /\ entries' = [entries EXCEPT ![e] = row] \o added
  <2>1. Cancels(e, added)
    BY <1>1, CancelShape DEF BooksInv
  <2>. QED
    BY <2>1 DEF Cancels
<1>4. \A k \in DOMAIN added : validateLines(added[k].lines) /\ added[k].lines \in [Accounts -> Int]
  <2>1. \A k \in DOMAIN added : added[k] \in Row
    BY <1>2
  <2>2. \A k \in DOMAIN added : validateLines(added[k].lines)
    BY <1>1 DEF FinishCancel, BooksInv, LinesBalance, RequestBalances
  <2>. QED
    BY <2>1, <2>2 DEF Row
<1>5. \A j \in DOMAIN entries' : validateLines(entries'[j].lines)
  <2>. DEFINE tab == [entries EXCEPT ![e] = row]
  <2>1. /\ tab \in Seq(Row) /\ DOMAIN tab = DOMAIN entries
        /\ tab[e] = row /\ \A j \in DOMAIN entries \ {e} : tab[j] = entries[j]
    BY <1>2, UpdateRow DEF BooksInv, IInv, RowsOK
  <2>2. entries' = tab \o added
    BY <1>3
  <2>3. \A j \in DOMAIN entries : validateLines(tab[j].lines)
    BY <1>3, <2>1 DEF BooksInv, LinesBalance
  <2>. HIDE DEF tab
  <2>4. /\ \A j \in DOMAIN tab : entries'[j] = tab[j]
        /\ \A j \in DOMAIN entries' \ DOMAIN tab :
              j - Len(tab) \in DOMAIN added /\ entries'[j] = added[j - Len(tab)]
    BY <1>2, <2>1, <2>2, InsertRows
  <2>. QED
    BY <1>4, <2>1, <2>3, <2>4
<1>6. Balanced(balance')
  <2>1. Balanced(balance)
    BY DEF BooksInv
  <2>2. 1 \in DOMAIN added /\ (Len(added) = 2 => 2 \in DOMAIN added)
    BY <1>2
  <2>3. Balanced(updateBalances(balance, added[1].lines))
    BY <1>4, <2>1, <2>2, Booked
  <2>4. Len(added) = 2 =>
           Balanced(updateBalances(updateBalances(balance, added[1].lines), added[2].lines))
    BY <1>4, <2>2, <2>3, Booked
  <2>. QED
    BY <1>1, <1>2, <2>3, <2>4 DEF FinishCancel
<1>7. IInv' /\ End(s)
  BY FinishCancelOK DEF BooksInv, FinishCancel
<1>. QED
  BY <1>5, <1>6, <1>7, BooksStep, EndBalances DEF BooksInv, IInv

(* A handler that has only read so far: what it read is balanced.          *)
LEMMA ReadBooks ==
    ASSUME BooksInv, IInv', UNCHANGED <<entries, balance>>, NEW s \in Sessions, NEW q,
           Begin(s, q), RequestBalances(q)
    PROVE  BooksInv'
  BY BooksStep, BeginBalances DEF BooksInv, IInv, LinesBalance

LEMMA BeginPostBooks ==
    ASSUME BooksInv, NEW s \in Sessions, NEW e \in DOMAIN entries, BeginPost(s, e)
    PROVE  BooksInv'
<1>. DEFINE q == [op |-> "post", entry |-> e, lines |-> entries[e].lines]
<1>1. RequestBalances(q)
  BY LinesTyped DEF RequestBalances, BooksInv, IInv, LinesBalance
<1>2. Begin(s, q) /\ UNCHANGED <<entries, balance>>
  BY DEF BeginPost
<1>. HIDE DEF q
<1>. QED
  BY <1>1, <1>2, BeginPostOK, ReadBooks DEF BooksInv

LEMMA BeginAllocateBooks ==
    ASSUME BooksInv, NEW s \in Sessions, NEW e \in DOMAIN entries, NEW b \in Bills,
           NEW n \in 1..BillTotal, BeginAllocate(s, e, b, n)
    PROVE  BooksInv'
<1>. DEFINE q == [op |-> "allocate", entry |-> e, bill |-> b, amount |-> n]
<1>1. RequestBalances(q)
  BY DEF RequestBalances
<1>2. Begin(s, q) /\ UNCHANGED <<entries, balance>>
  BY DEF BeginAllocate
<1>. HIDE DEF q
<1>. QED
  BY <1>1, <1>2, BeginAllocateOK, ReadBooks DEF BooksInv

LEMMA BeginUnallocateBooks ==
    ASSUME BooksInv, NEW s \in Sessions, NEW e \in DOMAIN entries, BeginUnallocate(s, e)
    PROVE  BooksInv'
<1>. DEFINE q == [op |-> "unallocate", entry |-> e, removed |-> Removed(e), due |-> DueWithout(e),
                  orphans |-> orphaned]
<1>1. RequestBalances(q)
  BY DEF RequestBalances
<1>2. Begin(s, q) /\ UNCHANGED <<entries, balance>>
  BY DEF BeginUnallocate
<1>. HIDE DEF q
<1>. QED
  BY <1>1, <1>2, BeginUnallocateOK, ReadBooks DEF BooksInv

LEMMA CancelBooks ==
    ASSUME BooksInv, IInv', NEW s \in Sessions, NEW e \in DOMAIN entries, NEW added,
           Cancel(s, e, added), \A k \in DOMAIN added : validateLines(added[k].lines)
    PROVE  BooksInv'
<1>. DEFINE q == [op |-> "cancel", entry |-> e, added |-> added,
                  removed |-> Removed(e), due |-> DueWithout(e),
                  orphans |-> orphaned]
<1>1. RequestBalances(q)
  BY DEF RequestBalances
<1>2. Begin(s, q) /\ UNCHANGED <<entries, balance>>
  BY DEF Cancel
<1>. HIDE DEF q
<1>. QED
  BY <1>1, <1>2, ReadBooks

LEMMA BeginReverseBooks ==
    ASSUME BooksInv, NEW s \in Sessions, NEW e \in DOMAIN entries, BeginReverse(s, e)
    PROVE  BooksInv'
<1>1. validateLines(Swapped(entries[e].lines))
  BY LinesTyped, SwappedBalances DEF BooksInv, IInv, LinesBalance
<1>2. PICK row : row = Mirror("reversal", e)
  OBVIOUS
<1>3. row.lines = Swapped(entries[e].lines)
  BY <1>2 DEF Mirror, insertJournal
<1>4. \A k \in DOMAIN <<row>> : validateLines(<<row>>[k].lines)
  BY <1>1, <1>3
<1>5. Cancel(s, e, <<row>>)
  BY <1>2 DEF BeginReverse, Mirror
<1>. QED
  BY <1>4, <1>5, BeginReverseOK, CancelBooks DEF BooksInv

LEMMA BeginCorrectBooks ==
    ASSUME BooksInv, NEW s \in Sessions, NEW e \in DOMAIN entries, NEW l \in Postings,
           BeginCorrect(s, e, l)
    PROVE  BooksInv'
<1>1. validateLines(Swapped(entries[e].lines)) /\ validateLines(l)
  BY LinesTyped, SwappedBalances, PostingsBalance DEF BooksInv, IInv, LinesBalance
<1>2. PICK row, new : /\ row = Mirror("edit_reversal", e)
                      /\ new = insertJournal("posted", "manual_correction", e, l)
  OBVIOUS
<1>3. row.lines = Swapped(entries[e].lines) /\ new.lines = l
  BY <1>2 DEF Mirror, insertJournal
<1>4. \A k \in DOMAIN <<row, new>> : validateLines(<<row, new>>[k].lines)
  BY <1>1, <1>3
<1>5. Cancel(s, e, <<row, new>>)
  BY <1>2 DEF BeginCorrect, Mirror
<1>. QED
  BY <1>4, <1>5, BeginCorrectOK, CancelBooks DEF BooksInv

LEMMA RollbackBooks ==
    ASSUME BooksInv, NEW s \in Sessions, Rollback(s)
    PROVE  BooksInv'
<1>1. UNCHANGED <<entries, balance>> /\ End(s)
  BY DEF Rollback
<1>. QED
  BY <1>1, RollbackOK, BooksStep, EndBalances DEF BooksInv, IInv, LinesBalance

LEMMA InitBooks == Init => BooksInv
<1>. SUFFICES ASSUME Init PROVE BooksInv
  OBVIOUS
<1>1. LinesBalance
  BY IdleBalances DEF Init, LinesBalance
<1>2. Balanced(balance)
  <2>1. balance \in [Accounts -> Int] /\ \A a \in Accounts : balance[a] = 0
    BY DEF Init
  <2>2. SumFunctionOnSet(balance, DebitNatured) = 0
    BY <2>1, AccountsFinite, SumZero
  <2>3. SumFunctionOnSet(balance, Accounts \ DebitNatured) = 0
    BY <2>1, AccountsFinite, SumZero
  <2>. QED
    BY <2>1, <2>2, <2>3 DEF Balanced
<1>. QED
  BY <1>1, <1>2, InitOK DEF BooksInv

LEMMA NextBooks == BooksInv /\ [Next]_vars => BooksInv'
<1>. SUFFICES ASSUME BooksInv, [Next]_vars PROVE BooksInv'
  OBVIOUS
<1>1. CASE UNCHANGED vars
  <2>1. IInv' /\ UNCHANGED <<entries, balance, sess>>
    BY <1>1, EntriesUnchanged, QuietStep DEF vars, BooksInv, IInv
  <2>. QED
    BY <2>1, BooksStep DEF BooksInv, LinesBalance
<1>2. CASE Next
  BY <1>2, createEntryBooks, EditDraftBooks, DeleteDraftBooks, BeginPostBooks, BeginCorrectBooks,
     BeginReverseBooks, BeginAllocateBooks, BeginUnallocateBooks, FinishPostBooks,
     FinishCancelBooks, FinishAllocateBooks, FinishUnallocateBooks, RollbackBooks DEF Next
<1>. QED
  BY <1>1, <1>2

-----------------------------------------------------------------------------
(* The stored balances.  Where each draft is in one pair of hands, a post  *)
(* in flight holds a draft that still has the lines it has read, and the   *)
(* balances are the sums of the posted lines.                              *)

DraftsHeld ==
    \A s \in Sessions : sess[s].op = "post" =>
        /\ entries[sess[s].entry].status = "draft"
        /\ entries[sess[s].entry].lines = sess[s].lines
        /\ \A t \in Sessions : sess[t].op = "post" /\ sess[t].entry = sess[s].entry => t = s

OwnedInv == BooksInv /\ DraftsHeld /\ BalancesMatchLedger

(* The sum of the posted lines of an account over a table of entries.      *)
Books(tab, a) == SumFunctionOnSet([j \in DOMAIN tab |-> PostedLine(tab[j], a)], DOMAIN tab)

LEMMA BooksOf ==
    \A tab, a : SumFunction([j \in DOMAIN tab |-> PostedLine(tab[j], a)]) = Books(tab, a)
  BY DEF SumFunction, Books

LEMMA MatchIs == BalancesMatchLedger <=> \A a \in Accounts : balance[a] = Books(entries, a)
  BY BooksOf, Zenon DEF BalancesMatchLedger

LEMMA MatchIsNext == BalancesMatchLedger' <=> \A a \in Accounts : balance'[a] = Books(entries', a)
  BY BooksOf, Zenon DEF BalancesMatchLedger

LEMMA PostedInt == \A row \in Row, a \in Accounts : PostedLine(row, a) \in Int
  BY DEF Row, PostedLine, Effect

LEMMA TableFinite ==
    ASSUME NEW tab \in Seq(Row)
    PROVE  /\ DOMAIN tab = 1..Len(tab) /\ Len(tab) \in Nat /\ IsFiniteSet(DOMAIN tab)
           /\ \A j \in DOMAIN tab, a \in Accounts : PostedLine(tab[j], a) \in Int
<1>1. DOMAIN tab = 1..Len(tab) /\ Len(tab) \in Nat
  OBVIOUS
<1>2. IsFiniteSet(1..Len(tab))
  BY <1>1, FS_Interval
<1>3. \A j \in DOMAIN tab : tab[j] \in Row
  OBVIOUS
<1>. QED
  BY <1>1, <1>2, <1>3, PostedInt

LEMMA BooksUpdate ==
    ASSUME NEW tab \in Seq(Row), NEW e \in DOMAIN tab, NEW row \in Row, NEW a \in Accounts
    PROVE  Books([tab EXCEPT ![e] = row], a)
             = Books(tab, a) + PostedLine(row, a) - PostedLine(tab[e], a)
<1>. DEFINE new == [tab EXCEPT ![e] = row]
            f == [j \in DOMAIN tab |-> PostedLine(tab[j], a)]
            g == [j \in DOMAIN tab |-> PostedLine(new[j], a)]
<1>1. new \in Seq(Row) /\ DOMAIN new = DOMAIN tab
      /\ new[e] = row /\ \A j \in DOMAIN tab \ {e} : new[j] = tab[j]
  BY UpdateRow
<1>2. IsFiniteSet(DOMAIN tab)
  BY TableFinite
<1>. HIDE DEF new
<1>3. \A j \in DOMAIN tab : f[j] \in Int /\ g[j] \in Int
  BY <1>1, TableFinite
<1>4. \A j \in DOMAIN tab : j # e => g[j] = f[j]
  BY <1>1
<1>5. f[e] = PostedLine(tab[e], a) /\ g[e] = PostedLine(row, a)
  BY <1>1
<1>6. Books(tab, a) = SumFunctionOnSet(f, DOMAIN tab) /\ Books(new, a) = SumFunctionOnSet(g, DOMAIN tab)
  BY <1>1 DEF Books
<1>. HIDE DEF f, g
<1>7. SumFunctionOnSet(g, DOMAIN tab) = SumFunctionOnSet(f, DOMAIN tab) + g[e] - f[e]
  BY <1>2, <1>3, <1>4, SumChange
<1>. QED
  BY <1>5, <1>6, <1>7 DEF new

LEMMA BooksAppend ==
    ASSUME NEW tab \in Seq(Row), NEW row \in Row, NEW a \in Accounts
    PROVE  Books(Append(tab, row), a) = Books(tab, a) + PostedLine(row, a)
<1>. DEFINE new == Append(tab, row)
            n == Len(tab)
            f == [j \in 1..n |-> PostedLine(tab[j], a)]
            g == [j \in 1..n+1 |-> PostedLine(new[j], a)]
<1>1. /\ new \in Seq(Row) /\ Len(new) = n + 1 /\ new[n + 1] = row
      /\ \A j \in DOMAIN tab : new[j] = tab[j]
  BY AppendRow
<1>. HIDE DEF new
<1>2. n \in Nat /\ DOMAIN tab = 1..n /\ DOMAIN new = 1..n+1
  BY <1>1, TableFinite
<1>3. Books(tab, a) = SumFunctionOnSet(f, 1..n) /\ Books(new, a) = SumFunctionOnSet(g, 1..n+1)
  <2>1. DOMAIN tab = 1..n /\ DOMAIN new = 1..n+1
    BY <1>2
  <2>. HIDE DEF n
  <2>. QED
    BY <2>1, Zenon DEF Books
<1>. HIDE DEF n
<1>4. (\A j \in 1..n+1 : g[j] \in Int) /\ \A j \in 1..n : g[j] = f[j]
  <2>1. \A j \in DOMAIN new : PostedLine(new[j], a) \in Int
    BY <1>1, TableFinite
  <2>2. \A j \in 1..n+1 : g[j] \in Int
    BY <1>2, <2>1
  <2>3. \A j \in 1..n : j \in 1..n+1 /\ new[j] = tab[j]
    BY <1>1, <1>2
  <2>. QED
    BY <2>2, <2>3
<1>5. g[n+1] = PostedLine(row, a)
  BY <1>1, <1>2
<1>. HIDE DEF f, g
<1>6. SumFunctionOnSet(g, 1..n+1) = SumFunctionOnSet(f, 1..n) + g[n+1]
  BY <1>2, <1>4, SumNext
<1>. QED
  BY <1>3, <1>5, <1>6 DEF new

LEMMA BooksInt == ASSUME NEW tab \in Seq(Row), NEW a \in Accounts PROVE Books(tab, a) \in Int
<1>. DEFINE f == [j \in DOMAIN tab |-> PostedLine(tab[j], a)]
<1>1. \A j \in DOMAIN tab : f[j] \in Int
  BY TableFinite
<1>2. Books(tab, a) = SumFunctionOnSet(f, DOMAIN tab)
  BY DEF Books
<1>. HIDE DEF f
<1>. QED
  BY <1>1, <1>2, TableFinite, SumInt

(* One row is rewritten, and the balances change by the difference.        *)
LEMMA MatchRewritten ==
    ASSUME RowsOK, BalancesMatchLedger, Balanced(balance), NEW e \in DOMAIN entries, NEW row \in Row,
           entries' = [entries EXCEPT ![e] = row],
           \A a \in Accounts :
               balance'[a] = balance[a] + PostedLine(row, a) - PostedLine(entries[e], a)
    PROVE  BalancesMatchLedger'
<1>1. \A a \in Accounts : balance[a] = Books(entries, a)
  BY MatchIs
<1>2. \A a \in Accounts :
         Books(entries', a) = Books(entries, a) + PostedLine(row, a) - PostedLine(entries[e], a)
  BY BooksUpdate DEF RowsOK
<1>3. \A a \in Accounts : balance'[a] = Books(entries', a)
  BY <1>1, <1>2
<1>. QED
  BY <1>3, MatchIsNext

(* What a draft or a deleted entry, and what a posted one, adds.           *)
LEMMA PostedLineOf ==
    ASSUME NEW row \in Row, NEW bal, Balanced(bal), NEW a \in Accounts
    PROVE  /\ row.status # "posted" => PostedLine(row, a) = 0
           /\ row.status = "posted" =>
                 updateBalances(bal, row.lines)[a] = bal[a] + PostedLine(row, a)
  BY DEF Row, PostedLine, updateBalances

(* What keeps DraftsHeld.                                                  *)
LEMMA HeldKept ==
    ASSUME DraftsHeld,
           \A t \in Sessions : sess'[t] = sess[t] \/ sess'[t].op # "post",
           \A t \in Sessions : sess'[t].op = "post" =>
               /\ entries'[sess[t].entry].status = entries[sess[t].entry].status
               /\ entries'[sess[t].entry].lines = entries[sess[t].entry].lines
    PROVE  DraftsHeld'
  BY DEF DraftsHeld

(* What a handler must show to preserve OwnedInv when it rewrites one row. *)
LEMMA OwnedRewritten ==
    ASSUME OwnedInv, BooksInv', NEW e \in DOMAIN entries, NEW row \in Row,
           entries' = [entries EXCEPT ![e] = row],
           \A a \in Accounts :
               balance'[a] = balance[a] + PostedLine(row, a) - PostedLine(entries[e], a),
           \A t \in Sessions : sess'[t] = sess[t] \/ sess'[t] = Idle,
           \/ row.status = entries[e].status /\ row.lines = entries[e].lines
           \/ \A t \in Sessions : sess'[t].op = "post" => sess[t].entry # e
    PROVE  OwnedInv'
<1>1. entries'[e] = row /\ \A j \in DOMAIN entries \ {e} : entries'[j] = entries[j]
  BY UpdateRow DEF OwnedInv, BooksInv, IInv, RowsOK
<1>2. \A t \in Sessions : sess'[t] = sess[t] \/ sess'[t].op # "post"
  BY DEF Idle
<1>3. ASSUME NEW t \in Sessions, sess'[t].op = "post"
      PROVE  /\ entries'[sess[t].entry].status = entries[sess[t].entry].status
             /\ entries'[sess[t].entry].lines = entries[sess[t].entry].lines
  <2>1. sess'[t] = sess[t]
    BY <1>2, <1>3
  <2>2. sess[t].entry \in DOMAIN entries
    BY <1>3, <2>1 DEF OwnedInv, BooksInv, IInv, SessionsOK, RequestOK
  <2>. QED
    BY <1>1, <1>3, <2>2
<1>4. DraftsHeld'
  BY <1>2, <1>3, HeldKept DEF OwnedInv
<1>5. BalancesMatchLedger'
  BY MatchRewritten DEF OwnedInv, BooksInv, IInv
<1>. QED
  BY <1>4, <1>5 DEF OwnedInv

(* ... and when it leaves the table alone.                                 *)
LEMMA OwnedUnchanged ==
    ASSUME OwnedInv, BooksInv', UNCHANGED <<entries, balance>>,
           \A t \in Sessions : sess'[t] = sess[t] \/ sess'[t].op # "post"
    PROVE  OwnedInv'
<1>1. DraftsHeld'
  BY HeldKept DEF OwnedInv
<1>2. BalancesMatchLedger'
  BY DEF OwnedInv, BalancesMatchLedger
<1>. QED
  BY <1>1, <1>2 DEF OwnedInv

LEMMA EndOwned ==
    ASSUME SessionsOK, NEW s \in Sessions, End(s)
    PROVE  sess'[s] = Idle /\ \A t \in Sessions \ {s} : sess'[t] = sess[t]
  BY DEF SessionsOK, End

LEMMA createEntryOwned ==
    ASSUME OwnedInv, NEW l \in Postings, NEW p \in BOOLEAN, createEntry(l, p)
    PROVE  OwnedInv'
<1>. DEFINE row == insertJournal(IF p THEN "posted" ELSE "draft", "manual", 0, l)
<1>1. l \in [Accounts -> Int]
  BY PostingsBalance
<1>2. row \in Row /\ row.lines = l /\ row.status = IF p THEN "posted" ELSE "draft"
  BY <1>1, InsertedRow DEF Statuses, Sources, insertJournal
<1>3. entries' = Append(entries, row) /\ entries \in Seq(Row)
  BY DEF createEntry, OwnedInv, BooksInv, IInv, RowsOK
<1>4. balance' = IF p THEN updateBalances(balance, l) ELSE balance
  BY DEF createEntry
<1>. HIDE DEF row
<1>5. \A a \in Accounts : balance[a] \in Int /\ Balanced(balance)
  BY DEF OwnedInv, BooksInv, Balanced
<1>6. \A a \in Accounts : balance'[a] = balance[a] + PostedLine(row, a)
  BY <1>2, <1>4, <1>5, PostedLineOf
<1>7. \A a \in Accounts : Books(entries', a) = Books(entries, a) + PostedLine(row, a)
  BY <1>2, <1>3, BooksAppend
<1>8. \A a \in Accounts : balance[a] = Books(entries, a)
  BY MatchIs DEF OwnedInv
<1>9. BalancesMatchLedger'
  BY <1>6, <1>7, <1>8, MatchIsNext
<1>10. \A j \in DOMAIN entries : entries'[j] = entries[j]
  BY <1>2, <1>3, AppendRow
<1>11. \A t \in Sessions : sess[t].op = "post" => sess[t].entry \in DOMAIN entries
  BY DEF OwnedInv, BooksInv, IInv, SessionsOK, RequestOK
<1>12. DraftsHeld'
  BY <1>10, <1>11, HeldKept DEF createEntry, OwnedInv
<1>. QED
  BY <1>9, <1>12, createEntryBooks DEF OwnedInv

LEMMA EditDraftOwned ==
    ASSUME DraftsOwned, OwnedInv, NEW e \in DOMAIN entries, NEW l \in Postings, NEW p \in BOOLEAN,
           EditDraft(e, l, p)
    PROVE  OwnedInv'
<1>. DEFINE row == [entries[e] EXCEPT !.lines = l, !.status = IF p THEN "posted" ELSE "draft"]
<1>1. l \in [Accounts -> Int]
  BY PostingsBalance
<1>2. entries[e] \in Row /\ entries[e].status = "draft"
  BY RowTyped DEF OwnedInv, BooksInv, IInv, EditDraft, IsDraft
<1>3. row \in Row /\ row.lines = l /\ row.status = IF p THEN "posted" ELSE "draft"
  BY <1>1, <1>2 DEF Row, Statuses
<1>4. entries' = [entries EXCEPT ![e] = row] /\ sess' = sess
  BY DEF EditDraft
<1>5. balance' = IF p THEN updateBalances(balance, l) ELSE balance
  BY DEF EditDraft
<1>6. \A t \in Sessions : sess[t].op = "post" => sess[t].entry # e
  BY DEF EditDraft, DraftFree
<1>. HIDE DEF row
<1>7. \A a \in Accounts : balance[a] \in Int /\ Balanced(balance)
  BY DEF OwnedInv, BooksInv, Balanced
<1>8. ASSUME NEW a \in Accounts
      PROVE  balance'[a] = balance[a] + PostedLine(row, a) - PostedLine(entries[e], a)
  <2>1. PostedLine(entries[e], a) = 0 /\ PostedLine(row, a) \in Int
    BY <1>2, <1>3, <1>7, PostedLineOf, PostedInt
  <2>2. balance'[a] = balance[a] + PostedLine(row, a)
    BY <1>3, <1>5, <1>7, PostedLineOf
  <2>. QED
    BY <1>7, <2>1, <2>2
<1>. QED
  BY <1>3, <1>4, <1>6, <1>8, OwnedRewritten, EditDraftBooks DEF OwnedInv

LEMMA DeleteDraftOwned ==
    ASSUME DraftsOwned, OwnedInv, NEW e \in DOMAIN entries, DeleteDraft(e)
    PROVE  OwnedInv'
<1>. DEFINE row == [entries[e] EXCEPT !.status = "deleted", !.alloc = NoAlloc]
<1>1. entries[e] \in Row /\ entries[e].status = "draft"
  BY RowTyped DEF OwnedInv, BooksInv, IInv, DeleteDraft, IsDraft
<1>2. row \in Row /\ row.status = "deleted"
  BY <1>1, NoAllocTyped DEF Row, Statuses
<1>3. entries' = [entries EXCEPT ![e] = row] /\ sess' = sess /\ balance' = balance
  BY DEF DeleteDraft
<1>4. \A t \in Sessions : sess[t].op = "post" => sess[t].entry # e
  BY DEF DeleteDraft, DraftFree
<1>. HIDE DEF row
<1>5. \A a \in Accounts : balance[a] \in Int /\ Balanced(balance)
  BY DEF OwnedInv, BooksInv, Balanced
<1>6. \A a \in Accounts : PostedLine(entries[e], a) = 0 /\ PostedLine(row, a) = 0
  BY <1>1, <1>2, <1>5, PostedLineOf
<1>7. \A a \in Accounts :
         balance'[a] = balance[a] + PostedLine(row, a) - PostedLine(entries[e], a)
  BY <1>3, <1>5, <1>6
<1>. QED
  BY <1>2, <1>3, <1>4, <1>7, OwnedRewritten, DeleteDraftBooks DEF OwnedInv

LEMMA FinishPostOwned ==
    ASSUME OwnedInv, NEW s \in Sessions, FinishPost(s)
    PROVE  OwnedInv'
<1>1. PICK e, l : e = sess[s].entry /\ l = sess[s].lines
  OBVIOUS
<1>2. e \in DOMAIN entries /\ sess[s].op = "post" /\ entries[e].status = "draft" /\ entries[e].lines = l
  BY <1>1 DEF OwnedInv, BooksInv, IInv, SessionsOK, RequestOK, DraftsHeld, FinishPost
<1>. DEFINE row == [entries[e] EXCEPT !.status = "posted"]
<1>3. entries[e] \in Row
  BY <1>2, RowTyped DEF OwnedInv, BooksInv, IInv
<1>4. row \in Row /\ row.status = "posted" /\ row.lines = l
  BY <1>2, <1>3 DEF Row, Statuses
<1>5. entries' = [entries EXCEPT ![e] = row] /\ balance' = updateBalances(balance, l)
  BY <1>1, <1>2 DEF FinishPost
<1>. HIDE DEF row
<1>6. sess'[s] = Idle /\ \A t \in Sessions \ {s} : sess'[t] = sess[t]
  BY EndOwned DEF FinishPost, OwnedInv, BooksInv, IInv
<1>7. \A t \in Sessions : sess'[t].op = "post" => sess[t].entry # e
  BY <1>1, <1>2, <1>6 DEF Idle, OwnedInv, DraftsHeld
<1>8. \A a \in Accounts : balance[a] \in Int /\ Balanced(balance)
  BY DEF OwnedInv, BooksInv, Balanced
<1>9. ASSUME NEW a \in Accounts
      PROVE  balance'[a] = balance[a] + PostedLine(row, a) - PostedLine(entries[e], a)
  <2>1. PostedLine(entries[e], a) = 0 /\ PostedLine(row, a) \in Int
    BY <1>2, <1>3, <1>4, <1>8, PostedLineOf, PostedInt
  <2>2. balance'[a] = balance[a] + PostedLine(row, a)
    BY <1>4, <1>5, <1>8, PostedLineOf
  <2>. QED
    BY <1>8, <2>1, <2>2
<1>. QED
  BY <1>2, <1>4, <1>5, <1>6, <1>7, <1>9, OwnedRewritten, FinishPostBooks DEF OwnedInv

(* A handler that touches the allocations of one entry and no balance.     *)
LEMMA AllocOwned ==
    ASSUME OwnedInv, BooksInv', NEW e \in DOMAIN entries, NEW row \in Row, NEW s \in Sessions, End(s),
           entries' = [entries EXCEPT ![e] = row], UNCHANGED balance,
           row.status = entries[e].status, row.lines = entries[e].lines
    PROVE  OwnedInv'
<1>1. \A t \in Sessions : sess'[t] = sess[t] \/ sess'[t] = Idle
  BY EndOwned DEF OwnedInv, BooksInv, IInv
<1>2. \A a \in Accounts : balance[a] \in Int /\ PostedLine(row, a) \in Int
  BY PostedInt DEF OwnedInv, BooksInv, Balanced
<1>3. \A a \in Accounts : PostedLine(row, a) = PostedLine(entries[e], a)
  BY DEF PostedLine
<1>4. \A a \in Accounts :
         balance'[a] = balance[a] + PostedLine(row, a) - PostedLine(entries[e], a)
  BY <1>2, <1>3
<1>. QED
  BY <1>1, <1>4, OwnedRewritten

LEMMA FinishAllocateOwned ==
    ASSUME OwnedInv, NEW s \in Sessions, FinishAllocate(s)
    PROVE  OwnedInv'
<1>1. PICK e, b, n : e = sess[s].entry /\ b = sess[s].bill /\ n = sess[s].amount
  OBVIOUS
<1>2. e \in DOMAIN entries /\ b \in Bills /\ n \in Nat
  BY <1>1 DEF OwnedInv, BooksInv, IInv, SessionsOK, RequestOK, FinishAllocate
<1>. DEFINE row == [entries[e] EXCEPT !.alloc[b] = @ + n]
<1>3. row \in Row /\ row.status = entries[e].status /\ row.lines = entries[e].lines
  BY <1>2, RowTyped DEF Row, OwnedInv, BooksInv, IInv
<1>4. entries' = [entries EXCEPT ![e] = row] /\ UNCHANGED balance /\ End(s)
  BY <1>1 DEF FinishAllocate
<1>. HIDE DEF row
<1>. QED
  BY <1>2, <1>3, <1>4, AllocOwned, FinishAllocateBooks DEF OwnedInv

LEMMA FinishUnallocateOwned ==
    ASSUME OwnedInv, NEW s \in Sessions, FinishUnallocate(s)
    PROVE  OwnedInv'
<1>1. PICK e, removed : e = sess[s].entry /\ removed = sess[s].removed
  OBVIOUS
<1>2. e \in DOMAIN entries /\ removed \in [Bills -> Int]
  BY <1>1 DEF OwnedInv, BooksInv, IInv, SessionsOK, RequestOK, FinishUnallocate
<1>. DEFINE row == [entries[e] EXCEPT !.alloc = Without(@, removed)]
<1>3. row \in Row /\ row.status = entries[e].status /\ row.lines = entries[e].lines
  BY <1>2, RowTyped DEF Row, Without, OwnedInv, BooksInv, IInv
<1>4. entries' = [entries EXCEPT ![e] = row] /\ UNCHANGED balance /\ End(s)
  BY <1>1 DEF FinishUnallocate
<1>. HIDE DEF row
<1>. QED
  BY <1>2, <1>3, <1>4, AllocOwned, FinishUnallocateBooks DEF OwnedInv

(* The rows a reversal or a correction inserts, one after the other.       *)
LEMMA AddedBooks ==
    ASSUME NEW tab \in Seq(Row), NEW added \in Seq(Row), NEW a \in Accounts
    PROVE  /\ Len(added) = 1 =>
                 Books(tab \o added, a) = Books(tab, a) + PostedLine(added[1], a)
           /\ Len(added) = 2 =>
                 Books(tab \o added, a)
                   = Books(tab, a) + PostedLine(added[1], a) + PostedLine(added[2], a)
<1>1. ASSUME Len(added) = 1
      PROVE  Books(tab \o added, a) = Books(tab, a) + PostedLine(added[1], a)
  <2>1. added[1] \in Row /\ tab \o added = Append(tab, added[1])
    BY ONLY <1>1, tab \in Seq(Row), added \in Seq(Row), SMTT(30)
  <2>. QED
    BY <2>1, BooksAppend
<1>2. ASSUME Len(added) = 2
      PROVE  Books(tab \o added, a)
               = Books(tab, a) + PostedLine(added[1], a) + PostedLine(added[2], a)
  <2>1. /\ added[1] \in Row /\ added[2] \in Row
        /\ tab \o added = Append(Append(tab, added[1]), added[2])
    BY <1>2, InsertTwo
  <2>2. Append(tab, added[1]) \in Seq(Row)
    BY <2>1
  <2>. QED
    BY <2>1, <2>2, BooksAppend
<1>. QED
  BY <1>1, <1>2

LEMMA FinishCancelOwned ==
    ASSUME OwnedInv, NEW s \in Sessions, FinishCancel(s)
    PROVE  OwnedInv'
<1>1. PICK e, added : e = sess[s].entry /\ added = sess[s].added
  OBVIOUS
<1>2. /\ e \in DOMAIN entries /\ added \in Seq(Row) /\ Len(added) \in {1, 2}
      /\ \A k \in DOMAIN added : added[k].status = "posted"
      /\ Cancels(e, added)
  BY <1>1, CancelShape DEF OwnedInv, BooksInv
<1>3. PICK row \in Row :
         /\ row.status = entries[e].status /\ row.lines = entries[e].lines
         /\ entries' = [entries EXCEPT ![e] = row] \o added
  BY <1>2 DEF Cancels
<1>. DEFINE tab == [entries EXCEPT ![e] = row]
<1>4. /\ tab \in Seq(Row) /\ DOMAIN tab = DOMAIN entries
      /\ tab[e] = row /\ \A j \in DOMAIN entries \ {e} : tab[j] = entries[j]
  BY <1>2, UpdateRow DEF OwnedInv, BooksInv, IInv, RowsOK
<1>5. ASSUME NEW a \in Accounts
      PROVE  Books(tab, a) = Books(entries, a) /\ Books(entries, a) \in Int
  <2>1. entries \in Seq(Row) /\ Books(entries, a) \in Int
    BY BooksInt DEF OwnedInv, BooksInv, IInv, RowsOK
  <2>2. PostedLine(row, a) = PostedLine(entries[e], a) /\ PostedLine(row, a) \in Int
    BY <1>3, PostedInt DEF PostedLine
  <2>3. Books(tab, a) = Books(entries, a) + PostedLine(row, a) - PostedLine(entries[e], a)
    BY <1>2, <2>1, BooksUpdate
  <2>. QED
    BY <2>1, <2>2, <2>3
<1>6. entries' = tab \o added
  BY <1>3
<1>. HIDE DEF tab
<1>7. Balanced(balance) /\ \A a \in Accounts : balance[a] \in Int /\ balance[a] = Books(entries, a)
  BY MatchIs DEF OwnedInv, BooksInv, Balanced
<1>8. /\ Len(added) = 1 => balance' = updateBalances(balance, added[1].lines)
      /\ Len(added) = 2 =>
            balance' = updateBalances(updateBalances(balance, added[1].lines), added[2].lines)
  BY <1>1 DEF FinishCancel
<1>9. /\ added[1] \in Row /\ added[1].status = "posted"
      /\ Len(added) = 2 => added[2] \in Row /\ added[2].status = "posted"
  BY <1>2
<1>10. ASSUME NEW a \in Accounts
       PROVE  balance'[a] = Books(entries', a)
  <2>1. CASE Len(added) = 1
    <3>1. balance'[a] = balance[a] + PostedLine(added[1], a)
      BY <1>7, <1>8, <1>9, <2>1, PostedLineOf
    <3>. QED
      BY <1>2, <1>4, <1>5, <1>6, <1>7, <2>1, <3>1, AddedBooks
  <2>2. CASE Len(added) = 2
    <3>. DEFINE mid == updateBalances(balance, added[1].lines)
    <3>1. Balanced(mid)
      <4>1. added[1].lines \in [Accounts -> Int]
        BY <1>9 DEF Row
      <4>2. validateLines(added[1].lines)
        BY <1>1, <1>2 DEF FinishCancel, OwnedInv, BooksInv, LinesBalance, RequestBalances
      <4>. QED
        BY <1>7, <4>1, <4>2, Booked
    <3>2. mid[a] = balance[a] + PostedLine(added[1], a)
      BY <1>7, <1>9, PostedLineOf
    <3>. HIDE DEF mid
    <3>3. balance'[a] = mid[a] + PostedLine(added[2], a)
      BY <1>8, <1>9, <2>2, <3>1, PostedLineOf DEF mid
    <3>. QED
      BY <1>2, <1>4, <1>5, <1>6, <1>7, <2>2, <3>2, <3>3, AddedBooks
  <2>. QED
    BY <1>2, <2>1, <2>2
<1>11. BalancesMatchLedger'
  BY <1>10, MatchIsNext
<1>12. sess'[s] = Idle /\ \A t \in Sessions \ {s} : sess'[t] = sess[t]
  BY EndOwned DEF FinishCancel, OwnedInv, BooksInv, IInv
<1>13. \A j \in DOMAIN entries :
          entries'[j].status = entries[j].status /\ entries'[j].lines = entries[j].lines
  <2>1. \A j \in DOMAIN entries : entries'[j] = tab[j]
    BY <1>2, <1>4, <1>6, InsertRows
  <2>. QED
    BY <1>3, <1>4, <2>1
<1>14. \A t \in Sessions : sess[t].op = "post" => sess[t].entry \in DOMAIN entries
  BY DEF OwnedInv, BooksInv, IInv, SessionsOK, RequestOK
<1>15. DraftsHeld'
  <2>1. \A t \in Sessions : sess'[t] = sess[t] \/ sess'[t].op # "post"
    BY <1>12 DEF Idle
  <2>. QED
    BY <1>13, <1>14, <2>1, HeldKept DEF OwnedInv
<1>. QED
  BY <1>11, <1>15, FinishCancelBooks DEF OwnedInv

LEMMA BeginPostOwned ==
    ASSUME DraftsOwned, OwnedInv, NEW s \in Sessions, NEW e \in DOMAIN entries, BeginPost(s, e)
    PROVE  OwnedInv'
<1>. DEFINE q == [op |-> "post", entry |-> e, lines |-> entries[e].lines]
<1>1. sess'[s] = q /\ \A t \in Sessions \ {s} : sess'[t] = sess[t]
  BY DEF BeginPost, Begin, OwnedInv, BooksInv, IInv, SessionsOK
<1>2. q.op = "post" /\ q.entry = e /\ q.lines = entries[e].lines
  OBVIOUS
<1>. HIDE DEF q
<1>3. entries[e].status = "draft" /\ UNCHANGED <<entries, balance>>
  BY DEF BeginPost, Postable
<1>4. \A t \in Sessions : sess[t].op = "post" => sess[t].entry # e
  BY DEF BeginPost, DraftFree
<1>5. DraftsHeld'
  BY <1>1, <1>2, <1>3, <1>4 DEF OwnedInv, DraftsHeld
<1>6. BalancesMatchLedger'
  BY <1>3 DEF OwnedInv, BalancesMatchLedger
<1>. QED
  BY <1>5, <1>6, BeginPostBooks DEF OwnedInv

LEMMA BeginOwned ==
    ASSUME OwnedInv, BooksInv', NEW s \in Sessions, NEW q, Begin(s, q), q.op # "post",
           UNCHANGED <<entries, balance>>
    PROVE  OwnedInv'
<1>1. \A t \in Sessions : sess'[t] = sess[t] \/ sess'[t] = q
  BY DEF Begin, OwnedInv, BooksInv, IInv, SessionsOK
<1>. QED
  BY <1>1, OwnedUnchanged

LEMMA BeginAllocateOwned ==
    ASSUME OwnedInv, NEW s \in Sessions, NEW e \in DOMAIN entries, NEW b \in Bills,
           NEW n \in 1..BillTotal, BeginAllocate(s, e, b, n)
    PROVE  OwnedInv'
  BY BeginOwned, BeginAllocateBooks DEF BeginAllocate, OwnedInv

LEMMA BeginUnallocateOwned ==
    ASSUME OwnedInv, NEW s \in Sessions, NEW e \in DOMAIN entries, BeginUnallocate(s, e)
    PROVE  OwnedInv'
  BY BeginOwned, BeginUnallocateBooks DEF BeginUnallocate, OwnedInv

LEMMA CancelOwned ==
    ASSUME OwnedInv, BooksInv', NEW s \in Sessions, NEW e \in DOMAIN entries, NEW added,
           Cancel(s, e, added)
    PROVE  OwnedInv'
  BY BeginOwned DEF Cancel

LEMMA RollbackOwned ==
    ASSUME OwnedInv, NEW s \in Sessions, Rollback(s)
    PROVE  OwnedInv'
<1>1. \A t \in Sessions : sess'[t] = sess[t] \/ sess'[t].op # "post"
  BY EndOwned DEF Rollback, Idle, OwnedInv, BooksInv, IInv
<1>. QED
  BY <1>1, RollbackBooks, OwnedUnchanged DEF Rollback, OwnedInv

LEMMA InitOwned == Init => OwnedInv
<1>. SUFFICES ASSUME Init PROVE OwnedInv
  OBVIOUS
<1>1. DraftsHeld
  BY DEF Init, DraftsHeld, Idle
<1>2. DOMAIN entries = {} /\ \A a \in Accounts : balance[a] = 0
  BY DEF Init
<1>3. \A a \in Accounts : Books(entries, a) = 0
  BY <1>2, SumEmpty, Zenon DEF Books
<1>4. BalancesMatchLedger
  BY <1>2, <1>3, MatchIs
<1>. QED
  BY <1>1, <1>4, InitBooks DEF OwnedInv

LEMMA NextOwned == DraftsOwned /\ OwnedInv /\ [Next]_vars => OwnedInv'
<1>. SUFFICES ASSUME DraftsOwned, OwnedInv, [Next]_vars PROVE OwnedInv'
  OBVIOUS
<1>1. BooksInv'
  BY NextBooks DEF OwnedInv
<1>2. CASE UNCHANGED vars
  BY <1>1, <1>2, OwnedUnchanged DEF vars
<1>3. ASSUME NEW s \in Sessions, NEW e \in DOMAIN entries, NEW l \in Postings, BeginCorrect(s, e, l)
      PROVE  OwnedInv'
  BY <1>1, <1>3, CancelOwned DEF BeginCorrect
<1>4. ASSUME NEW s \in Sessions, NEW e \in DOMAIN entries, BeginReverse(s, e)
      PROVE  OwnedInv'
  BY <1>1, <1>4, CancelOwned DEF BeginReverse
<1>5. CASE Next
  BY <1>3, <1>4, <1>5, createEntryOwned, EditDraftOwned, DeleteDraftOwned, BeginPostOwned,
     BeginAllocateOwned, BeginUnallocateOwned, FinishPostOwned, FinishCancelOwned,
     FinishAllocateOwned, FinishUnallocateOwned, RollbackOwned DEF Next
<1>. QED
  BY <1>2, <1>5

-----------------------------------------------------------------------------
(* Settlement, for requests that come one at a time.  A handler that gives *)
(* allocations back holds what its entry has settled, and what the bills   *)
(* owe without it; drafts may be deleted, with what they settled, while it *)
(* works.  The stored balance of a bill counts its allocations and those   *)
(* of the drafts deleted since it was synchronised.                        *)

OneRequest == \A s, t \in Sessions : s = t

Settled(b) == Allocated(b, DOMAIN entries)

Counted(b) == Settled(b) + orphaned[b]

AmountsOK ==
    /\ \A e \in DOMAIN entries : entries[e].alloc \in [Bills -> Nat]
    /\ due = [b \in Bills |-> due[b]]
    /\ orphaned \in [Bills -> Int]

RequestSettles(q) ==
    q.op \in {"cancel", "unallocate"} =>
        /\ q.removed = entries[q.entry].alloc
        /\ q.orphans \in [Bills -> Int]
        /\ \A b \in Bills : q.due[b] = Outstanding(Counted(b) - q.removed[b] - q.orphans[b])

DueCounted == \A b \in Bills : due[b] = Outstanding(Counted(b))

SettleInv ==
    /\ IInv /\ AmountsOK /\ DueCounted
    /\ \A s \in Sessions : RequestSettles(sess[s])

(* What is allocated to a bill, as a sum over the table.                   *)
SettledBy(tab, b, es) == SumFunctionOnSet([e \in es |-> tab[e].alloc[b]], es)

LEMMA SettledIs ==
    ASSUME NEW b
    PROVE  /\ \A es : Allocated(b, es) = SettledBy(entries, b, es)
           /\ \A es : Allocated(b, es)' = SettledBy(entries', b, es')
           /\ Settled(b) = SettledBy(entries, b, DOMAIN entries)
           /\ Settled(b)' = SettledBy(entries', b, DOMAIN entries')
  BY Zenon DEF Allocated, SettledBy, SumFunction, Settled

LEMMA RowsFinite ==
    ASSUME RowsOK
    PROVE  /\ IsFiniteSet(DOMAIN entries)
           /\ \A e \in DOMAIN entries, b \in Bills : entries[e].alloc[b] \in Int
<1>1. \A e \in DOMAIN entries : entries[e] \in Row
  BY RowTyped
<1>2. IsFiniteSet(DOMAIN entries)
  BY TableFinite DEF RowsOK
<1>. QED
  BY <1>1, <1>2 DEF Row

LEMMA SettledInt == ASSUME RowsOK, NEW b \in Bills PROVE Settled(b) \in Int
<1>. DEFINE D == DOMAIN entries
            f == [e \in D |-> entries[e].alloc[b]]
<1>1. IsFiniteSet(D) /\ \A e \in D : f[e] \in Int
  BY RowsFinite
<1>2. SumFunctionOnSet(f, D) \in Int
  <2>. HIDE DEF D, f
  <2>. QED
    BY <1>1, SumInt
<1>. QED
  BY <1>2, SettledIs DEF SettledBy

(* Without an entry, a bill is settled by what the others allocate.        *)
LEMMA SettledWithout ==
    ASSUME RowsOK, NEW e \in DOMAIN entries, NEW b \in Bills
    PROVE  Allocated(b, DOMAIN entries \ {e}) = Settled(b) - entries[e].alloc[b]
<1>. DEFINE D == DOMAIN entries
            R == DOMAIN entries \ {e}
            f == [j \in D |-> entries[j].alloc[b]]
            g == [j \in R |-> entries[j].alloc[b]]
<1>1. IsFiniteSet(D) /\ R = D \ {e} /\ \A j \in D : f[j] \in Int
  BY RowsFinite
<1>2. IsFiniteSet(R) /\ \A j \in R : f[j] \in Int /\ f[j] = g[j]
  BY <1>1, FS_Subset
<1>3. Settled(b) = SumFunctionOnSet(f, D) /\ Allocated(b, R) = SumFunctionOnSet(g, R)
  BY SettledIs DEF SettledBy
<1>4. f[e] = entries[e].alloc[b] /\ f[e] \in Int
  BY <1>1
<1>. HIDE DEF D, R, f, g
<1>5. SumFunctionOnSet(f, D) = f[e] + SumFunctionOnSet(f, R)
  BY <1>1, SumRemove DEF D
<1>6. SumFunctionOnSet(f, R) = SumFunctionOnSet(g, R) /\ SumFunctionOnSet(f, R) \in Int
  BY <1>2, SumSame, SumInt
<1>7. Allocated(b, R) = Settled(b) - entries[e].alloc[b]
  BY <1>3, <1>4, <1>5, <1>6
<1>. QED
  BY <1>7 DEF R

(* The table grows by rows that settle nothing, and one row may change.    *)
LEMMA SettledGrows ==
    ASSUME RowsOK, RowsOK', DOMAIN entries \subseteq DOMAIN entries', NEW b \in Bills,
           \A j \in DOMAIN entries : entries'[j].alloc[b] = entries[j].alloc[b],
           \A j \in DOMAIN entries' \ DOMAIN entries : entries'[j].alloc = NoAlloc
    PROVE  Settled(b)' = Settled(b)
<1>. DEFINE D == DOMAIN entries
            S == DOMAIN entries'
            f == [j \in D |-> entries[j].alloc[b]]
            g == [j \in S |-> entries'[j].alloc[b]]
<1>1. IsFiniteSet(S) /\ \A j \in S : g[j] \in Int
  <2>1. IsFiniteSet(S)
    BY TableFinite DEF RowsOK
  <2>2. \A j \in S : entries'[j] \in Row
    BY DEF RowsOK
  <2>. QED
    BY <2>1, <2>2 DEF Row
<1>2. D \in SUBSET S /\ (\A j \in D : f[j] = g[j]) /\ \A j \in S \ D : g[j] = 0
  BY DEF NoAlloc
<1>3. Settled(b) = SumFunctionOnSet(f, D) /\ Settled(b)' = SumFunctionOnSet(g, S)
  BY SettledIs DEF SettledBy
<1>. HIDE DEF D, S, f, g
<1>. QED
  BY <1>1, <1>2, <1>3, SumSome

LEMMA SettledChanges ==
    ASSUME RowsOK, RowsOK', DOMAIN entries \subseteq DOMAIN entries', NEW b \in Bills,
           NEW e \in DOMAIN entries,
           \A j \in DOMAIN entries \ {e} : entries'[j].alloc = entries[j].alloc,
           \A j \in DOMAIN entries' \ DOMAIN entries : entries'[j].alloc = NoAlloc
    PROVE  Settled(b)' = Settled(b) + entries'[e].alloc[b] - entries[e].alloc[b]
<1>. DEFINE D == DOMAIN entries
            S == DOMAIN entries'
            f == [j \in D |-> entries[j].alloc[b]]
            h == [j \in D |-> entries'[j].alloc[b]]
            g == [j \in S |-> entries'[j].alloc[b]]
<1>1. IsFiniteSet(S) /\ \A j \in S : g[j] \in Int
  <2>1. IsFiniteSet(S)
    BY TableFinite DEF RowsOK
  <2>2. \A j \in S : entries'[j] \in Row
    BY DEF RowsOK
  <2>. QED
    BY <2>1, <2>2 DEF Row
<1>2. D \in SUBSET S /\ (\A j \in D : h[j] = g[j]) /\ \A j \in S \ D : g[j] = 0
  BY DEF NoAlloc
<1>3. Settled(b) = SumFunctionOnSet(f, D) /\ Settled(b)' = SumFunctionOnSet(g, S)
  BY SettledIs DEF SettledBy
<1>4. IsFiniteSet(D) /\ \A j \in D : f[j] \in Int /\ h[j] \in Int
  BY <1>1, <1>2, RowsFinite
<1>5. e \in D /\ h[e] = entries'[e].alloc[b] /\ f[e] = entries[e].alloc[b]
      /\ \A j \in D : j # e => h[j] = f[j]
  OBVIOUS
<1>. HIDE DEF D, S, f, g, h
<1>6. SumFunctionOnSet(h, D) = SumFunctionOnSet(g, S)
  BY <1>1, <1>2, SumSome
<1>7. SumFunctionOnSet(h, D) = SumFunctionOnSet(f, D) + h[e] - f[e]
  BY <1>4, <1>5, SumChange
<1>. QED
  BY <1>3, <1>5, <1>6, <1>7

(* A step that leaves what each bill counts as settled, and what the entry *)
(* of a request in flight has settled, as it was.                          *)
LEMMA CountedSettles ==
    ASSUME SettleInv, IInv', AmountsOK', UNCHANGED due,
           \A b \in Bills : Counted(b)' = Counted(b),
           \A t \in Sessions : \/ sess'[t] = Idle
                               \/ /\ sess'[t] = sess[t]
                                  /\ sess[t].op \in {"cancel", "unallocate"} =>
                                       entries'[sess[t].entry].alloc = entries[sess[t].entry].alloc
    PROVE  SettleInv'
<1>1. DueCounted'
  <2>1. \A b \in Bills : due[b] = Outstanding(Counted(b))
    BY DEF SettleInv, DueCounted
  <2>2. \A b \in Bills : due'[b] = Outstanding(Counted(b)')
    BY <2>1
  <2>. QED
    BY <2>2 DEF DueCounted, Outstanding
<1>2. ASSUME NEW q, RequestSettles(q),
             q.op \in {"cancel", "unallocate"} => entries'[q.entry].alloc = entries[q.entry].alloc
      PROVE  RequestSettles(q)'
  <2>1. q.op \in {"cancel", "unallocate"} =>
           /\ q.removed = entries'[q.entry].alloc
           /\ q.orphans \in [Bills -> Int]
           /\ \A b \in Bills : q.due[b] = Outstanding(Counted(b)' - q.removed[b] - q.orphans[b])
    BY <1>2 DEF RequestSettles
  <2>. QED
    BY <2>1 DEF RequestSettles, Outstanding
<1>3. RequestSettles(Idle)'
  BY DEF RequestSettles, Idle
<1>4. ASSUME NEW t \in Sessions PROVE RequestSettles(sess[t])'
  <2>1. PICK q : q = sess[t]
    OBVIOUS
  <2>2. PICK r : r = sess'[t]
    OBVIOUS
  <2>3. RequestSettles(q)
    BY <2>1 DEF SettleInv
  <2>4. RequestSettles(r)'
    BY <1>2, <1>3, <2>1, <2>2, <2>3
  <2>. QED
    BY <2>2, <2>4
<1>. QED
  BY <1>1, <1>4 DEF SettleInv

(* A handler that touches no allocation and at most ends its own request.  *)
LEMMA QuietSettles ==
    ASSUME SettleInv, IInv', Keeps, UNCHANGED <<due, orphaned>>,
           \A j \in DOMAIN entries : entries'[j].alloc = entries[j].alloc,
           \A j \in DOMAIN entries' \ DOMAIN entries : entries'[j].alloc = NoAlloc,
           \A t \in Sessions : sess'[t] = sess[t] \/ sess'[t] = Idle
    PROVE  SettleInv'
<1>1. RowsOK /\ RowsOK' /\ DOMAIN entries \subseteq DOMAIN entries'
  BY RowDomain DEF SettleInv, IInv
<1>2. \A b \in Bills : Settled(b)' = Settled(b)
  BY <1>1, SettledGrows
<1>3. \A b \in Bills : Counted(b)' = Counted(b)
  BY <1>2 DEF Counted
<1>4. AmountsOK'
  <2>1. NoAlloc \in [Bills -> Nat]
    BY DEF NoAlloc
  <2>. QED
    BY <1>1, <2>1 DEF SettleInv, AmountsOK
<1>5. \A t \in Sessions : sess[t].op # "idle" => sess[t].entry \in DOMAIN entries
  BY DEF SettleInv, IInv, SessionsOK, RequestOK
<1>6. \A t \in Sessions : sess[t].op \in {"cancel", "unallocate"} =>
          entries'[sess[t].entry].alloc = entries[sess[t].entry].alloc
  BY <1>5
<1>. QED
  BY <1>3, <1>4, <1>6, CountedSettles

LEMMA SessionsAfter ==
    ASSUME IInv, NEW s \in Sessions, End(s)
    PROVE  \A t \in Sessions : sess'[t] = IF t = s THEN Idle ELSE sess[t]
  BY DEF End, IInv, SessionsOK

LEMMA createEntrySettles ==
    ASSUME SettleInv, NEW l \in Postings, NEW p \in BOOLEAN, createEntry(l, p)
    PROVE  SettleInv'
<1>. DEFINE row == insertJournal(IF p THEN "posted" ELSE "draft", "manual", 0, l)
<1>1. row \in Row /\ row.alloc = NoAlloc
  BY PostingsTyped, InsertedRow DEF Statuses, Sources, insertJournal
<1>2. entries' = Append(entries, row) /\ UNCHANGED <<due, orphaned, sess>>
  BY DEF createEntry
<1>. HIDE DEF row
<1>3. /\ DOMAIN entries' = DOMAIN entries \cup {Len(entries) + 1}
      /\ entries'[Len(entries) + 1] = row /\ \A j \in DOMAIN entries : entries'[j] = entries[j]
  BY <1>1, <1>2, AppendRow DEF SettleInv, IInv, RowsOK
<1>4. IInv' /\ Keeps
  BY createEntryOK DEF SettleInv
<1>. QED
  BY <1>1, <1>2, <1>3, <1>4, QuietSettles

(* Rewriting a row whose allocations stay.                                 *)
LEMMA RewrittenSettles ==
    ASSUME SettleInv, IInv', Keeps, NEW e \in DOMAIN entries, NEW row \in Row,
           entries' = [entries EXCEPT ![e] = row], row.alloc = entries[e].alloc,
           UNCHANGED <<due, orphaned>>, \A t \in Sessions : sess'[t] = sess[t] \/ sess'[t] = Idle
    PROVE  SettleInv'
<1>1. DOMAIN entries' = DOMAIN entries /\ entries'[e] = row
      /\ \A j \in DOMAIN entries \ {e} : entries'[j] = entries[j]
  BY UpdateRow DEF SettleInv, IInv, RowsOK
<1>. QED
  BY <1>1, QuietSettles

LEMMA EditDraftSettles ==
    ASSUME SettleInv, NEW e \in DOMAIN entries, NEW l \in Postings, NEW p \in BOOLEAN,
           EditDraft(e, l, p)
    PROVE  SettleInv'
<1>. DEFINE row == [entries[e] EXCEPT !.lines = l, !.status = IF p THEN "posted" ELSE "draft"]
<1>1. entries[e] \in Row /\ l \in [Accounts -> Int]
  BY RowTyped, PostingsTyped DEF SettleInv, IInv
<1>2. row \in Row /\ row.alloc = entries[e].alloc
  BY <1>1 DEF Row, Statuses
<1>3. entries' = [entries EXCEPT ![e] = row] /\ UNCHANGED <<due, orphaned, sess>>
  BY DEF EditDraft
<1>. HIDE DEF row
<1>4. IInv' /\ Keeps
  BY EditDraftOK DEF SettleInv
<1>. QED
  BY <1>2, <1>3, <1>4, RewrittenSettles

(* What a deleted draft had settled is counted as orphaned from then on.   *)
LEMMA DeleteDraftSettles ==
    ASSUME SettleInv, NEW e \in DOMAIN entries, DeleteDraft(e)
    PROVE  SettleInv'
<1>. DEFINE row == [entries[e] EXCEPT !.status = "deleted", !.alloc = NoAlloc]
<1>1. entries[e] \in Row /\ entries[e].alloc \in [Bills -> Nat]
  BY RowTyped DEF SettleInv, IInv, AmountsOK
<1>2. row \in Row /\ row.alloc = NoAlloc
  BY <1>1, NoAllocTyped DEF Row, Statuses
<1>3. entries' = [entries EXCEPT ![e] = row] /\ UNCHANGED <<due, sess>>
      /\ orphaned' = [b \in Bills |-> orphaned[b] + entries[e].alloc[b]]
  BY DEF DeleteDraft
<1>. HIDE DEF row
<1>4. IInv' /\ Keeps
  BY DeleteDraftOK DEF SettleInv
<1>5. DOMAIN entries' = DOMAIN entries /\ entries'[e] = row
      /\ \A j \in DOMAIN entries \ {e} : entries'[j] = entries[j]
  BY <1>2, <1>3, UpdateRow DEF SettleInv, IInv, RowsOK
<1>6. NoAlloc \in [Bills -> Nat]
  BY DEF NoAlloc
<1>7. AmountsOK'
  BY <1>1, <1>2, <1>3, <1>5, <1>6 DEF SettleInv, AmountsOK
<1>8. ASSUME NEW b \in Bills
      PROVE  Counted(b)' = Counted(b)
  <2>1. Settled(b)' = Settled(b) + entries'[e].alloc[b] - entries[e].alloc[b]
    BY <1>4, <1>5, SettledChanges DEF SettleInv, IInv
  <2>2. entries'[e].alloc[b] = 0
    BY <1>2, <1>5 DEF NoAlloc
  <2>3. Settled(b) \in Int /\ entries[e].alloc[b] \in Int /\ orphaned[b] \in Int
    BY <1>1, SettledInt DEF SettleInv, IInv, AmountsOK
  <2>4. orphaned'[b] = orphaned[b] + entries[e].alloc[b]
    BY <1>3
  <2>. QED
    BY <2>1, <2>2, <2>3, <2>4 DEF Counted
<1>9. \A t \in Sessions : sess[t].op \in {"cancel", "unallocate"} =>
          entries'[sess[t].entry].alloc = entries[sess[t].entry].alloc
  <2>1. \A t \in Sessions : sess[t].op \in {"cancel", "unallocate"} => sess[t].entry # e
    BY DEF DeleteDraft, AllocsLocked
  <2>2. \A t \in Sessions : sess[t].op # "idle" => sess[t].entry \in DOMAIN entries
    BY DEF SettleInv, IInv, SessionsOK, RequestOK
  <2>. QED
    BY <1>5, <2>1, <2>2
<1>. QED
  BY <1>3, <1>4, <1>7, <1>8, <1>9, CountedSettles

LEMMA UnchangedSettles ==
    ASSUME SettleInv, IInv', UNCHANGED <<entries, due, orphaned>>,
           \A t \in Sessions : sess'[t] = sess[t] \/ sess'[t] = Idle
    PROVE  SettleInv'
<1>1. Keeps
  BY EntriesUnchanged DEF SettleInv, IInv
<1>. QED
  BY <1>1, QuietSettles

LEMMA FinishPostSettles ==
    ASSUME SettleInv, NEW s \in Sessions, FinishPost(s)
    PROVE  SettleInv'
<1>1. PICK e : e = sess[s].entry
  OBVIOUS
<1>2. e \in DOMAIN entries
  BY <1>1 DEF SettleInv, IInv, SessionsOK, RequestOK, FinishPost
<1>. DEFINE row == [entries[e] EXCEPT !.status = "posted"]
<1>3. row \in Row /\ row.alloc = entries[e].alloc
  BY <1>2, RowTyped DEF SettleInv, IInv, Row, Statuses
<1>4. (entries' = entries \/ entries' = [entries EXCEPT ![e] = row]) /\ UNCHANGED <<due, orphaned>>
  BY <1>1 DEF FinishPost
<1>. HIDE DEF row
<1>5. IInv' /\ Keeps
  BY FinishPostOK DEF SettleInv
<1>6. \A t \in Sessions : sess'[t] = sess[t] \/ sess'[t] = Idle
  BY SessionsAfter DEF FinishPost, SettleInv
<1>. QED
  BY <1>2, <1>3, <1>4, <1>5, <1>6, RewrittenSettles, UnchangedSettles

LEMMA RollbackSettles ==
    ASSUME SettleInv, NEW s \in Sessions, Rollback(s)
    PROVE  SettleInv'
<1>1. IInv'
  BY RollbackOK DEF SettleInv
<1>2. \A t \in Sessions : sess'[t] = sess[t] \/ sess'[t] = Idle
  BY SessionsAfter DEF Rollback, SettleInv
<1>. QED
  BY <1>1, <1>2, UnchangedSettles DEF Rollback

(* A handler that reads and begins, the only request there is.             *)
LEMMA ReadSettles ==
    ASSUME OneRequest, SettleInv, IInv', UNCHANGED <<entries, due, orphaned>>, NEW s \in Sessions,
           NEW q, Begin(s, q), RequestSettles(q)
    PROVE  SettleInv'
<1>1. \A t \in Sessions : sess'[t] = q
  BY DEF OneRequest, Begin, SettleInv, IInv, SessionsOK
<1>2. AmountsOK'
  BY DEF SettleInv, AmountsOK
<1>3. \A b \in Bills : Counted(b)' = Counted(b)
  BY DEF Counted, Settled, Allocated
<1>4. DueCounted'
  <2>1. \A b \in Bills : due'[b] = Outstanding(Counted(b)')
    BY <1>3 DEF SettleInv, DueCounted
  <2>. QED
    BY <2>1 DEF DueCounted, Outstanding
<1>5. RequestSettles(q)'
  <2>1. q.op \in {"cancel", "unallocate"} =>
           /\ q.removed = entries'[q.entry].alloc
           /\ q.orphans \in [Bills -> Int]
           /\ \A b \in Bills : q.due[b] = Outstanding(Counted(b)' - q.removed[b] - q.orphans[b])
    BY <1>3 DEF RequestSettles
  <2>. QED
    BY <2>1 DEF RequestSettles, Outstanding
<1>. QED
  BY <1>1, <1>2, <1>4, <1>5 DEF SettleInv

LEMMA BeginPostSettles ==
    ASSUME OneRequest, SettleInv, NEW s \in Sessions, NEW e \in DOMAIN entries, BeginPost(s, e)
    PROVE  SettleInv'
<1>. DEFINE q == [op |-> "post", entry |-> e, lines |-> entries[e].lines]
<1>1. RequestSettles(q)
  BY DEF RequestSettles
<1>2. Begin(s, q) /\ UNCHANGED <<entries, due, orphaned>>
  BY DEF BeginPost
<1>3. IInv'
  BY BeginPostOK DEF SettleInv
<1>. HIDE DEF q
<1>. QED
  BY <1>1, <1>2, <1>3, ReadSettles

LEMMA BeginAllocateSettles ==
    ASSUME OneRequest, SettleInv, NEW s \in Sessions, NEW e \in DOMAIN entries, NEW b \in Bills,
           NEW n \in 1..BillTotal, BeginAllocate(s, e, b, n)
    PROVE  SettleInv'
<1>. DEFINE q == [op |-> "allocate", entry |-> e, bill |-> b, amount |-> n]
<1>1. RequestSettles(q)
  BY DEF RequestSettles
<1>2. Begin(s, q) /\ UNCHANGED <<entries, due, orphaned>>
  BY DEF BeginAllocate
<1>3. IInv'
  BY BeginAllocateOK DEF SettleInv
<1>. HIDE DEF q
<1>. QED
  BY <1>1, <1>2, <1>3, ReadSettles

(* What a handler that gives the allocations of an entry back has read.    *)
LEMMA RemovalRead ==
    ASSUME RowsOK, AmountsOK, NEW e \in DOMAIN entries, NEW q, q.entry = e,
           q.removed = Removed(e), q.due = DueWithout(e), q.orphans = orphaned
    PROVE  RequestSettles(q)
<1>1. ASSUME NEW b \in Bills
      PROVE  DueWithout(e)[b] = Outstanding(Counted(b) - entries[e].alloc[b] - orphaned[b])
  <2>1. DueWithout(e)[b] = Outstanding(Settled(b) - entries[e].alloc[b])
    BY SettledWithout, Zenon DEF DueWithout
  <2>2. Settled(b) \in Int /\ entries[e].alloc[b] \in Int /\ orphaned[b] \in Int
    BY SettledInt DEF AmountsOK
  <2>3. Settled(b) - entries[e].alloc[b] = Counted(b) - entries[e].alloc[b] - orphaned[b]
    BY <2>2 DEF Counted
  <2>. QED
    BY <2>1, <2>3
<1>. QED
  BY <1>1 DEF RequestSettles, Removed, AmountsOK

LEMMA BeginUnallocateSettles ==
    ASSUME OneRequest, SettleInv, NEW s \in Sessions, NEW e \in DOMAIN entries, BeginUnallocate(s, e)
    PROVE  SettleInv'
<1>. DEFINE q == [op |-> "unallocate", entry |-> e, removed |-> Removed(e), due |-> DueWithout(e),
                  orphans |-> orphaned]
<1>1. RequestSettles(q)
  <2>1. /\ q.entry = e /\ q.removed = Removed(e) /\ q.due = DueWithout(e)
        /\ q.orphans = orphaned
    OBVIOUS
  <2>. HIDE DEF q
  <2>. QED
    BY <2>1, RemovalRead DEF SettleInv, IInv
<1>2. Begin(s, q) /\ UNCHANGED <<entries, due, orphaned>>
  BY DEF BeginUnallocate
<1>3. IInv'
  BY BeginUnallocateOK DEF SettleInv
<1>. HIDE DEF q
<1>. QED
  BY <1>1, <1>2, <1>3, ReadSettles

LEMMA CancelSettles ==
    ASSUME OneRequest, SettleInv, IInv', NEW s \in Sessions, NEW e \in DOMAIN entries, NEW added,
           Cancel(s, e, added)
    PROVE  SettleInv'
<1>. DEFINE q == [op |-> "cancel", entry |-> e, added |-> added,
                  removed |-> Removed(e), due |-> DueWithout(e), orphans |-> orphaned]
<1>1. RequestSettles(q)
  <2>1. /\ q.entry = e /\ q.removed = Removed(e) /\ q.due = DueWithout(e)
        /\ q.orphans = orphaned
    OBVIOUS
  <2>. HIDE DEF q
  <2>. QED
    BY <2>1, RemovalRead DEF SettleInv, IInv
<1>2. Begin(s, q) /\ UNCHANGED <<entries, due, orphaned>>
  BY DEF Cancel
<1>. HIDE DEF q
<1>. QED
  BY <1>1, <1>2, ReadSettles

(* The end of a handler that changes what one entry settles: afterwards no *)
(* request is in flight.                                                   *)
LEMMA SettlementStep ==
    ASSUME OneRequest, SettleInv, IInv', Keeps, NEW s \in Sessions, End(s),
           NEW e \in DOMAIN entries, NEW alloc \in [Bills -> Nat], entries'[e].alloc = alloc,
           \A j \in DOMAIN entries \ {e} : entries'[j].alloc = entries[j].alloc,
           \A j \in DOMAIN entries' \ DOMAIN entries : entries'[j].alloc = NoAlloc,
           due' = [b \in Bills |-> due'[b]], orphaned' \in [Bills -> Int],
           \A b \in Bills :
               due'[b] = Outstanding(Settled(b) + alloc[b] - entries[e].alloc[b] + orphaned'[b])
    PROVE  SettleInv'
<1>1. RowsOK /\ RowsOK' /\ DOMAIN entries \subseteq DOMAIN entries'
  BY RowDomain DEF SettleInv, IInv
<1>2. \A b \in Bills : Settled(b)' = Settled(b) + alloc[b] - entries[e].alloc[b]
  BY <1>1, SettledChanges
<1>3. AmountsOK'
  <2>1. NoAlloc \in [Bills -> Nat]
    BY DEF NoAlloc
  <2>. QED
    BY <1>1, <2>1 DEF SettleInv, AmountsOK
<1>4. DueCounted'
  <2>1. \A b \in Bills : due'[b] = Outstanding(Settled(b)' + orphaned'[b])
    BY <1>2
  <2>. QED
    BY <2>1 DEF DueCounted, Counted, Outstanding
<1>5. \A t \in Sessions : sess'[t] = Idle
  BY SessionsAfter DEF OneRequest, SettleInv
<1>6. RequestSettles(Idle)'
  BY DEF RequestSettles, Idle
<1>. QED
  BY <1>3, <1>4, <1>5, <1>6 DEF SettleInv

(* The end of an allocation: the bill is given what it owes in the state   *)
(* in which the allocation is added, and no deleted draft counts any more. *)
LEMMA FinishAllocateSettles ==
    ASSUME OneRequest, SettleInv, NEW s \in Sessions, FinishAllocate(s)
    PROVE  SettleInv'
<1>1. PICK q : q = sess[s]
  OBVIOUS
<1>2. PICK e, b, n : e = q.entry /\ b = q.bill /\ n = q.amount
  OBVIOUS
<1>3. /\ e \in DOMAIN entries /\ b \in Bills /\ n \in Nat
  BY <1>1, <1>2 DEF SettleInv, IInv, SessionsOK, RequestOK, FinishAllocate
<1>. DEFINE alloc == [entries[e].alloc EXCEPT ![b] = @ + n]
            row == [entries[e] EXCEPT !.alloc = alloc]
<1>4. entries[e] \in Row /\ entries[e].alloc \in [Bills -> Nat]
  BY <1>3, RowTyped DEF SettleInv, IInv, AmountsOK
<1>5. /\ alloc \in [Bills -> Nat] /\ alloc[b] = entries[e].alloc[b] + n
      /\ \A c \in Bills \ {b} : alloc[c] = entries[e].alloc[c]
  BY <1>3, <1>4
<1>6. row \in Row /\ row.alloc = alloc
  BY <1>4, <1>5 DEF Row
<1>7. entries' = [entries EXCEPT ![e] = row] /\ End(s)
  BY <1>1, <1>2 DEF FinishAllocate
<1>8. /\ due' = [due EXCEPT ![b] = Outstanding(Settled(b) + n)]
      /\ orphaned' = [orphaned EXCEPT ![b] = 0]
  BY <1>1, <1>2 DEF FinishAllocate, Settled
<1>. HIDE DEF alloc, row
<1>9. IInv' /\ Keeps
  BY FinishAllocateOK DEF SettleInv
<1>10. DOMAIN entries' = DOMAIN entries /\ entries'[e] = row
       /\ \A j \in DOMAIN entries \ {e} : entries'[j] = entries[j]
  BY <1>3, <1>6, <1>7, UpdateRow DEF SettleInv, IInv, RowsOK
<1>11. /\ orphaned' \in [Bills -> Int] /\ orphaned'[b] = 0
       /\ \A c \in Bills \ {b} : orphaned'[c] = orphaned[c]
  BY <1>3, <1>8 DEF SettleInv, AmountsOK
<1>12. due' = [c \in Bills |-> due'[c]]
  BY <1>8 DEF SettleInv, AmountsOK
<1>13. ASSUME NEW c \in Bills
       PROVE  due'[c] = Outstanding(Settled(c) + alloc[c] - entries[e].alloc[c] + orphaned'[c])
  <2>1. Settled(c) \in Int /\ entries[e].alloc[c] \in Int /\ orphaned[c] \in Int
    BY <1>4, SettledInt DEF SettleInv, IInv, AmountsOK
  <2>2. CASE c = b
    <3>1. due'[c] = Outstanding(Settled(c) + n)
      BY <1>3, <1>8, <2>2 DEF SettleInv, AmountsOK
    <3>2. Settled(c) + alloc[c] - entries[e].alloc[c] + orphaned'[c] = Settled(c) + n
      BY <1>3, <1>5, <1>11, <2>1, <2>2
    <3>. QED
      BY <3>1, <3>2
  <2>3. CASE c # b
    <3>1. due'[c] = due[c] /\ due[c] = Outstanding(Counted(c))
      BY <1>8, <2>3 DEF SettleInv, AmountsOK, DueCounted
    <3>2. Settled(c) + alloc[c] - entries[e].alloc[c] + orphaned'[c] = Counted(c)
      BY <1>5, <1>11, <2>1, <2>3 DEF Counted
    <3>. QED
      BY <3>1, <3>2
  <2>. QED
    BY <2>2, <2>3
<1>. QED
  BY <1>3, <1>5, <1>6, <1>7, <1>9, <1>10, <1>11, <1>12, <1>13, SettlementStep

(* What syncBillStatus writes, when all that an entry settled is removed.  *)
LEMMA SyncSettles ==
    ASSUME SettleInv, NEW q, NEW e \in DOMAIN entries, q.removed = entries[e].alloc,
           q.orphans \in [Bills -> Int],
           \A b \in Bills : q.due[b] = Outstanding(Counted(b) - q.removed[b] - q.orphans[b]),
           due' = syncBillStatus(q), orphaned' = Synced(q)
    PROVE  /\ due' = [b \in Bills |-> due'[b]] /\ orphaned' \in [Bills -> Int]
           /\ \A b \in Bills :
                 due'[b] = Outstanding(Settled(b) + NoAlloc[b] - entries[e].alloc[b] + orphaned'[b])
           /\ Without(entries[e].alloc, q.removed) = NoAlloc
<1>1. entries[e].alloc \in [Bills -> Nat] /\ orphaned \in [Bills -> Int]
  BY DEF SettleInv, AmountsOK
<1>2. due' = [b \in Bills |-> due'[b]] /\ orphaned' \in [Bills -> Int]
  BY <1>1 DEF syncBillStatus, Synced
<1>3. ASSUME NEW b \in Bills
      PROVE  due'[b] = Outstanding(Settled(b) + NoAlloc[b] - entries[e].alloc[b] + orphaned'[b])
  <2>1. /\ Settled(b) \in Int /\ entries[e].alloc[b] \in Nat
        /\ orphaned[b] \in Int /\ q.orphans[b] \in Int
    BY <1>1, SettledInt DEF SettleInv, IInv
  <2>2. CASE entries[e].alloc[b] > 0
    <3>1. due'[b] = q.due[b] /\ orphaned'[b] = orphaned[b] - q.orphans[b]
      BY <2>2 DEF syncBillStatus, Synced
    <3>2. Settled(b) + NoAlloc[b] - entries[e].alloc[b] + orphaned'[b]
            = Counted(b) - q.removed[b] - q.orphans[b]
      BY <2>1, <3>1 DEF NoAlloc, Counted
    <3>. QED
      BY <3>1, <3>2
  <2>3. CASE entries[e].alloc[b] = 0
    <3>1. due'[b] = due[b] /\ orphaned'[b] = orphaned[b]
      BY <2>3 DEF syncBillStatus, Synced
    <3>2. due[b] = Outstanding(Counted(b))
      BY DEF SettleInv, DueCounted
    <3>3. Settled(b) + NoAlloc[b] - entries[e].alloc[b] + orphaned'[b] = Counted(b)
      BY <2>1, <2>3, <3>1 DEF NoAlloc, Counted
    <3>. QED
      BY <3>1, <3>2, <3>3
  <2>. QED
    BY <2>1, <2>2, <2>3
<1>4. Without(entries[e].alloc, q.removed) = NoAlloc
  BY <1>1 DEF Without, NoAlloc
<1>. QED
  BY <1>2, <1>3, <1>4

LEMMA FinishUnallocateSettles ==
    ASSUME OneRequest, SettleInv, NEW s \in Sessions, FinishUnallocate(s)
    PROVE  SettleInv'
<1>1. PICK q : q = sess[s]
  OBVIOUS
<1>2. PICK e : e = q.entry
  OBVIOUS
<1>3. /\ e \in DOMAIN entries /\ q.removed = entries[e].alloc
      /\ q.orphans \in [Bills -> Int]
      /\ \A b \in Bills : q.due[b] = Outstanding(Counted(b) - q.removed[b] - q.orphans[b])
  BY <1>1, <1>2 DEF SettleInv, IInv, SessionsOK, RequestOK, FinishUnallocate, RequestSettles
<1>4. due' = syncBillStatus(q) /\ orphaned' = Synced(q) /\ End(s)
      /\ entries' = [entries EXCEPT ![e].alloc = Without(@, q.removed)]
  BY <1>1, <1>2 DEF FinishUnallocate
<1>5. /\ due' = [b \in Bills |-> due'[b]] /\ orphaned' \in [Bills -> Int]
      /\ \A b \in Bills :
            due'[b] = Outstanding(Settled(b) + NoAlloc[b] - entries[e].alloc[b] + orphaned'[b])
      /\ Without(entries[e].alloc, q.removed) = NoAlloc
  BY <1>3, <1>4, SyncSettles
<1>. DEFINE row == [entries[e] EXCEPT !.alloc = NoAlloc]
<1>6. row \in Row /\ row.alloc = NoAlloc
  BY <1>3, RowTyped, NoAllocTyped DEF SettleInv, IInv, Row
<1>7. entries' = [entries EXCEPT ![e] = row]
  BY <1>4, <1>5
<1>. HIDE DEF row
<1>8. DOMAIN entries' = DOMAIN entries /\ entries'[e] = row
      /\ \A j \in DOMAIN entries \ {e} : entries'[j] = entries[j]
  BY <1>3, <1>6, <1>7, UpdateRow DEF SettleInv, IInv, RowsOK
<1>9. IInv' /\ Keeps
  BY FinishUnallocateOK DEF SettleInv
<1>10. NoAlloc \in [Bills -> Nat]
  BY DEF NoAlloc
<1>. QED
  BY <1>3, <1>4, <1>5, <1>6, <1>8, <1>9, <1>10, SettlementStep

(* A reversal and the replacement of a correction start with nothing       *)
(* settled.                                                                *)
LEMMA AddedSettleNothing ==
    ASSUME RowsOK, NEW e \in DOMAIN entries, NEW added, AddedOK(e, added)
    PROVE  added \in Seq(Row) /\ \A k \in DOMAIN added : added[k].alloc = NoAlloc /\ added[k].of = e
<1>1. \A status, source, l : /\ insertJournal(status, source, e, l).alloc = NoAlloc
                             /\ insertJournal(status, source, e, l).of = e
  BY DEF insertJournal
<1>2. \A source : Mirror(source, e).alloc = NoAlloc /\ Mirror(source, e).of = e
  BY <1>1 DEF Mirror
<1>3. added \in Seq(Row)
  BY AddedRows
<1>4. CASE added = <<Mirror("reversal", e)>>
  BY <1>2, <1>3, <1>4
<1>5. CASE /\ Corrections(e) = {}
           /\ \E l \in [Accounts -> Int] :
                 added = <<Mirror("edit_reversal", e),
                           insertJournal("posted", "manual_correction", e, l)>>
  <2>1. PICK l : added = <<Mirror("edit_reversal", e),
                           insertJournal("posted", "manual_correction", e, l)>>
    BY <1>5
  <2>2. PICK a, c : a = Mirror("edit_reversal", e) /\ c = insertJournal("posted", "manual_correction", e, l)
    OBVIOUS
  <2>3. a.alloc = NoAlloc /\ a.of = e /\ c.alloc = NoAlloc /\ c.of = e
    BY <1>1, <1>2, <2>2
  <2>4. added = <<a, c>>
    BY <2>1, <2>2
  <2>. QED
    BY <1>3, <2>3, <2>4
<1>. QED
  BY <1>4, <1>5 DEF AddedOK

LEMMA FinishCancelSettles ==
    ASSUME OneRequest, SettleInv, NEW s \in Sessions, FinishCancel(s)
    PROVE  SettleInv'
<1>1. PICK q : q = sess[s]
  OBVIOUS
<1>2. PICK e, added : e = q.entry /\ added = q.added
  OBVIOUS
<1>3. /\ e \in DOMAIN entries /\ AddedOK(e, added) /\ q.removed = entries[e].alloc
      /\ q.orphans \in [Bills -> Int]
      /\ \A b \in Bills : q.due[b] = Outstanding(Counted(b) - q.removed[b] - q.orphans[b])
  BY <1>1, <1>2 DEF SettleInv, IInv, SessionsOK, RequestOK, FinishCancel, RequestSettles
<1>4. due' = syncBillStatus(q) /\ orphaned' = Synced(q) /\ End(s)
      /\ entries' = [entries EXCEPT ![e].alloc = Without(@, q.removed)] \o added
  BY <1>1, <1>2 DEF FinishCancel
<1>5. /\ due' = [b \in Bills |-> due'[b]] /\ orphaned' \in [Bills -> Int]
      /\ \A b \in Bills :
            due'[b] = Outstanding(Settled(b) + NoAlloc[b] - entries[e].alloc[b] + orphaned'[b])
      /\ Without(entries[e].alloc, q.removed) = NoAlloc
  BY <1>3, <1>4, SyncSettles
<1>. DEFINE row == [entries[e] EXCEPT !.alloc = NoAlloc]
            tab == [entries EXCEPT ![e] = row]
<1>6. row \in Row /\ row.alloc = NoAlloc
  BY <1>3, RowTyped, NoAllocTyped DEF SettleInv, IInv, Row
<1>7. entries' = tab \o added
  BY <1>4, <1>5
<1>. HIDE DEF row
<1>8. /\ tab \in Seq(Row) /\ DOMAIN tab = DOMAIN entries /\ tab[e] = row
      /\ \A j \in DOMAIN entries \ {e} : tab[j] = entries[j]
  BY <1>3, <1>6, UpdateRow DEF SettleInv, IInv, RowsOK
<1>. HIDE DEF tab
<1>9. added \in Seq(Row) /\ \A k \in DOMAIN added : added[k].alloc = NoAlloc /\ added[k].of = e
  BY <1>3, AddedSettleNothing DEF SettleInv, IInv
<1>10. /\ \A j \in DOMAIN entries : entries'[j] = tab[j]
       /\ \A j \in DOMAIN entries' \ DOMAIN entries :
             entries'[j].alloc = NoAlloc /\ entries'[j].of = e
  <2>1. /\ \A j \in DOMAIN tab : (tab \o added)[j] = tab[j]
        /\ \A j \in DOMAIN (tab \o added) \ DOMAIN tab :
              j - Len(tab) \in DOMAIN added /\ (tab \o added)[j] = added[j - Len(tab)]
    BY <1>8, <1>9, InsertRows
  <2>. QED
    BY <1>7, <1>8, <1>9, <2>1
<1>11. IInv' /\ Keeps
  BY FinishCancelOK DEF SettleInv
<1>12. NoAlloc \in [Bills -> Nat]
  BY DEF NoAlloc
<1>13. /\ entries'[e].alloc = NoAlloc
       /\ \A j \in DOMAIN entries \ {e} : entries'[j].alloc = entries[j].alloc
  BY <1>3, <1>6, <1>8, <1>10
<1>. QED
  BY <1>3, <1>4, <1>5, <1>10, <1>11, <1>12, <1>13, SettlementStep

LEMMA InitSettles == Init => SettleInv
<1>. SUFFICES ASSUME Init PROVE SettleInv
  OBVIOUS
<1>1. DOMAIN entries = {} /\ (\A s \in Sessions : sess[s] = Idle) /\ due = [b \in Bills |-> BillTotal]
  BY DEF Init
<1>2. AmountsOK
  BY <1>1 DEF Init, AmountsOK, NoAlloc
<1>3. RequestSettles(Idle)
  BY DEF RequestSettles, Idle
<1>4. DueCounted
  <2>1. ASSUME NEW b \in Bills
        PROVE  Settled(b) = 0
    BY <1>1, SettledIs, SumEmpty, Zenon DEF SettledBy
  <2>2. Outstanding(0) = BillTotal
    BY LedgerAssumption DEF Outstanding
  <2>3. \A b \in Bills : Counted(b) = 0
    BY <2>1 DEF Counted, Init, NoAlloc
  <2>. QED
    BY <1>1, <2>2, <2>3 DEF DueCounted
<1>. QED
  BY <1>1, <1>2, <1>3, <1>4, InitOK DEF SettleInv

LEMMA NextSettles == OneRequest /\ SettleInv /\ [Next]_vars => SettleInv'
<1>. SUFFICES ASSUME OneRequest, SettleInv, [Next]_vars PROVE SettleInv'
  OBVIOUS
<1>1. IInv'
  BY NextOK DEF SettleInv
<1>2. CASE UNCHANGED vars
  BY <1>1, <1>2, UnchangedSettles DEF vars
<1>3. ASSUME NEW s \in Sessions, NEW e \in DOMAIN entries, NEW l \in Postings, BeginCorrect(s, e, l)
      PROVE  SettleInv'
  BY <1>1, <1>3, CancelSettles DEF BeginCorrect
<1>4. ASSUME NEW s \in Sessions, NEW e \in DOMAIN entries, BeginReverse(s, e)
      PROVE  SettleInv'
  BY <1>1, <1>4, CancelSettles DEF BeginReverse
<1>5. CASE Next
  BY <1>3, <1>4, <1>5, createEntrySettles, EditDraftSettles, DeleteDraftSettles, BeginPostSettles,
     BeginAllocateSettles, BeginUnallocateSettles, FinishPostSettles, FinishCancelSettles,
     FinishAllocateSettles, FinishUnallocateSettles, RollbackSettles DEF Next
<1>. QED
  BY <1>2, <1>5

-----------------------------------------------------------------------------
(* The invariant, and what follows from it.                                *)

(* The invariant holds in every state of the ledger.                       *)
THEOREM Invariance == Spec => []IInv
<1>1. IInv /\ [Next]_vars => IInv'
  BY NextOK
<1>. QED
  BY <1>1, InitOK, PTL DEF Spec

(* However many reversals and corrections race, an entry gets at most one  *)
(* of each, the correction first.                                          *)
THEOREM UndoneAtMostOnceEach == Spec => []ReversedOnce
<1>1. IInv => ReversedOnce
  BY DEF IInv
<1>. QED
  BY <1>1, Invariance, PTL

(* A reversal stays the mirror image of the entry it names, whatever else  *)
(* happens to either of them.                                              *)
THEOREM ReversalsMirror == Spec => []ReversalMirrors
<1>1. IInv => ReversalMirrors
  BY DEF IInv
<1>. QED
  BY <1>1, Invariance, PTL

(* No handler changes the status or the lines of a posted entry, even when *)
(* several requests work on one draft.                                     *)
THEOREM PostedImmutable == Spec => PostedStays
<1>1. Keeps => \A e \in DOMAIN entries : entries[e].status = "posted" =>
                   entries'[e].status = "posted" /\ entries'[e].lines = entries[e].lines
  BY DEF Keeps
<1>2. IInv /\ [Next]_vars =>
        [\A e \in DOMAIN entries : entries[e].status = "posted" =>
             entries'[e].status = "posted" /\ entries'[e].lines = entries[e].lines]_vars
  BY <1>1, NextOK
<1>. QED
  BY <1>2, Invariance, PTL DEF Spec, PostedStays

(* Whatever requests do to each other, even to one draft, the accounts of  *)
(* the two sides keep equal sums: every posting is balanced as a whole.    *)
THEOREM BooksBalance == Spec => []AccountingEquation
<1>1. BooksInv => AccountingEquation
  BY DEF BooksInv, Balanced, AccountingEquation
<1>. QED
  BY <1>1, InitBooks, NextBooks, PTL DEF Spec

(* Where no two requests work on one draft, every stored balance is the    *)
(* sum of the posted lines of its account, and the books balance: in any   *)
(* interleaving of postings, corrections, reversals and roll-backs.        *)
THEOREM BalancesAreTheLedger == ASSUME DraftsOwned PROVE Spec => []TrialBalance
<1>1. OwnedInv /\ [Next]_vars => OwnedInv'
  BY NextOwned
<1>2. OwnedInv => TrialBalance
  BY DEF OwnedInv, BooksInv, Balanced, TrialBalance, AccountingEquation
<1>. QED
  BY <1>1, <1>2, InitOwned, PTL DEF Spec

(* Where requests come one at a time, a correction, a reversal and a       *)
(* removal give back exactly what the entry had settled, so the balance    *)
(* due stored with every bill is what its allocations, and those of the    *)
(* drafts deleted since it was synchronised, leave open.                   *)
THEOREM DueIsWhatIsOpen == ASSUME OneRequest PROVE Spec => []DueMatches
<1>1. SettleInv /\ [Next]_vars => SettleInv'
  BY NextSettles
<1>2. SettleInv => DueMatches
  BY DEF SettleInv, DueCounted, DueMatches, Counted, Settled
<1>. QED
  BY <1>1, <1>2, InitSettles, PTL DEF Spec

=============================================================================
