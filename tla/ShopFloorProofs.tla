--------------------------- MODULE ShopFloorProofs ---------------------------
(***************************************************************************)
(* Proofs about ShopFloor, for every number of lots, processes, machines   *)
(* and concurrent requests.                                                *)
(***************************************************************************)
EXTENDS ShopFloorCustody, TableLemmas

-----------------------------------------------------------------------------
(* The newest row: a set of row ids that is not empty has a largest one.   *)

LEMMA NewestExists ==
    ASSUME NEW n \in Nat, NEW T, T \subseteq 1..n, T # {}
    PROVE  \E l \in T : \A x \in T : x <= l
<1>. DEFINE U == {k \in Nat : n - k \in T}
<1>1. U \subseteq Nat
  OBVIOUS
<1>2. U # {}
  <2>1. PICK x \in T : TRUE
    OBVIOUS
  <2>2. n - x \in Nat /\ n - (n - x) = x
    OBVIOUS
  <2>. QED
    BY <2>1, <2>2
<1>3. PICK m \in U : \A y \in U : ~(<<y, m>> \in Less)
  <2>. HIDE DEF U
  <2>. QED
    BY <1>1, <1>2, LessWellFounded, WFMin
<1>4. \A y \in U : ~(y < m)
  BY <1>1, <1>3 DEF Less
<1>5. \A x \in T : ~(n - x < m)
  <2>1. \A x \in T : n - x \in Nat /\ n - (n - x) = x
    OBVIOUS
  <2>. QED
    BY <1>4, <2>1
<1>6. n - m \in T /\ m \in Nat
  OBVIOUS
<1>. QED
  BY <1>5, <1>6

-----------------------------------------------------------------------------
(* The inductive invariant.                                                *)
(*                                                                         *)
(* TypeOK and IssueBalance are not inductive: a return writes, at COMMIT,  *)
(* the balance it computed when it began.  That the balance is still the   *)
(* issue's is due to the row lock (OneReturnPerIssue), and that the row it *)
(* writes exists, to the references between the tables (TablesOK).         *)

LotRow(np) == {row \in Lot : row.proc \in 0..np}

IssueRow(nl, np) ==
    {row \in Issue : /\ row.lot \in 1..nl
                     /\ row.proc \in 0..np
                     /\ row.issued = row.remaining + row.returned
                     /\ row.status = "RETURNED" <=> row.remaining = 0}

(* The rows have their types, and every reference names a row.             *)
TablesOK ==
    /\ lots \in Seq(LotRow(Len(procs)))
    /\ issues \in Seq(IssueRow(Len(lots), Len(procs)))
    /\ procs \in Seq(Proc)
    /\ machines \in [Machines -> MachineStatuses]
    /\ scrapped \in Nat
    /\ sess \in [Sessions -> Session]

(* What a return has read still holds of the issue it locked.              *)
ReturnOK(s) ==
    LET r == sess[s] IN
    /\ r.issue \in DOMAIN issues
    /\ issues[r.issue].status = "OPEN"
    /\ issues[r.issue].remaining = r.remaining + Total(r.lines)
    /\ Total(r.lines) > 0
    /\ r.last => r.remaining = 0 /\ NoOpenSibling(r.issue)

ByProcess == {"hold", "resume", "complete", "output_by_process"}

SessionOK(s) ==
    /\ sess[s].op = "return" => ReturnOK(s)
    /\ sess[s].op \in ByProcess => sess[s].proc \in DOMAIN procs
    /\ sess[s].op = "complete" =>
          IsGrowth(procs[sess[s].proc].type) \/ ~Unreturned(sess[s].proc)
    /\ sess[s].op = "output_by_process" =>
          sess[s].biscuit \in DOMAIN lots /\ "output_by_process" \in Ops

OneReturnPerIssue ==
    \A s, t \in Sessions :
        sess[s].op = "return" /\ sess[t].op = "return" /\ sess[s].issue = sess[t].issue => s = t

(* Rough output completes the process of its biscuit without looking at    *)
(* the issues, so what completion means is claimed without that handler.   *)
NoRoughOutput == "output" \notin Ops /\ "output_by_process" \notin Ops

IInv ==
    /\ TablesOK
    /\ \A s \in Sessions : SessionOK(s)
    /\ OneReturnPerIssue
    /\ NoRoughOutput => CompletedMeansReturned

LEMMA TotalNat ==
    ASSUME NEW ls \in Lines
    PROVE  Total(ls) \in Nat
  BY ShopFloorAssumption DEF Lines, Total

LEMMA RowsMonotone ==
    ASSUME NEW a \in Nat, NEW b \in Nat, NEW c \in Nat, NEW d \in Nat, a <= c, b <= d
    PROVE  /\ Seq(LotRow(b)) \subseteq Seq(LotRow(d))
           /\ Seq(IssueRow(a, b)) \subseteq Seq(IssueRow(c, d))
<1>1. LotRow(b) \subseteq LotRow(d)
  BY DEF LotRow
<1>2. IssueRow(a, b) \subseteq IssueRow(c, d)
  BY DEF IssueRow
<1>. QED
  BY <1>1, <1>2, SeqMonotonic

(* The invariant gives the two properties the runs check.                  *)
LEMMA TablesTyped ==
    ASSUME TablesOK
    PROVE  TypeOK /\ IssueBalance
<1>1. LotRow(Len(procs)) \subseteq Lot
  BY DEF LotRow
<1>2. IssueRow(Len(lots), Len(procs)) \subseteq Issue
  BY DEF IssueRow
<1>3. lots \in Seq(Lot) /\ issues \in Seq(Issue)
  BY <1>1, <1>2, SeqMonotonic DEF TablesOK
<1>4. ASSUME NEW i \in DOMAIN issues
      PROVE  issues[i] \in IssueRow(Len(lots), Len(procs))
  BY DEF TablesOK
<1>5. IssueBalance
  BY <1>4 DEF IssueBalance, IssueRow
<1>. QED
  BY <1>3, <1>5 DEF TypeOK, TablesOK

-----------------------------------------------------------------------------
(* What carries over when a step leaves the rows a request relies on.      *)

(* No issue changes its process, none reopens, and a new one is in no      *)
(* process that existed before.                                            *)
IssuesStep ==
    /\ \A i \in DOMAIN issues :
          /\ i \in DOMAIN issues'
          /\ issues'[i].proc = issues[i].proc
          /\ issues'[i].status = "OPEN" => issues[i].status = "OPEN"
    /\ \A i \in DOMAIN issues' \ DOMAIN issues : issues'[i].proc \notin DOMAIN procs

ProcsStep ==
    \A p \in DOMAIN procs : p \in DOMAIN procs' /\ procs'[p].type = procs[p].type

LEMMA UnreturnedStays ==
    ASSUME IssuesStep, NEW p \in DOMAIN procs, ~Unreturned(p)
    PROVE  ~Unreturned(p)'
  BY DEF IssuesStep, Unreturned

LEMMA NoOpenSiblingStays ==
    ASSUME TablesOK, IssuesStep, NEW i \in DOMAIN issues, NoOpenSibling(i)
    PROVE  NoOpenSibling(i)'
<1>1. issues[i].proc \in DOMAIN procs
  <2>1. issues[i] \in IssueRow(Len(lots), Len(procs))
    BY DEF TablesOK
  <2>. QED
    BY <2>1 DEF IssueRow, NoOpenSibling, TablesOK
<1>. QED
  BY <1>1 DEF IssuesStep, NoOpenSibling

(* A request in flight is not disturbed by a step that leaves it alone and *)
(* does not write to the issue it locked.                                  *)
LEMMA SessionUndisturbed ==
    ASSUME IInv, IssuesStep, ProcsStep, DOMAIN lots \subseteq DOMAIN lots',
           NEW s \in Sessions, sess'[s] = sess[s],
           sess[s].op = "return" => issues'[sess[s].issue] = issues[sess[s].issue]
    PROVE  SessionOK(s)'
<1>1. SessionOK(s)
  BY DEF IInv
<1>2. sess[s].op = "return" => ReturnOK(s)'
  <2>1. SUFFICES ASSUME sess[s].op = "return"
                 PROVE  ReturnOK(s)'
    OBVIOUS
  <2>2. ReturnOK(s)
    BY <1>1, <2>1 DEF SessionOK
  <2>3. sess[s].last => NoOpenSibling(sess[s].issue)'
    BY <2>2, NoOpenSiblingStays DEF IInv, ReturnOK
  <2>4. sess'[s].last => NoOpenSibling(sess[s].issue)'
    BY <2>3
  <2>. QED
    BY <2>1, <2>2, <2>4 DEF ReturnOK, IssuesStep, NoOpenSibling
<1>3. sess[s].op = "complete" =>
        (IsGrowth(procs[sess[s].proc].type) \/ ~Unreturned(sess[s].proc))'
  BY <1>1, UnreturnedStays DEF SessionOK, ByProcess, ProcsStep, IsGrowth, Unreturned, IssuesStep
<1>. QED
  BY <1>1, <1>2, <1>3 DEF SessionOK, ProcsStep, ByProcess

LEMMA IdleOK ==
    ASSUME NEW s \in Sessions, sess'[s] = Idle
    PROVE  SessionOK(s)'
  BY DEF SessionOK, Idle, ByProcess

LEMMA EndSession ==
    ASSUME sess \in [Sessions -> Session], NEW s \in Sessions, End(s)
    PROVE  /\ sess' \in [Sessions -> Session]
           /\ sess'[s] = Idle
           /\ \A t \in Sessions \ {s} : sess'[t] = sess[t]
  BY DEF End, Session

(* A step that ends at most one request, s, keeps the sessions' invariant. *)
LEMMA SessionsEnd ==
    ASSUME IInv, IssuesStep, ProcsStep, DOMAIN lots \subseteq DOMAIN lots',
           sess' \in [Sessions -> Session],
           \A t \in Sessions : sess'[t] = Idle
               \/ /\ sess'[t] = sess[t]
                  /\ sess[t].op = "return" => issues'[sess[t].issue] = issues[sess[t].issue]
    PROVE  (\A t \in Sessions : SessionOK(t)') /\ OneReturnPerIssue'
<1>1. \A t \in Sessions : SessionOK(t)'
  BY SessionUndisturbed, IdleOK
<1>2. OneReturnPerIssue'
  BY DEF OneReturnPerIssue, IInv, Idle
<1>. QED
  BY <1>1, <1>2

(* Completion keeps its meaning when only processes with nothing           *)
(* outstanding become completed.                                           *)
LEMMA CompletedKeeps ==
    ASSUME IInv, IssuesStep, ProcsStep,
           \A p \in DOMAIN procs' : procs'[p].status = "completed" =>
               /\ p \in DOMAIN procs
               /\ procs[p].status = "completed" \/ IsGrowth(procs[p].type) \/ ~Unreturned(p)'
    PROVE  (NoRoughOutput => CompletedMeansReturned)'
<1>. SUFFICES ASSUME NoRoughOutput, NEW p \in DOMAIN procs',
                     procs'[p].status = "completed", ~IsGrowth(procs'[p].type)
              PROVE  ~Unreturned(p)'
  BY DEF CompletedMeansReturned, NoRoughOutput, IsGrowth, Unreturned
<1>1. p \in DOMAIN procs /\ ~IsGrowth(procs[p].type)
  BY DEF ProcsStep
<1>2. CASE procs[p].status = "completed"
  <2>1. ~Unreturned(p)
    BY <1>1, <1>2 DEF IInv, CompletedMeansReturned
  <2>. QED
    BY <1>1, <2>1, UnreturnedStays
<1>. QED
  BY <1>1, <1>2

-----------------------------------------------------------------------------
(* Steps that read.                                                        *)

LEMMA InitOK == Init => IInv
<1>. SUFFICES ASSUME Init PROVE IInv
  OBVIOUS
<1>1. lots \in Seq(LotRow(0))
  <2>1. SeedLot \in LotRow(0)
    <3>1. MaxQty \in Nat
      BY ShopFloorAssumption
    <3>2. SeedLot.proc = 0
      BY DEF SeedLot
    <3>3. SeedLot \in Lot
      BY <3>1 DEF SeedLot, Lot, LotStatuses
    <3>. QED
      BY <3>2, <3>3 DEF LotRow
  <2>. QED
    BY <2>1, RewriteRows, ShopFloorAssumption DEF Init
<1>2. \A nl, np : <<>> \in Seq(IssueRow(nl, np))
  OBVIOUS
<1>3. TablesOK
  BY <1>1, <1>2 DEF Init, TablesOK, MachineStatuses, Session
<1>4. \A s \in Sessions : SessionOK(s)
  BY DEF Init, SessionOK, Idle, ByProcess
<1>5. OneReturnPerIssue
  BY DEF Init, OneReturnPerIssue, Idle
<1>6. CompletedMeansReturned
  BY DEF Init, CompletedMeansReturned
<1>. QED
  BY <1>3, <1>4, <1>5, <1>6 DEF IInv

LEMMA NothingWritten ==
    ASSUME UNCHANGED <<lots, issues, procs>>
    PROVE  IssuesStep /\ ProcsStep /\ DOMAIN lots \subseteq DOMAIN lots'
  BY DEF IssuesStep, ProcsStep

(* A request that begins keeps the invariant if what it read is right of   *)
(* it and, when it is a return, no other return holds its issue.           *)
LEMMA BeginOK ==
    ASSUME IInv, UNCHANGED <<lots, issues, procs, machines, scrapped>>,
           NEW s \in Sessions, NEW r \in Session, Begin(s, r), SessionOK(s)',
           r.op = "return" => \A t \in Sessions :
               sess[t].op = "return" => sess[t].issue # r.issue
    PROVE  IInv'
<1>1. /\ sess' \in [Sessions -> Session]
      /\ sess'[s] = r
      /\ \A t \in Sessions \ {s} : sess'[t] = sess[t]
  BY DEF IInv, TablesOK, Begin
<1>2. TablesOK'
  BY <1>1 DEF IInv, TablesOK
<1>3. \A t \in Sessions : SessionOK(t)'
  BY <1>1, NothingWritten, SessionUndisturbed
<1>4. OneReturnPerIssue'
  BY <1>1 DEF IInv, OneReturnPerIssue
<1>5. (NoRoughOutput => CompletedMeansReturned)'
  BY DEF IInv, NoRoughOutput, CompletedMeansReturned, Unreturned
<1>. QED
  BY <1>2, <1>3, <1>4, <1>5 DEF IInv

LEMMA RollbackOK ==
    ASSUME IInv, NEW s \in Sessions, Rollback(s)
    PROVE  IInv'
<1>1. /\ sess' \in [Sessions -> Session]
      /\ sess'[s] = Idle
      /\ \A t \in Sessions \ {s} : sess'[t] = sess[t]
  BY EndSession DEF Rollback, IInv, TablesOK
<1>2. TablesOK'
  BY <1>1 DEF IInv, TablesOK, Rollback
<1>3. (\A t \in Sessions : SessionOK(t)') /\ OneReturnPerIssue'
  BY <1>1, NothingWritten, SessionsEnd DEF Rollback
<1>4. (NoRoughOutput => CompletedMeansReturned)'
  BY DEF IInv, NoRoughOutput, CompletedMeansReturned, Unreturned, Rollback
<1>. QED
  BY <1>2, <1>3, <1>4 DEF IInv

LEMMA BeginReturnOK ==
    ASSUME IInv, NEW s \in Sessions, NEW i \in DOMAIN issues, NEW ls \in Lines,
           BeginReturn(s, i, ls)
    PROVE  IInv'
<1>. DEFINE r == [op |-> "return", issue |-> i, lines |-> ls,
                  remaining |-> issues[i].remaining - Total(ls),
                  last |-> Total(ls) = issues[i].remaining /\ NoOpenSibling(i)]
<1>1. issues[i] \in Issue /\ i \in Nat /\ Total(ls) \in Nat
  BY TotalNat DEF IInv, TablesOK, IssueRow
<1>2. Total(ls) > 0 /\ Total(ls) <= issues[i].remaining
  BY <1>1 DEF BeginReturn, BalanceGate, Issue
<1>3. issues[i].remaining - Total(ls) \in Nat
  BY <1>1, <1>2 DEF Issue
<1>4. r.last \in BOOLEAN
  OBVIOUS
<1>5. r \in Session
  BY <1>1, <1>3, <1>4 DEF Session
<1>6. Begin(s, r)
  BY DEF BeginReturn
<1>7. sess'[s] = r /\ UNCHANGED <<lots, issues, procs, machines, scrapped>>
  BY <1>6 DEF Begin, BeginReturn, IInv, TablesOK
<1>8. ReturnOK(s)'
  <2>1. r.last => r.remaining = 0 /\ NoOpenSibling(i)
    <3>1. r.last = (Total(ls) = issues[i].remaining /\ NoOpenSibling(i))
      BY Zenon
    <3>2. Total(ls) = issues[i].remaining => r.remaining = 0
      BY <1>1 DEF Issue
    <3>. QED
      BY <3>1, <3>2, Zenon
  <2>2. r.last => NoOpenSibling(i)'
    BY <2>1, <1>7 DEF NoOpenSibling
  <2>3. issues[i].remaining = r.remaining + Total(r.lines)
    BY <1>1, <1>2 DEF Issue
  <2>4. issues[i].status = "OPEN"
    BY DEF BeginReturn
  <2>. QED
    BY <1>2, <1>7, <2>1, <2>2, <2>3, <2>4 DEF ReturnOK, NoOpenSibling
<1>9. SessionOK(s)'
  BY <1>7, <1>8 DEF SessionOK, ByProcess
<1>10. \A t \in Sessions : sess[t].op = "return" => sess[t].issue # r.issue
  BY DEF BeginReturn, ReturnLocks, IssueLocked
<1>. HIDE DEF r
<1>. QED
  BY <1>5, <1>6, <1>7, <1>9, <1>10, BeginOK

LEMMA BeginStartOK ==
    ASSUME IInv, NEW s \in Sessions, NEW m \in Machines, NEW t \in Types,
           NEW ls \in SUBSET DOMAIN lots, BeginStart(s, m, t, ls)
    PROVE  IInv'
<1>. DEFINE r == [op |-> "start", machine |-> m, type |-> t, loaded |-> ls]
<1>1. DOMAIN lots \subseteq Nat
  BY DEF IInv, TablesOK
<1>2. r \in Session
  BY <1>1 DEF Session
<1>3. sess'[s] = r
  BY DEF BeginStart, Begin, IInv, TablesOK
<1>4. SessionOK(s)'
  BY <1>3 DEF SessionOK, ByProcess
<1>. QED
  BY <1>2, <1>4, BeginOK DEF BeginStart

LEMMA BeginHoldResumeOK ==
    ASSUME IInv, NEW s \in Sessions, NEW p \in DOMAIN procs,
           BeginHold(s, p) \/ BeginResume(s, p)
    PROVE  IInv'
<1>1. PICK op \in {"hold", "resume"} : Begin(s, [op |-> op, proc |-> p])
  BY DEF BeginHold, BeginResume
<1>2. UNCHANGED <<lots, issues, procs, machines, scrapped>>
  BY DEF BeginHold, BeginResume
<1>. DEFINE r == [op |-> op, proc |-> p]
<1>3. p \in Nat
  BY DEF IInv, TablesOK
<1>4. r \in Session
  BY <1>3 DEF Session
<1>5. sess'[s] = r
  BY <1>1 DEF Begin, IInv, TablesOK
<1>6. SessionOK(s)'
  BY <1>2, <1>5 DEF SessionOK
<1>. QED
  BY <1>1, <1>2, <1>4, <1>6, BeginOK

LEMMA BiscuitFound ==
    ASSUME TablesOK, NEW p \in Nat
    PROVE  /\ findActiveBiscuitByProcess(p) \in Nat
           /\ BiscuitsOf(p) # {} => findActiveBiscuitByProcess(p) \in BiscuitsOf(p)
<1>1. BiscuitsOf(p) \subseteq 1..Len(lots)
  BY DEF BiscuitsOf, TablesOK
<1>2. CASE BiscuitsOf(p) = {}
  BY <1>2 DEF findActiveBiscuitByProcess
<1>3. CASE BiscuitsOf(p) # {}
  <2>1. Len(lots) \in Nat
    BY DEF TablesOK
  <2>2. \E l \in BiscuitsOf(p) : \A x \in BiscuitsOf(p) : x <= l
    BY <1>1, <1>3, <2>1, NewestExists
  <2>3. findActiveBiscuitByProcess(p) \in BiscuitsOf(p)
    BY <1>3, <2>2 DEF findActiveBiscuitByProcess
  <2>. QED
    BY <1>1, <2>3
<1>. QED
  BY <1>2, <1>3

LEMMA BeginCompleteOK ==
    ASSUME IInv, NEW s \in Sessions, NEW p \in DOMAIN procs, BeginComplete(s, p)
    PROVE  IInv'
<1>. DEFINE r == [op |-> "complete", proc |-> p, biscuit |-> findActiveBiscuitByProcess(p)]
<1>1. p \in Nat
  BY DEF IInv, TablesOK
<1>2. r \in Session
  BY <1>1, BiscuitFound DEF Session, IInv
<1>3. sess'[s] = r
  BY DEF BeginComplete, Begin, IInv, TablesOK
<1>4. IsGrowth(procs[p].type) \/ ~Unreturned(p)
  BY DEF BeginComplete
<1>5. (IsGrowth(procs[p].type) \/ ~Unreturned(p))'
  BY <1>4 DEF BeginComplete, Unreturned, IsGrowth
<1>6. SessionOK(s)'
  BY <1>3, <1>5 DEF SessionOK, BeginComplete, ByProcess, IsGrowth, Unreturned
<1>. QED
  BY <1>2, <1>6, BeginOK DEF BeginComplete

LEMMA BeginOutputOK ==
    ASSUME IInv, NEW s \in Sessions, NEW p \in DOMAIN procs, BeginOutput(s, p)
    PROVE  IInv'
<1>. DEFINE r == [op |-> "output_by_process", proc |-> p,
                  biscuit |-> findActiveBiscuitByProcess(p)]
<1>1. p \in Nat
  BY DEF IInv, TablesOK
<1>2. r \in Session /\ r.biscuit \in DOMAIN lots
  BY <1>1, BiscuitFound DEF Session, IInv, BeginOutput, BiscuitsOf
<1>3. sess'[s] = r
  BY DEF BeginOutput, Begin, IInv, TablesOK
<1>4. SessionOK(s)'
  BY <1>2, <1>3 DEF SessionOK, BeginOutput, ByProcess
<1>. QED
  BY <1>2, <1>4, BeginOK DEF BeginOutput

-----------------------------------------------------------------------------
(* Issuing lots.                                                           *)

LEMMA RequestFacts ==
    ASSUME NEW req \in Requests
    PROVE  /\ Len(req) \in {1, 2}
           /\ DOMAIN req = 1..Len(req)
           /\ req[1] \in Entries
           /\ Len(req) = 2 => req[2] \in Entries
  BY DEF Requests

LEMMA EntryFacts ==
    ASSUME TablesOK, NEW e \in Entries
    PROVE  /\ e.lot \in DOMAIN lots
           /\ e.qty \in Nat \ {0}
           /\ lots[e.lot] \in LotRow(Len(procs))
  BY ShopFloorAssumption DEF Entries, TablesOK

LEMMA IsLotRow ==
    ASSUME NEW np, NEW row \in Lot, row.proc \in 0..np
    PROVE  row \in LotRow(np)
  BY DEF LotRow

(* The child of a partial issue is a row of no process.                    *)
LEMMA ChildRow ==
    ASSUME TablesOK, NEW e \in Entries, NEW p \in Nat, NEW np \in Nat
    PROVE  /\ ChildOf(e, p) \in Seq(LotRow(np))
           /\ Len(ChildOf(e, p)) = IF InPlace(e, p) THEN 0 ELSE 1
<1>1. CASE InPlace(e, p)
  BY <1>1 DEF ChildOf
<1>2. CASE ~InPlace(e, p)
  <2>. DEFINE row == [kind |-> lots[e.lot].kind, status |-> "IN PROCESS", qty |-> e.qty,
                      proc |-> 0, outputs |-> 0]
  <2>1. lots[e.lot].kind \in {"seed", "growth_run"} /\ e.qty \in Nat
    BY EntryFacts DEF LotRow, Lot
  <2>2. row \in LotRow(np)
    <3>1. row \in Lot
      BY <2>1 DEF Lot, LotStatuses
    <3>2. row.proc \in 0..np
      OBVIOUS
    <3>. QED
      BY <3>1, <3>2, IsLotRow
  <2>3. ChildOf(e, p) = <<row>>
    BY <1>2 DEF ChildOf
  <2>. HIDE DEF row
  <2>. QED
    BY <1>2, <2>2, <2>3
<1>. QED
  BY <1>1, <1>2

LEMMA ChildrenRows ==
    ASSUME TablesOK, NEW req \in Requests, NEW p \in Nat, NEW np \in Nat
    PROVE  /\ Children(req, p) \in Seq(LotRow(np))
           /\ \A k \in DOMAIN req :
                ProcessLot(req, k, p) \in 1..(Len(lots) + Len(Children(req, p)))
<1>1. /\ Len(req) \in {1, 2} /\ DOMAIN req = 1..Len(req)
      /\ req[1] \in Entries /\ (Len(req) = 2 => req[2] \in Entries)
  BY RequestFacts
<1>2. /\ ChildOf(req[1], p) \in Seq(LotRow(np))
      /\ Len(ChildOf(req[1], p)) = IF InPlace(req[1], p) THEN 0 ELSE 1
  BY <1>1, ChildRow
<1>3. Len(req) = 2 => /\ ChildOf(req[2], p) \in Seq(LotRow(np))
                      /\ Len(ChildOf(req[2], p)) = IF InPlace(req[2], p) THEN 0 ELSE 1
  BY <1>1, ChildRow
<1>4. /\ Len(lots) \in Nat /\ req[1].lot \in 1..Len(lots)
      /\ Len(req) = 2 => req[2].lot \in 1..Len(lots)
  BY <1>1, EntryFacts DEF TablesOK
<1>5. CASE Len(req) = 1
  <2>1. Children(req, p) = ChildOf(req[1], p)
    BY <1>2, <1>5 DEF Children
  <2>. QED
    BY <1>1, <1>2, <1>4, <1>5, <2>1 DEF ProcessLot
<1>6. CASE Len(req) = 2
  <2>1. Children(req, p) = ChildOf(req[1], p) \o ChildOf(req[2], p)
    BY <1>6 DEF Children
  <2>2. /\ Children(req, p) \in Seq(LotRow(np))
        /\ Len(Children(req, p)) = Len(ChildOf(req[1], p)) + Len(ChildOf(req[2], p))
    BY <1>2, <1>3, <1>6, <2>1
  <2>3. ProcessLot(req, 1, p) \in 1..(Len(lots) + Len(Children(req, p)))
    BY <1>2, <1>3, <1>4, <1>6, <2>2 DEF ProcessLot
  <2>4. ProcessLot(req, 2, p) \in 1..(Len(lots) + Len(Children(req, p)))
    BY <1>2, <1>3, <1>4, <1>6, <2>2 DEF ProcessLot
  <2>. QED
    BY <1>1, <1>6, <2>2, <2>3, <2>4
<1>. QED
  BY <1>1, <1>5, <1>6

(* A source lot keeps its type whatever the entries write to it.           *)
LEMMA SourceRow ==
    ASSUME TablesOK, NEW req \in Requests, NEW p \in Nat, NEW np \in Nat,
           p <= np, Len(procs) <= np,
           \A k \in DOMAIN req : Issuable(req[k])
    PROVE  [l \in DOMAIN lots |-> AfterIssue(req, p, l)] \in [DOMAIN lots -> LotRow(np)]
<1>1. /\ Len(req) \in {1, 2} /\ DOMAIN req = 1..Len(req)
      /\ req[1] \in Entries /\ (Len(req) = 2 => req[2] \in Entries)
  BY RequestFacts
<1>2. ASSUME NEW row \in LotRow(np), NEW l \in DOMAIN lots, NEW e \in Entries, Issuable(e)
      PROVE  AfterEntry(row, l, e, p) \in LotRow(np)
  <2>1. lots[e.lot].qty - e.qty \in Nat
    <3>1. lots[e.lot].qty \in Nat /\ e.qty \in Nat
      BY EntryFacts DEF LotRow, Lot
    <3>2. e.qty <= lots[e.lot].qty
      BY <1>2 DEF Issuable
    <3>. QED
      BY <3>1, <3>2
  <2>2. WriteSource(row, e, p) \in LotRow(np)
    <3>1. WriteSource(row, e, p) \in Lot
      <4>1. row \in Lot
        BY DEF LotRow
      <4>. QED
        BY <2>1, <4>1 DEF WriteSource, Lot, LotStatuses
    <3>2. WriteSource(row, e, p).proc \in 0..np
      <4>1. row \in Lot /\ row.proc \in 0..np
        BY DEF LotRow
      <4>. QED
        BY <4>1 DEF WriteSource, Lot
    <3>. QED
      BY <3>1, <3>2, IsLotRow
  <2>. QED
    BY <2>2 DEF AfterEntry
<1>3. ASSUME NEW l \in DOMAIN lots
      PROVE  AfterIssue(req, p, l) \in LotRow(np)
  <2>1. lots[l] \in LotRow(np)
    BY DEF TablesOK, LotRow
  <2>2. AfterEntry(lots[l], l, req[1], p) \in LotRow(np)
    BY <1>1, <1>2, <2>1
  <2>. QED
    BY <1>1, <1>2, <2>2 DEF AfterIssue
<1>. QED
  BY <1>3

LEMMA NewIssueRow ==
    ASSUME TablesOK, NEW req \in Requests, NEW k \in DOMAIN req, NEW p \in Nat,
           NEW nl \in Nat, NEW np \in Nat, p <= np, ProcessLot(req, k, p) \in 1..nl
    PROVE  NewIssue(req, k, p) \in IssueRow(nl, np)
<1>1. req[k] \in Entries
  BY RequestFacts
<1>2. req[k].lot \in Nat /\ req[k].qty \in Nat /\ req[k].qty # 0
  BY <1>1, EntryFacts DEF TablesOK
<1>. QED
  BY <1>2 DEF NewIssue, IssueRow, Issue

LEMMA BiscuitRow ==
    ASSUME TablesOK, NEW t \in Types, NEW req \in Requests, NEW p \in Nat,
           NEW np \in Nat, p <= np
    PROVE  createGrowthRun(t, req, p) \in Seq(LotRow(np))
<1>1. /\ Len(req) \in {1, 2} /\ req[1].qty \in Nat /\ (Len(req) = 2 => req[2].qty \in Nat)
  BY RequestFacts, EntryFacts
<1>. DEFINE row == [kind |-> "growth_run", status |-> "IN PROCESS",
                    qty |-> req[1].qty + (IF Len(req) = 2 THEN req[2].qty ELSE 0),
                    proc |-> p, outputs |-> 0]
<1>2. row.qty \in Nat
  BY <1>1
<1>3. row \in LotRow(np)
  <2>1. row \in Lot
    BY <1>2 DEF Lot, LotStatuses
  <2>2. row.proc \in 0..np
    OBVIOUS
  <2>. QED
    BY <2>1, <2>2, IsLotRow
<1>4. createGrowthRun(t, req, p) = <<row>> \/ createGrowthRun(t, req, p) = <<>>
  BY DEF createGrowthRun
<1>. HIDE DEF row
<1>5. <<row>> \in Seq(LotRow(np)) /\ <<>> \in Seq(LotRow(np))
  BY <1>3
<1>. QED
  BY <1>4, <1>5

LEMMA IssueToMachineOK ==
    ASSUME IInv, NEW m \in Machines, NEW t \in Types, NEW req \in Requests,
           IssueToMachine(m, t, req)
    PROVE  IInv'
<1>. DEFINE p == Len(procs) + 1
            inserted == Children(req, p) \o createGrowthRun(t, req, p)
            source == [l \in DOMAIN lots |-> AfterIssue(req, p, l)]
            more == [k \in DOMAIN req |-> NewIssue(req, k, p)]
            row == [machine |-> m, type |-> t, status |-> "running",
                    loaded |-> {ProcessLot(req, k, p) : k \in DOMAIN req}]
<1>1. TablesOK /\ p \in Nat /\ Len(lots) \in Nat /\ DOMAIN lots = 1..Len(lots)
  BY DEF IInv, TablesOK
<1>2. Len(req) \in Nat /\ DOMAIN req = 1..Len(req)
  BY RequestFacts
<1>3. /\ procs' = Append(procs, row)
      /\ issues' = issues \o more
      /\ lots' = source \o inserted
      /\ machines' = [machines EXCEPT ![m] = "running"]
      /\ UNCHANGED <<scrapped, sess>>
      /\ \A k \in DOMAIN req : Issuable(req[k])
  BY DEF IssueToMachine
<1>4. /\ Children(req, p) \in Seq(LotRow(p))
      /\ \A k \in DOMAIN req :
            ProcessLot(req, k, p) \in 1..(Len(lots) + Len(Children(req, p)))
  BY <1>1, ChildrenRows
<1>5. createGrowthRun(t, req, p) \in Seq(LotRow(p))
  BY <1>1, BiscuitRow
<1>6. inserted \in Seq(LotRow(p)) /\ Len(Children(req, p)) <= Len(inserted)
  BY <1>4, <1>5
<1>7. source \in Seq(LotRow(p)) /\ Len(source) = Len(lots)
  <2>1. source \in [1..Len(lots) -> LotRow(p)]
    <3>1. Len(procs) \in Nat /\ Len(procs) <= p /\ p <= p
      BY DEF IInv, TablesOK
    <3>2. source \in [DOMAIN lots -> LotRow(p)]
      BY <1>1, <1>3, <3>1, SourceRow
    <3>. QED
      BY <1>1, <3>2
  <2>. HIDE DEF source
  <2>. QED
    BY <1>1, <2>1, RewriteRows
<1>8. row \in Proc
  <2>1. {ProcessLot(req, k, p) : k \in DOMAIN req} \in SUBSET Nat
    BY <1>1, <1>4
  <2>. QED
    BY <2>1 DEF Proc, ProcStatuses
<1>9. /\ procs' \in Seq(Proc) /\ Len(procs') = p /\ DOMAIN procs' = DOMAIN procs \cup {p}
      /\ procs'[p] = row /\ \A q \in DOMAIN procs : procs'[q] = procs[q]
  <2>. HIDE DEF row
  <2>. QED
    BY <1>3, <1>8, AppendRow DEF IInv, TablesOK
<1>10. lots' \in Seq(LotRow(p)) /\ Len(lots') = Len(lots) + Len(inserted)
  <2>1. source \in Seq(LotRow(p)) /\ inserted \in Seq(LotRow(p)) /\ Len(source) = Len(lots)
    BY <1>6, <1>7
  <2>2. lots' = source \o inserted
    BY <1>3
  <2>. HIDE DEF source, inserted, p
  <2>3. /\ source \o inserted \in Seq(LotRow(p))
        /\ Len(source \o inserted) = Len(source) + Len(inserted)
    BY <2>1
  <2>. QED
    BY <2>1, <2>2, <2>3
<1>11. more \in Seq(IssueRow(Len(lots'), p))
  <2>1. ASSUME NEW k \in DOMAIN req
        PROVE  NewIssue(req, k, p) \in IssueRow(Len(lots'), p)
    <3>1. ProcessLot(req, k, p) \in 1..Len(lots') /\ Len(lots') \in Nat
      BY <1>1, <1>4, <1>6, <1>10
    <3>. QED
      BY <1>1, <3>1, NewIssueRow
  <2>. QED
    BY <1>2, <2>1, RewriteRows
<1>12. issues \in Seq(IssueRow(Len(lots'), p))
  <2>1. /\ Len(procs) \in Nat /\ Len(procs) <= p
        /\ Len(lots') \in Nat /\ Len(lots) <= Len(lots')
    BY <1>1, <1>6, <1>10 DEF TablesOK
  <2>2. Seq(IssueRow(Len(lots), Len(procs))) \subseteq Seq(IssueRow(Len(lots'), p))
    BY <1>1, <2>1, RowsMonotone
  <2>. QED
    BY <1>1, <2>2 DEF TablesOK
<1>13. /\ issues' \in Seq(IssueRow(Len(lots'), p))
       /\ DOMAIN issues \subseteq DOMAIN issues'
       /\ \A i \in DOMAIN issues : issues'[i] = issues[i]
       /\ \A i \in DOMAIN issues' \ DOMAIN issues : issues'[i].proc = p
  <2>1. \A k \in DOMAIN more : more[k].proc = p
    BY DEF NewIssue
  <2>. HIDE DEF more
  <2>. QED
    BY <1>3, <1>11, <1>12, <2>1, InsertRows
<1>14. TablesOK'
  <2>1. machines' \in [Machines -> MachineStatuses]
    BY <1>1, <1>3 DEF TablesOK, MachineStatuses
  <2>. QED
    BY <1>1, <1>3, <1>9, <1>10, <1>13, <2>1 DEF TablesOK
<1>15. IssuesStep /\ ProcsStep
  BY <1>1, <1>9, <1>13 DEF IssuesStep, ProcsStep, TablesOK
<1>16. DOMAIN lots \subseteq DOMAIN lots'
  BY <1>1, <1>6, <1>10
<1>17. \A s \in Sessions : sess[s].op = "return" => issues'[sess[s].issue] = issues[sess[s].issue]
  BY <1>13 DEF IInv, SessionOK, ReturnOK
<1>18. (\A s \in Sessions : SessionOK(s)') /\ OneReturnPerIssue'
  BY <1>1, <1>3, <1>15, <1>16, <1>17, SessionsEnd DEF TablesOK
<1>19. (NoRoughOutput => CompletedMeansReturned)'
  <2>1. procs'[p].status # "completed"
    BY <1>9
  <2>. QED
    BY <1>9, <1>15, <2>1, CompletedKeeps
<1>. QED
  BY <1>14, <1>18, <1>19 DEF IInv

LEMMA HandIssueOK ==
    ASSUME IInv, NEW e \in Entries, HandIssue(e)
    PROVE  IInv'
<1>. DEFINE req == <<e>>
            np == Len(procs)
            source == [l \in DOMAIN lots |-> AfterIssue(req, 0, l)]
            row == NewIssue(req, 1, 0)
<1>1. TablesOK /\ np \in Nat /\ Len(lots) \in Nat /\ DOMAIN lots = 1..Len(lots)
  BY DEF IInv, TablesOK
<1>2. /\ issues' = Append(issues, row)
      /\ lots' = source \o ChildOf(e, 0)
      /\ UNCHANGED <<procs, machines, scrapped, sess>>
      /\ Issuable(e)
  BY DEF HandIssue
<1>3. req \in Requests /\ Len(req) = 1 /\ DOMAIN req = {1} /\ req[1] = e
  BY DEF Requests
<1>4. ChildOf(e, 0) \in Seq(LotRow(np)) /\ Len(ChildOf(e, 0)) \in Nat
  BY <1>1, ChildRow
<1>5. ProcessLot(req, 1, 0) \in 1..(Len(lots) + Len(ChildOf(e, 0)))
  <2>1. Children(req, 0) = ChildOf(e, 0)
    BY <1>3, <1>4 DEF Children
  <2>. QED
    BY <1>1, <1>3, <2>1, ChildrenRows
<1>6. source \in Seq(LotRow(np)) /\ Len(source) = Len(lots)
  <2>1. source \in [DOMAIN lots -> LotRow(np)]
    BY <1>1, <1>2, <1>3, SourceRow
  <2>. HIDE DEF source
  <2>. QED
    BY <1>1, <2>1, RewriteRows
<1>7. lots' \in Seq(LotRow(np)) /\ Len(lots') = Len(lots) + Len(ChildOf(e, 0))
  <2>. HIDE DEF source, np
  <2>1. /\ source \o ChildOf(e, 0) \in Seq(LotRow(np))
        /\ Len(source \o ChildOf(e, 0)) = Len(source) + Len(ChildOf(e, 0))
    BY <1>4, <1>6
  <2>. QED
    BY <1>2, <1>6, <2>1
<1>8. row \in IssueRow(Len(lots'), np) /\ row.proc = 0
  <2>1. ProcessLot(req, 1, 0) \in 1..Len(lots') /\ Len(lots') \in Nat
    BY <1>1, <1>4, <1>5, <1>7
  <2>2. row \in IssueRow(Len(lots'), np)
    BY <1>1, <1>3, <2>1, NewIssueRow
  <2>. QED
    BY <2>2 DEF NewIssue
<1>9. issues \in Seq(IssueRow(Len(lots'), np))
  <2>1. Len(lots') \in Nat /\ Len(lots) <= Len(lots') /\ np <= np
    BY <1>1, <1>4, <1>7
  <2>. QED
    BY <1>1, <2>1, RowsMonotone DEF TablesOK
<1>10. /\ issues' \in Seq(IssueRow(Len(lots'), np))
       /\ DOMAIN issues \subseteq DOMAIN issues'
       /\ \A i \in DOMAIN issues : issues'[i] = issues[i]
       /\ \A i \in DOMAIN issues' \ DOMAIN issues : issues'[i].proc = 0
  <2>. HIDE DEF row
  <2>. QED
    BY <1>2, <1>8, <1>9, AppendRow
<1>11. TablesOK'
  BY <1>1, <1>2, <1>7, <1>10 DEF TablesOK
<1>12. IssuesStep /\ ProcsStep
  <2>1. 0 \notin DOMAIN procs
    BY <1>1 DEF TablesOK
  <2>. QED
    BY <1>2, <1>10, <2>1 DEF IssuesStep, ProcsStep
<1>13. DOMAIN lots \subseteq DOMAIN lots'
  BY <1>1, <1>4, <1>7
<1>14. \A s \in Sessions : sess[s].op = "return" => issues'[sess[s].issue] = issues[sess[s].issue]
  BY <1>10 DEF IInv, SessionOK, ReturnOK
<1>15. (\A s \in Sessions : SessionOK(s)') /\ OneReturnPerIssue'
  BY <1>1, <1>2, <1>12, <1>13, <1>14, SessionsEnd DEF TablesOK
<1>16. (NoRoughOutput => CompletedMeansReturned)'
  BY <1>2, <1>12, CompletedKeeps
<1>. QED
  BY <1>11, <1>15, <1>16 DEF IInv

-----------------------------------------------------------------------------
(* Steps that write processes and machines only.                           *)

LEMMA ProcsRewritten ==
    ASSUME IInv, UNCHANGED <<lots, issues, scrapped>>,
           machines' \in [Machines -> MachineStatuses],
           procs' \in Seq(Proc), DOMAIN procs \subseteq DOMAIN procs',
           \A p \in DOMAIN procs : procs'[p].type = procs[p].type,
           sess' \in [Sessions -> Session],
           \A t \in Sessions : sess'[t] = Idle \/ sess'[t] = sess[t],
           \A p \in DOMAIN procs' : procs'[p].status = "completed" =>
               /\ p \in DOMAIN procs
               /\ procs[p].status = "completed" \/ IsGrowth(procs[p].type) \/ ~Unreturned(p)
    PROVE  IInv'
<1>1. IssuesStep /\ ProcsStep /\ DOMAIN lots \subseteq DOMAIN lots'
  BY DEF IssuesStep, ProcsStep
<1>2. Len(lots) \in Nat /\ Len(procs) \in Nat /\ Len(procs') \in Nat /\ Len(procs) <= Len(procs')
  BY DEF IInv, TablesOK
<1>3. TablesOK'
  BY <1>2, RowsMonotone DEF IInv, TablesOK
<1>4. (\A t \in Sessions : SessionOK(t)') /\ OneReturnPerIssue'
  BY <1>1, SessionsEnd
<1>5. (NoRoughOutput => CompletedMeansReturned)'
  <2>1. \A p : ~Unreturned(p) => ~Unreturned(p)'
    BY DEF Unreturned
  <2>. QED
    BY <1>1, <2>1, CompletedKeeps
<1>. QED
  BY <1>3, <1>4, <1>5 DEF IInv

LEMMA SetMachineStatusOK ==
    ASSUME IInv, NEW m \in Machines, NEW st \in PanelStatuses, SetMachineStatus(m, st)
    PROVE  IInv'
<1>1. machines' \in [Machines -> MachineStatuses]
  <2>1. st \in MachineStatuses
    BY ShopFloorAssumption DEF MachineStatuses
  <2>. QED
    BY <2>1 DEF SetMachineStatus, IInv, TablesOK
<1>. DEFINE cancelled == [p \in DOMAIN procs |->
                            IF procs[p].machine = m /\ Active(p)
                            THEN [procs[p] EXCEPT !.status = "cancelled"] ELSE procs[p]]
<1>2. procs' = cancelled \/ procs' = procs
  BY DEF SetMachineStatus
<1>3. /\ Len(procs) \in Nat /\ DOMAIN procs = 1..Len(procs)
      /\ \A p \in DOMAIN procs : procs[p] \in Proc
  BY DEF IInv, TablesOK
<1>4. \A p \in DOMAIN procs :
        /\ cancelled[p] \in Proc
        /\ cancelled[p].type = procs[p].type
        /\ cancelled[p].status = "completed" => procs[p].status = "completed"
  BY <1>3 DEF Proc, ProcStatuses
<1>5. cancelled \in Seq(Proc) /\ DOMAIN cancelled = DOMAIN procs
  <2>1. cancelled \in [1..Len(procs) -> Proc]
    BY <1>3, <1>4
  <2>. HIDE DEF cancelled
  <2>. QED
    BY <1>3, <2>1, RewriteRows
<1>6. sess' \in [Sessions -> Session] /\ UNCHANGED <<sess, lots, issues, scrapped>>
  BY DEF SetMachineStatus, IInv, TablesOK
<1>7. procs' \in Seq(Proc) /\ DOMAIN procs' = DOMAIN procs
  BY <1>2, <1>5 DEF IInv, TablesOK
<1>8. \A p \in DOMAIN procs : /\ procs'[p].type = procs[p].type
                              /\ procs'[p].status = "completed" => procs[p].status = "completed"
  BY <1>2, <1>4
<1>. QED
  BY <1>1, <1>6, <1>7, <1>8, ProcsRewritten

LEMMA FinishStartOK ==
    ASSUME IInv, NEW s \in Sessions, FinishStart(s)
    PROVE  IInv'
<1>. DEFINE row == [machine |-> sess[s].machine, type |-> sess[s].type,
                    status |-> "running", loaded |-> sess[s].loaded]
<1>1. sess[s] \in Session /\ sess[s].op = "start"
  BY DEF FinishStart, IInv, TablesOK
<1>2. sess[s].machine \in Machines /\ row \in Proc
  BY <1>1 DEF Session, Idle, Proc, ProcStatuses
<1>3. /\ sess' \in [Sessions -> Session]
      /\ \A t \in Sessions : sess'[t] = Idle \/ sess'[t] = sess[t]
  BY EndSession DEF FinishStart, IInv, TablesOK
<1>4. procs' = Append(procs, row) /\ UNCHANGED <<lots, issues, scrapped>>
  BY DEF FinishStart
<1>5. machines' \in [Machines -> MachineStatuses]
  BY <1>2 DEF FinishStart, IInv, TablesOK, MachineStatuses
<1>6. row.status = "running"
  OBVIOUS
<1>7. /\ procs' \in Seq(Proc)
      /\ DOMAIN procs' = DOMAIN procs \cup {Len(procs) + 1}
      /\ \A p \in DOMAIN procs : procs'[p] = procs[p]
      /\ procs'[Len(procs) + 1].status = "running"
  <2>. HIDE DEF row
  <2>. QED
    BY <1>2, <1>4, <1>6, AppendRow DEF IInv, TablesOK
<1>. QED
  BY <1>3, <1>4, <1>5, <1>7, ProcsRewritten

LEMMA FinishHoldResumeOK ==
    ASSUME IInv, NEW s \in Sessions, FinishHoldResume(s)
    PROVE  IInv'
<1>. DEFINE p == sess[s].proc
            status == IF sess[s].op = "hold" THEN "hold" ELSE "running"
            row == [procs[p] EXCEPT !.status = status]
<1>1. p \in DOMAIN procs
  BY DEF FinishHoldResume, IInv, SessionOK, ByProcess
<1>2. procs[p] \in Proc
  BY <1>1 DEF IInv, TablesOK
<1>3. row \in Proc /\ row.type = procs[p].type /\ row.status # "completed"
  BY <1>2 DEF Proc, ProcStatuses
<1>4. /\ sess' \in [Sessions -> Session]
      /\ \A t \in Sessions : sess'[t] = Idle \/ sess'[t] = sess[t]
  BY EndSession DEF FinishHoldResume, IInv, TablesOK
<1>5. procs' = [procs EXCEPT ![p] = row] /\ UNCHANGED <<lots, issues, scrapped>>
  BY DEF FinishHoldResume
<1>6. machines' \in [Machines -> MachineStatuses]
  BY <1>2 DEF FinishHoldResume, IInv, TablesOK, MachineStatuses, Proc
<1>7. /\ procs' \in Seq(Proc) /\ DOMAIN procs' = DOMAIN procs
      /\ procs'[p] = row
      /\ \A q \in DOMAIN procs \ {p} : procs'[q] = procs[q]
  <2>. HIDE DEF row, p
  <2>. QED
    BY <1>1, <1>3, <1>5, UpdateRow DEF IInv, TablesOK
<1>8. \A q \in DOMAIN procs : /\ procs'[q].type = procs[q].type
                              /\ procs'[q].status = "completed" => procs[q].status = "completed"
  BY <1>3, <1>7
<1>. QED
  BY <1>4, <1>5, <1>6, <1>7, <1>8, ProcsRewritten

-----------------------------------------------------------------------------
(* Steps that write lots and complete a process.                           *)

(* The rows of lots are rewritten in place, and the process p completes.   *)
LEMMA ProcessCompleted ==
    ASSUME IInv, UNCHANGED <<issues, scrapped>>,
           NEW p \in DOMAIN procs,
           procs' = [procs EXCEPT ![p].status = "completed"],
           machines' = [machines EXCEPT ![procs[p].machine] = "idle"],
           lots' \in Seq(LotRow(Len(procs))), Len(lots') = Len(lots),
           sess' \in [Sessions -> Session],
           \A t \in Sessions : sess'[t] = Idle \/ sess'[t] = sess[t],
           ~NoRoughOutput \/ IsGrowth(procs[p].type) \/ ~Unreturned(p)
    PROVE  IInv'
<1>. DEFINE row == [procs[p] EXCEPT !.status = "completed"]
<1>1. procs[p] \in Proc
  BY DEF IInv, TablesOK
<1>2. row \in Proc /\ row.type = procs[p].type
  BY <1>1 DEF Proc, ProcStatuses
<1>3. procs' = [procs EXCEPT ![p] = row]
  OBVIOUS
<1>4. /\ procs' \in Seq(Proc) /\ DOMAIN procs' = DOMAIN procs /\ Len(procs') = Len(procs)
      /\ procs'[p] = row
      /\ \A q \in DOMAIN procs \ {p} : procs'[q] = procs[q]
  <2>1. procs \in Seq(Proc)
    BY DEF IInv, TablesOK
  <2>. HIDE DEF row
  <2>2. /\ [procs EXCEPT ![p] = row] \in Seq(Proc)
        /\ DOMAIN [procs EXCEPT ![p] = row] = DOMAIN procs
        /\ Len([procs EXCEPT ![p] = row]) = Len(procs)
        /\ [procs EXCEPT ![p] = row][p] = row
        /\ \A q \in DOMAIN procs \ {p} : [procs EXCEPT ![p] = row][q] = procs[q]
    BY <1>2, <2>1, UpdateRow
  <2>. QED
    BY <1>3, <2>2
<1>5. machines' \in [Machines -> MachineStatuses]
  BY <1>1 DEF IInv, TablesOK, MachineStatuses, Proc
<1>6. TablesOK'
  BY <1>4, <1>5 DEF IInv, TablesOK
<1>7. IssuesStep /\ ProcsStep
  BY <1>2, <1>4 DEF IssuesStep, ProcsStep
<1>8. DOMAIN lots \subseteq DOMAIN lots'
  BY DEF IInv, TablesOK
<1>9. (\A t \in Sessions : SessionOK(t)') /\ OneReturnPerIssue'
  BY <1>7, <1>8, SessionsEnd
<1>10. (NoRoughOutput => CompletedMeansReturned)'
  <2>1. CASE ~NoRoughOutput
    BY <2>1 DEF NoRoughOutput
  <2>2. CASE NoRoughOutput
    <3>1. \A q : ~Unreturned(q) => ~Unreturned(q)'
      BY DEF Unreturned
    <3>2. ASSUME NEW q \in DOMAIN procs', procs'[q].status = "completed"
          PROVE  /\ q \in DOMAIN procs
                 /\ procs[q].status = "completed" \/ IsGrowth(procs[q].type) \/ ~Unreturned(q)'
      BY <1>4, <2>2, <3>1, <3>2
    <3>. QED
      BY <1>7, <3>2, CompletedKeeps
  <2>. QED
    BY <2>1, <2>2
<1>. QED
  BY <1>6, <1>9, <1>10 DEF IInv

LEMMA FinishCompleteOK ==
    ASSUME IInv, NEW s \in Sessions, FinishComplete(s)
    PROVE  IInv'
<1>. DEFINE p == sess[s].proc
            after == [l \in DOMAIN lots |-> AfterGrowth(lots[l], p)]
<1>1. p \in DOMAIN procs /\ (IsGrowth(procs[p].type) \/ ~Unreturned(p))
  BY DEF FinishComplete, IInv, SessionOK, ByProcess
<1>2. lots' = after \/ lots' = lots
  BY DEF FinishComplete
<1>3. /\ Len(lots) \in Nat /\ DOMAIN lots = 1..Len(lots)
      /\ \A l \in DOMAIN lots : lots[l] \in LotRow(Len(procs))
  BY DEF IInv, TablesOK
<1>4. ASSUME NEW l \in DOMAIN lots
      PROVE  AfterGrowth(lots[l], p) \in LotRow(Len(procs))
  <2>1. lots[l] \in Lot /\ lots[l].proc \in 0..Len(procs)
    BY <1>3 DEF LotRow
  <2>2. AfterGrowth(lots[l], p) \in Lot
    BY <2>1 DEF AfterGrowth, Lot, LotStatuses
  <2>3. AfterGrowth(lots[l], p).proc \in 0..Len(procs)
    BY <2>1 DEF AfterGrowth, Lot
  <2>. QED
    BY <2>2, <2>3, IsLotRow
<1>5. after \in Seq(LotRow(Len(procs))) /\ Len(after) = Len(lots)
  <2>1. after \in [1..Len(lots) -> LotRow(Len(procs))]
    BY <1>3, <1>4
  <2>. HIDE DEF after
  <2>. QED
    BY <1>3, <2>1, RewriteRows
<1>6. lots' \in Seq(LotRow(Len(procs))) /\ Len(lots') = Len(lots)
  BY <1>2, <1>5 DEF IInv, TablesOK
<1>7. /\ sess' \in [Sessions -> Session]
      /\ \A t \in Sessions : sess'[t] = Idle \/ sess'[t] = sess[t]
  BY EndSession DEF FinishComplete, IInv, TablesOK
<1>8. /\ procs' = [procs EXCEPT ![p].status = "completed"]
      /\ machines' = [machines EXCEPT ![procs[p].machine] = "idle"]
      /\ UNCHANGED <<issues, scrapped>>
  BY DEF FinishComplete
<1>. QED
  BY <1>1, <1>6, <1>7, <1>8, ProcessCompleted

LEMMA RoughOutputOK ==
    ASSUME IInv, NEW b \in DOMAIN lots, NEW p \in {0} \cup DOMAIN procs, RoughOutput(b, p),
           ~NoRoughOutput,
           sess' \in [Sessions -> Session],
           \A t \in Sessions : sess'[t] = Idle \/ sess'[t] = sess[t]
    PROVE  IInv'
<1>. DEFINE row == [lots[b] EXCEPT !.status = "CONSUMED", !.qty = 0, !.outputs = @ + 1]
<1>1. lots[b] \in Lot /\ lots[b].proc \in 0..Len(procs)
  BY DEF IInv, TablesOK, LotRow
<1>2. row \in LotRow(Len(procs))
  <2>1. row.proc = lots[b].proc
    BY <1>1 DEF Lot
  <2>2. row \in Lot
    <3>1. lots[b].outputs + 1 \in Nat
      BY <1>1 DEF Lot
    <3>. QED
      BY <1>1, <3>1 DEF Lot, LotStatuses
  <2>. HIDE DEF row
  <2>. QED
    BY <1>1, <2>1, <2>2, IsLotRow
<1>3. lots' = [lots EXCEPT ![b] = row]
  BY DEF RoughOutput
<1>4. lots' \in Seq(LotRow(Len(procs))) /\ Len(lots') = Len(lots)
  <2>. HIDE DEF row
  <2>. QED
    BY <1>2, <1>3, UpdateRow DEF IInv, TablesOK
<1>5. UNCHANGED <<issues, scrapped>>
  BY DEF RoughOutput
<1>6. CASE p \in DOMAIN procs
  <2>1. p # 0
    BY <1>6 DEF IInv, TablesOK
  <2>2. /\ procs' = [procs EXCEPT ![p].status = "completed"]
        /\ machines' = [machines EXCEPT ![procs[p].machine] = "idle"]
    BY <2>1 DEF RoughOutput
  <2>. QED
    BY <1>4, <1>5, <1>6, <2>2, ProcessCompleted
<1>7. CASE p = 0
  <2>1. UNCHANGED <<procs, machines>>
    BY <1>7 DEF RoughOutput
  <2>2. IssuesStep /\ ProcsStep
    BY <1>5, <2>1 DEF IssuesStep, ProcsStep
  <2>3. TablesOK' /\ DOMAIN lots \subseteq DOMAIN lots'
    BY <1>4, <1>5, <2>1 DEF IInv, TablesOK
  <2>4. (\A t \in Sessions : SessionOK(t)') /\ OneReturnPerIssue'
    BY <1>5, <2>2, <2>3, SessionsEnd
  <2>. QED
    BY <2>3, <2>4 DEF IInv, NoRoughOutput
<1>. QED
  BY <1>6, <1>7

LEMMA PostOutputOK ==
    ASSUME IInv, NEW b \in DOMAIN lots, PostOutput(b)
    PROVE  IInv'
<1>1. lots[b].proc \in {0} \cup DOMAIN procs
  BY DEF IInv, TablesOK, LotRow
<1>2. ~NoRoughOutput
  BY DEF PostOutput, NoRoughOutput
<1>3. UNCHANGED sess /\ sess \in [Sessions -> Session]
  BY DEF PostOutput, IInv, TablesOK
<1>. QED
  BY <1>1, <1>2, <1>3, RoughOutputOK DEF PostOutput

LEMMA FinishOutputOK ==
    ASSUME IInv, NEW s \in Sessions, FinishOutput(s)
    PROVE  IInv'
<1>1. sess[s].biscuit \in DOMAIN lots /\ sess[s].proc \in DOMAIN procs /\ ~NoRoughOutput
  BY DEF FinishOutput, IInv, SessionOK, ByProcess, NoRoughOutput
<1>2. /\ sess' \in [Sessions -> Session]
      /\ \A t \in Sessions : sess'[t] = Idle \/ sess'[t] = sess[t]
  BY EndSession DEF FinishOutput, IInv, TablesOK
<1>. QED
  BY <1>1, <1>2, RoughOutputOK DEF FinishOutput

-----------------------------------------------------------------------------
(* The COMMIT of a return.                                                 *)

LEMMA ReturnedLotRow ==
    ASSUME NEW np \in Nat, NEW row \in LotRow(np), NEW r \in Session,
           r.op = "return", Total(r.lines) > 0
    PROVE  ReturnedRow(row, r) \in LotRow(np)
<1>1. row \in Lot /\ row.proc \in 0..np
  BY DEF LotRow
<1>2. r.lines \in Lines
  BY DEF Session, Idle
<1>3. \E d \in DOMAIN r.lines : r.lines[d] > 0
  <2>1. DOMAIN r.lines = {"usable", "damaged", "consumed"}
    BY <1>2 DEF Lines
  <2>2. \A d \in DOMAIN r.lines : r.lines[d] \in Nat
    BY <1>2, ShopFloorAssumption DEF Lines
  <2>. QED
    BY <2>1, <2>2 DEF Total
<1>. DEFINE d == CHOOSE x \in DOMAIN r.lines : r.lines[x] > 0
<1>4. d \in {"usable", "damaged", "consumed"}
  <2>1. d \in DOMAIN r.lines
    BY <1>3
  <2>. QED
    BY <1>2, <2>1 DEF Lines
<1>5. TypeStatus[d] \in LotStatuses
  <2>. HIDE DEF d
  <2>. QED
    BY <1>4 DEF TypeStatus, LotStatuses
<1>6. ReturnedRow(row, r) \in Lot
  <2>1. \/ ReturnedRow(row, r) = row
        \/ ReturnedRow(row, r) = [row EXCEPT !.status = "CONSUMED", !.qty = 0]
        \/ ReturnedRow(row, r) = [row EXCEPT !.status = TypeStatus[d]]
    BY DEF ReturnedRow
  <2>2. [row EXCEPT !.status = "CONSUMED", !.qty = 0] \in Lot
    BY <1>1 DEF Lot, LotStatuses
  <2>3. ASSUME NEW st \in LotStatuses
        PROVE  [row EXCEPT !.status = st] \in Lot
    BY <1>1 DEF Lot
  <2>4. [row EXCEPT !.status = TypeStatus[d]] \in Lot
    BY <1>5, <2>3
  <2>. QED
    BY <1>1, <2>1, <2>2, <2>4
<1>7. ReturnedRow(row, r).proc = row.proc
  BY <1>1 DEF ReturnedRow, Lot
<1>. QED
  BY <1>1, <1>6, <1>7, IsLotRow

LEMMA ReturnLotRows ==
    ASSUME NEW np \in Nat, NEW row \in Lot, NEW r \in Session, r.op = "return"
    PROVE  ReturnLots(row, r) \in Seq(LotRow(np)) /\ Len(ReturnLots(row, r)) \in Nat
<1>. DEFINE new == [kind |-> row.kind, status |-> "IN STOCK", qty |-> r.lines["usable"],
                    proc |-> 0, outputs |-> 0]
<1>1. r.lines["usable"] \in Nat
  BY ShopFloorAssumption DEF Session, Idle, Lines
<1>2. new \in Lot
  BY <1>1 DEF Lot, LotStatuses
<1>3. new.proc \in 0..np
  OBVIOUS
<1>4. ReturnLots(row, r) = <<new>> \/ ReturnLots(row, r) = <<>>
  BY DEF ReturnLots
<1>. HIDE DEF new
<1>5. new \in LotRow(np)
  BY <1>2, <1>3, IsLotRow
<1>6. <<new>> \in Seq(LotRow(np)) /\ <<>> \in Seq(LotRow(np))
  BY <1>5
<1>. QED
  BY <1>4, <1>6

LEMMA FinishReturnOK ==
    ASSUME IInv, NEW s \in Sessions, FinishReturn(s)
    PROVE  IInv'
<1>. DEFINE r == sess[s]
            i == r.issue
            l == issues[i].lot
            p == issues[i].proc
            closes == r.last /\ Closable(p)
            awaits == closes /\ OutputBased(procs[p].type)
            settled == [lots EXCEPT ![l] = ReturnedRow(@, r)]
            advanced == [x \in DOMAIN lots |-> advanceGrowthRunToStock(settled[x], p)]
            after == IF awaits THEN advanced ELSE settled
            row == [issues[i] EXCEPT !.remaining = r.remaining,
                                     !.returned = @ + Total(r.lines),
                                     !.status = IF r.remaining = 0 THEN "RETURNED" ELSE "OPEN"]
            done == [procs[p] EXCEPT !.status = "completed"]
            np == Len(procs)
<1>1. r \in Session /\ r.op = "return" /\ ReturnOK(s) /\ TablesOK
  BY DEF FinishReturn, IInv, TablesOK, SessionOK
<1>2. /\ i \in DOMAIN issues /\ issues[i].status = "OPEN"
      /\ issues[i].remaining = r.remaining + Total(r.lines)
      /\ Total(r.lines) > 0
      /\ r.last => r.remaining = 0 /\ NoOpenSibling(i)
  BY <1>1 DEF ReturnOK
<1>3. issues[i] \in IssueRow(Len(lots), np)
  BY <1>1, <1>2 DEF TablesOK
<1>4. l \in DOMAIN lots /\ p \in 0..np /\ np \in Nat /\ Len(lots) \in Nat
  BY <1>1, <1>3 DEF IssueRow, TablesOK
<1>5. r.remaining \in Nat /\ Total(r.lines) \in Nat
  BY <1>1, TotalNat DEF Session, Idle
<1>6. row \in IssueRow(Len(lots), np) /\ row.proc = p /\ row.lot = l
  <2>1. /\ issues[i] \in Issue
        /\ issues[i].issued = issues[i].remaining + issues[i].returned
    BY <1>3 DEF IssueRow
  <2>2. /\ row.lot = l /\ row.proc = p /\ row.issued = issues[i].issued
        /\ row.remaining = r.remaining
        /\ row.returned = issues[i].returned + Total(r.lines)
        /\ row.status = IF r.remaining = 0 THEN "RETURNED" ELSE "OPEN"
    BY <2>1 DEF Issue
  <2>3. issues[i].returned + Total(r.lines) \in Nat
    BY <1>5, <2>1 DEF Issue
  <2>4. row \in Issue
    BY <1>5, <2>1, <2>3 DEF Issue
  <2>5. row.issued = row.remaining + row.returned
    BY <1>2, <1>5, <2>1, <2>2 DEF Issue
  <2>6. row.status = "RETURNED" <=> row.remaining = 0
    BY <2>2
  <2>7. row.lot \in 1..Len(lots) /\ row.proc \in 0..np
    BY <1>1, <1>4, <2>2 DEF TablesOK
  <2>. HIDE DEF row
  <2>. QED
    BY <2>2, <2>4, <2>5, <2>6, <2>7 DEF IssueRow
<1>7. issues' = [issues EXCEPT ![i] = row]
  BY DEF FinishReturn
<1>8. /\ issues' \in Seq(IssueRow(Len(lots), np))
      /\ DOMAIN issues' = DOMAIN issues
      /\ issues'[i] = row
      /\ \A j \in DOMAIN issues \ {i} : issues'[j] = issues[j]
  <2>1. issues \in Seq(IssueRow(Len(lots), np))
    BY <1>1 DEF TablesOK
  <2>. HIDE DEF row, i, np
  <2>2. /\ [issues EXCEPT ![i] = row] \in Seq(IssueRow(Len(lots), np))
        /\ DOMAIN [issues EXCEPT ![i] = row] = DOMAIN issues
        /\ [issues EXCEPT ![i] = row][i] = row
        /\ \A j \in DOMAIN issues \ {i} : [issues EXCEPT ![i] = row][j] = issues[j]
    BY <1>2, <1>6, <2>1, UpdateRow
  <2>. QED
    BY <1>7, <2>2
<1>9. closes => p \in DOMAIN procs
  BY <1>2, <1>4 DEF NoOpenSibling
<1>10. settled \in Seq(LotRow(np)) /\ Len(settled) = Len(lots) /\ DOMAIN settled = DOMAIN lots
  <2>1. lots[l] \in LotRow(np) /\ lots \in Seq(LotRow(np))
    BY <1>1, <1>4 DEF TablesOK
  <2>2. ReturnedRow(lots[l], r) \in LotRow(np)
    BY <1>1, <1>2, <1>4, <2>1, ReturnedLotRow
  <2>. HIDE DEF np, l, r
  <2>. QED
    BY <1>4, <2>1, <2>2, UpdateRow
<1>11. advanced \in Seq(LotRow(np)) /\ Len(advanced) = Len(lots)
  <2>1. ASSUME NEW x \in DOMAIN lots
        PROVE  advanceGrowthRunToStock(settled[x], p) \in LotRow(np)
    <3>. DEFINE old == settled[x]
    <3>1. old \in LotRow(np)
      <4>. HIDE DEF settled, np
      <4>. QED
        BY <1>10
    <3>. HIDE DEF settled, old, np
    <3>2. old \in Lot /\ old.proc \in 0..np
      BY <3>1 DEF LotRow
    <3>3. advanceGrowthRunToStock(old, p) \in Lot
      BY <3>2 DEF advanceGrowthRunToStock, Lot, LotStatuses
    <3>4. advanceGrowthRunToStock(old, p).proc \in 0..np
      BY <3>2 DEF advanceGrowthRunToStock, Lot
    <3>5. advanceGrowthRunToStock(old, p) \in LotRow(np)
      BY <3>3, <3>4, IsLotRow
    <3>. QED
      BY <3>5 DEF old
  <2>2. advanced \in [1..Len(lots) -> LotRow(np)]
    <3>1. DOMAIN lots = 1..Len(lots)
      BY <1>1 DEF TablesOK
    <3>. HIDE DEF settled
    <3>. QED
      BY <2>1, <3>1
  <2>. HIDE DEF advanced
  <2>. QED
    BY <1>4, <2>2, RewriteRows
<1>12. after \in Seq(LotRow(np)) /\ Len(after) = Len(lots)
  <2>. HIDE DEF settled, advanced, awaits
  <2>. QED
    BY <1>10, <1>11
<1>13. lots' = after \o ReturnLots(lots[l], r)
  BY DEF FinishReturn
<1>14. /\ ReturnLots(lots[l], r) \in Seq(LotRow(np))
       /\ Len(ReturnLots(lots[l], r)) \in Nat
  <2>1. lots[l] \in Lot
    BY <1>1, <1>4 DEF TablesOK, LotRow
  <2>. QED
    BY <1>1, <1>4, <2>1, ReturnLotRows
<1>15. /\ lots' \in Seq(LotRow(np))
       /\ Len(lots') \in Nat
       /\ Len(lots) <= Len(lots')
  <2>. DEFINE new == ReturnLots(lots[l], r)
  <2>1. lots' = after \o new /\ new \in Seq(LotRow(np)) /\ Len(new) \in Nat
    BY <1>13, <1>14
  <2>2. after \o new \in Seq(LotRow(np)) /\ Len(after \o new) = Len(after) + Len(new)
    <3>1. ASSUME NEW S, NEW a \in Seq(S), NEW b \in Seq(S)
          PROVE  a \o b \in Seq(S) /\ Len(a \o b) = Len(a) + Len(b)
      OBVIOUS
    <3>. HIDE DEF after, new, np
    <3>. QED
      BY <1>12, <2>1, <3>1, Zenon
  <2>. HIDE DEF after, new, np
  <2>. QED
    BY <1>4, <1>12, <2>1, <2>2
<1>16. /\ procs' \in Seq(Proc) /\ DOMAIN procs' = DOMAIN procs /\ Len(procs') = np
       /\ \A q \in DOMAIN procs :
            /\ procs'[q].type = procs[q].type
            /\ procs'[q].status = "completed" =>
                  procs[q].status = "completed" \/ (closes /\ q = p)
  <2>1. procs' = IF closes /\ ~awaits THEN [procs EXCEPT ![p] = done] ELSE procs
    BY DEF FinishReturn
  <2>2. procs \in Seq(Proc)
    BY <1>1 DEF TablesOK
  <2>3. CASE closes /\ ~awaits
    <3>1. p \in DOMAIN procs /\ procs[p] \in Proc
      BY <1>9, <2>2, <2>3
    <3>2. done \in Proc /\ done.type = procs[p].type
      BY <3>1 DEF Proc, ProcStatuses
    <3>3. procs' = [procs EXCEPT ![p] = done]
      BY <2>1, <2>3
    <3>. HIDE DEF done, p, closes
    <3>4. /\ [procs EXCEPT ![p] = done] \in Seq(Proc)
          /\ DOMAIN [procs EXCEPT ![p] = done] = DOMAIN procs
          /\ Len([procs EXCEPT ![p] = done]) = Len(procs)
          /\ [procs EXCEPT ![p] = done][p] = done
          /\ \A q \in DOMAIN procs \ {p} : [procs EXCEPT ![p] = done][q] = procs[q]
      BY <2>2, <3>1, <3>2, UpdateRow
    <3>. QED
      BY <2>3, <3>2, <3>3, <3>4
  <2>4. CASE ~(closes /\ ~awaits)
    BY <2>1, <2>2, <2>4
  <2>. QED
    BY <2>3, <2>4
<1>17. machines' \in [Machines -> MachineStatuses]
  <2>1. closes => procs[p].machine \in Machines
    <3>1. \A q \in DOMAIN procs : procs[q].machine \in Machines
      <4>1. \A q \in DOMAIN procs : procs[q] \in Proc
        BY <1>1 DEF TablesOK
      <4>. QED
        BY <4>1 DEF Proc
    <3>. QED
      BY <1>9, <3>1
  <2>2. \/ machines' = machines
        \/ closes /\ machines' = [machines EXCEPT ![procs[p].machine] = "awaiting_output"]
        \/ closes /\ machines' = [machines EXCEPT ![procs[p].machine] = "idle"]
    BY DEF FinishReturn
  <2>. HIDE DEF closes
  <2>. QED
    BY <1>1, <2>1, <2>2 DEF TablesOK, MachineStatuses
<1>18. scrapped' \in Nat
  <2>1. r.lines["damaged"] \in Nat /\ r.lines["consumed"] \in Nat
    BY <1>1, ShopFloorAssumption DEF Session, Idle, Lines
  <2>2. \/ scrapped' = scrapped
        \/ scrapped' = scrapped + r.lines["damaged"] + r.lines["consumed"]
    BY DEF FinishReturn
  <2>. QED
    BY <1>1, <2>1, <2>2 DEF TablesOK
<1>19. /\ sess' \in [Sessions -> Session]
       /\ sess'[s] = Idle
       /\ \A t \in Sessions \ {s} : sess'[t] = sess[t]
  BY <1>1, EndSession DEF FinishReturn, TablesOK
<1>20. TablesOK'
  <2>1. issues' \in Seq(IssueRow(Len(lots'), np))
    <3>1. Seq(IssueRow(Len(lots), np)) \subseteq Seq(IssueRow(Len(lots'), np))
      BY <1>4, <1>15, RowsMonotone
    <3>. QED
      BY <1>8, <3>1
  <2>. QED
    BY <1>15, <1>16, <1>17, <1>18, <1>19, <2>1 DEF TablesOK
<1>21. issues'[i].proc = p /\ (issues'[i].status = "OPEN" => r.remaining # 0)
  <2>1. row.status = "OPEN" => r.remaining # 0
    BY <1>3 DEF IssueRow, Issue
  <2>. HIDE DEF row
  <2>. QED
    BY <1>6, <1>8, <2>1
<1>22. IssuesStep
  <2>. HIDE DEF row
  <2>. QED
    BY <1>2, <1>8, <1>21 DEF IssuesStep
<1>23. ProcsStep /\ DOMAIN lots \subseteq DOMAIN lots'
  BY <1>1, <1>15, <1>16 DEF ProcsStep, TablesOK
<1>24. (\A t \in Sessions : SessionOK(t)') /\ OneReturnPerIssue'
  <2>1. ASSUME NEW t \in Sessions \ {s}, sess[t].op = "return"
        PROVE  issues'[sess[t].issue] = issues[sess[t].issue]
    <3>1. sess[t].issue # i
      BY <1>1, <2>1 DEF IInv, OneReturnPerIssue
    <3>2. sess[t].issue \in DOMAIN issues
      BY <2>1 DEF IInv, SessionOK, ReturnOK
    <3>. QED
      BY <1>8, <3>1, <3>2
  <2>. QED
    BY <1>19, <1>22, <1>23, <2>1, SessionsEnd
<1>25. (NoRoughOutput => CompletedMeansReturned)'
  <2>1. ASSUME closes, NEW q, q = p
        PROVE  ~Unreturned(q)'
    <3>1. /\ \A j \in DOMAIN issues \ {i} : issues[j].proc = q => issues[j].status # "OPEN"
          /\ r.remaining = 0
      BY <1>2, <2>1 DEF NoOpenSibling
    <3>. HIDE DEF closes, row, r, p, i
    <3>2. \A j \in DOMAIN issues' : issues'[j].proc = q => issues'[j].status # "OPEN"
      BY <1>8, <1>21, <3>1
    <3>. QED
      BY <3>2 DEF Unreturned
  <2>2. ASSUME NEW q \in DOMAIN procs', procs'[q].status = "completed"
        PROVE  /\ q \in DOMAIN procs
               /\ procs[q].status = "completed" \/ IsGrowth(procs[q].type) \/ ~Unreturned(q)'
    <3>. HIDE DEF closes, p
    <3>. QED
      BY <1>16, <2>1, <2>2
  <2>. QED
    BY <1>22, <1>23, <2>2, CompletedKeeps
<1>. QED
  BY <1>20, <1>24, <1>25 DEF IInv

-----------------------------------------------------------------------------
(* The theorems.                                                           *)

LEMMA NextOK == IInv /\ [Next]_vars => IInv'
<1>. SUFFICES ASSUME IInv, [Next]_vars
              PROVE  IInv'
  OBVIOUS
<1>1. CASE UNCHANGED vars
  BY <1>1 DEF vars, IInv, TablesOK, SessionOK, ReturnOK, NoOpenSibling, IsGrowth, Unreturned,
              OneReturnPerIssue, NoRoughOutput, CompletedMeansReturned
<1>2. ASSUME NEW m \in Machines, NEW t \in Types, NEW req \in Requests, IssueToMachine(m, t, req)
      PROVE  IInv'
  BY <1>2, IssueToMachineOK
<1>3. ASSUME NEW e \in Entries, HandIssue(e)
      PROVE  IInv'
  BY <1>3, HandIssueOK
<1>4. ASSUME NEW s \in Sessions, NEW i \in DOMAIN issues, NEW ls \in LinesUsed,
             BeginReturn(s, i, ls)
      PROVE  IInv'
  BY <1>4, BeginReturnOK DEF LinesUsed
<1>5. ASSUME NEW s \in Sessions, NEW m \in Machines, NEW t \in Types,
             NEW ls \in SUBSET DOMAIN lots, BeginStart(s, m, t, ls)
      PROVE  IInv'
  BY <1>5, BeginStartOK
<1>6. ASSUME NEW s \in Sessions, NEW p \in DOMAIN procs, BeginHold(s, p) \/ BeginResume(s, p)
      PROVE  IInv'
  BY <1>6, BeginHoldResumeOK
<1>7. ASSUME NEW s \in Sessions, NEW p \in DOMAIN procs, BeginComplete(s, p)
      PROVE  IInv'
  BY <1>7, BeginCompleteOK
<1>8. ASSUME NEW s \in Sessions, NEW p \in DOMAIN procs, BeginOutput(s, p)
      PROVE  IInv'
  BY <1>8, BeginOutputOK
<1>9. ASSUME NEW s \in Sessions, FinishReturn(s)
      PROVE  IInv'
  BY <1>9, FinishReturnOK
<1>10. ASSUME NEW s \in Sessions, FinishStart(s)
       PROVE  IInv'
  BY <1>10, FinishStartOK
<1>11. ASSUME NEW s \in Sessions, FinishHoldResume(s)
       PROVE  IInv'
  BY <1>11, FinishHoldResumeOK
<1>12. ASSUME NEW s \in Sessions, FinishComplete(s)
       PROVE  IInv'
  BY <1>12, FinishCompleteOK
<1>13. ASSUME NEW s \in Sessions, FinishOutput(s)
       PROVE  IInv'
  BY <1>13, FinishOutputOK
<1>14. ASSUME NEW s \in Sessions, Rollback(s)
       PROVE  IInv'
  BY <1>14, RollbackOK
<1>15. ASSUME NEW m \in Machines, NEW st \in PanelStatuses, SetMachineStatus(m, st)
       PROVE  IInv'
  BY <1>15, SetMachineStatusOK
<1>16. ASSUME NEW b \in DOMAIN lots, PostOutput(b)
       PROVE  IInv'
  BY <1>16, PostOutputOK
<1>. QED
  BY <1>1, <1>2, <1>3, <1>4, <1>5, <1>6, <1>7, <1>8, <1>9, <1>10, <1>11, <1>12,
     <1>13, <1>14, <1>15, <1>16 DEF Next

(* The invariant holds in every state of the shop floor.                   *)
THEOREM Invariance == Spec => []IInv
  BY InitOK, NextOK, PTL DEF Spec

(* Every row the handlers write has its type.                              *)
THEOREM TypeCorrect == Spec => []TypeOK
<1>1. IInv => TypeOK
  BY TablesTyped DEF IInv
<1>. QED
  BY <1>1, Invariance, PTL

(* No interleaving of returns with each other or with any other handler    *)
(* takes more out of an issue than was put in, or reopens or closes it     *)
(* with pieces unaccounted for.                                            *)
THEOREM ReturnsBalance == Spec => []IssueBalance
<1>1. IInv => IssueBalance
  BY TablesTyped DEF IInv
<1>. QED
  BY <1>1, Invariance, PTL

(* Apart from rough output, no handler completes a process that is not a   *)
(* growth process while something issued to it is outstanding, although    *)
(* neither the last return nor the complete handler locks the issues whose *)
(* state it relies on.                                                     *)
THEOREM CompletionSound ==
    ASSUME NoRoughOutput
    PROVE  Spec => []CompletedMeansReturned
<1>1. IInv => CompletedMeansReturned
  BY DEF IInv
<1>. QED
  BY <1>1, Invariance, PTL

-----------------------------------------------------------------------------
(* Lots that issues hold, and biscuits that are cut.                       *)
(*                                                                         *)
(* OutputOnce and LotHeldOnce rest on each other: a biscuit is not put     *)
(* back in stock after it was cut because no open issue of it is left, and *)
(* none is because only a biscuit in stock is cut.                         *)

(* What the claim needs: requests that name a lot once, and neither the    *)
(* Growth Run Return, which takes lots from under their open issues, nor   *)
(* rough output by process, which checks the biscuit before it locks it.   *)
Holding ==
    /\ PickerOnly
    /\ "complete_growth" \notin Ops /\ "output_by_process" \notin Ops

(* A biscuit that was ever issued without a machine: lots.proc still names *)
(* the process it came from, whose last return releases it.                *)
ByHand(l) == lots[l].kind = "growth_run" /\ IssuedByHand(l)

(* The issue i holds its lot, and a biscuit is in the issue's own process: *)
(* that is why the last return of another one does not release it.         *)
Held(i) ==
    LET l == issues[i].lot IN
    /\ lots[l].status = "IN PROCESS"
    /\ lots[l].kind = "growth_run" => lots[l].proc = issues[i].proc
    /\ \A j \in DOMAIN issues : issues[j].status = "OPEN" /\ issues[j].lot = l => i = j

LotsHeld ==
    \A i \in DOMAIN issues :
        issues[i].status = "OPEN" => ByHand(issues[i].lot) \/ Held(i)

NoHandIssue ==
    "hand_issue" \notin Ops => \A i \in DOMAIN issues : issues[i].proc # 0

(* Growth processes are not completed but by their returns.                *)
CompleteOK(s) ==
    sess[s].op = "complete" => ~IsGrowth(procs[sess[s].proc].type)

HInv ==
    /\ IInv
    /\ LotsHeld
    /\ OutputOnce
    /\ NoHandIssue
    /\ \A s \in Sessions : CompleteOK(s)

(* The references of an issue.                                             *)
LEMMA IssueFields ==
    ASSUME TablesOK, NEW i \in DOMAIN issues
    PROVE  /\ issues[i].lot \in DOMAIN lots /\ issues[i].lot \in Nat /\ issues[i].proc \in Nat
           /\ issues[i].proc \in {0} \cup DOMAIN procs
           /\ lots[issues[i].lot] \in Lot
<1>1. issues[i] \in IssueRow(Len(lots), Len(procs))
  BY DEF TablesOK
<1>2. issues[i].lot \in 1..Len(lots) /\ issues[i].proc \in 0..Len(procs)
  BY <1>1 DEF IssueRow
<1>3. DOMAIN lots = 1..Len(lots) /\ DOMAIN procs = 1..Len(procs) /\ Len(procs) \in Nat
  BY DEF TablesOK
<1>. QED
  BY <1>2, <1>3 DEF TablesOK, LotRow

(* No issue moves to another lot or process or reopens.                    *)
IssuesStay ==
    /\ DOMAIN issues' = DOMAIN issues
    /\ \A i \in DOMAIN issues :
          /\ issues'[i].lot = issues[i].lot /\ issues'[i].proc = issues[i].proc
          /\ issues'[i].status = "OPEN" => issues[i].status = "OPEN"

(* The rows of lots held by an issue that stays open are left alone.       *)
HeldStay ==
    /\ \A l \in DOMAIN lots : l \in DOMAIN lots' /\ lots'[l].kind = lots[l].kind
    /\ \A i \in DOMAIN issues :
          issues'[i].status = "OPEN" /\ Held(i) =>
              /\ lots'[issues[i].lot].status = "IN PROCESS"
              /\ lots'[issues[i].lot].proc = lots[issues[i].lot].proc

(* A step that does neither keeps what is held.                            *)
LEMMA HeldKeeps ==
    ASSUME TablesOK, LotsHeld, IssuesStay, HeldStay
    PROVE  LotsHeld'
<1>. SUFFICES ASSUME NEW i \in DOMAIN issues, issues'[i].status = "OPEN", ~ByHand(issues[i].lot)'
              PROVE  Held(i)'
  BY DEF LotsHeld, IssuesStay, ByHand, IssuedByHand
<1>. DEFINE l == issues[i].lot
<1>1. l \in DOMAIN lots
  BY IssueFields
<1>2. ~ByHand(l)
  BY <1>1 DEF ByHand, IssuedByHand, IssuesStay, HeldStay
<1>3. Held(i) /\ issues[i].status = "OPEN"
  BY <1>2 DEF LotsHeld, IssuesStay
<1>4. /\ lots'[l].status = "IN PROCESS" /\ lots'[l].proc = lots[l].proc
      /\ lots'[l].kind = lots[l].kind
      /\ issues'[i].lot = l /\ issues'[i].proc = issues[i].proc
  BY <1>1, <1>3 DEF HeldStay, IssuesStay
<1>5. \A j \in DOMAIN issues' : issues'[j].status = "OPEN" /\ issues'[j].lot = l => i = j
  BY <1>3 DEF Held, IssuesStay
<1>. HIDE DEF l
<1>6. lots'[l].kind = "growth_run" => lots'[l].proc = issues'[i].proc
  BY <1>3, <1>4 DEF Held, l
<1>. QED
  BY <1>4, <1>5, <1>6 DEF Held

LEMMA ByHandKeeps ==
    ASSUME IssuesStay
    PROVE  /\ NoHandIssue => NoHandIssue'
           /\ \A l : IssuedByHand(l) => IssuedByHand(l)'
  BY DEF IssuesStay, NoHandIssue, IssuedByHand

(* Nothing is cut, and what was consumed is not brought back.              *)
OutputsStay ==
    \A l \in DOMAIN lots' :
        \/ l \notin DOMAIN lots /\ lots'[l].outputs = 0
        \/ /\ l \in DOMAIN lots /\ lots'[l].outputs = lots[l].outputs
           /\ (lots[l].status = "CONSUMED" => lots'[l].status = "CONSUMED" \/ IssuedByHand(l))

LEMMA OutputKeeps ==
    ASSUME OutputOnce, OutputsStay, \A l : IssuedByHand(l) => IssuedByHand(l)'
    PROVE  OutputOnce'
  BY DEF OutputOnce, OutputsStay

(* A step that writes neither lots nor issues.                             *)
LEMMA NothingMoves ==
    ASSUME HInv, UNCHANGED <<lots, issues>>
    PROVE  LotsHeld' /\ OutputOnce' /\ NoHandIssue'
<1>1. IssuesStay
  BY DEF IssuesStay
<1>2. HeldStay
  BY DEF HeldStay, Held
<1>3. OutputsStay
  BY DEF OutputsStay
<1>. QED
  BY <1>1, <1>2, <1>3, HeldKeeps, ByHandKeeps, OutputKeeps DEF HInv, IInv

(* Steps that write processes and machines only.                           *)
LEMMA CompleteKeeps ==
    ASSUME HInv, ProcsStep,
           \A t \in Sessions : sess'[t].op = "complete" =>
               \/ sess'[t] = sess[t]
               \/ /\ sess'[t].proc \in DOMAIN procs
                  /\ ~IsGrowth(procs[sess'[t].proc].type)
    PROVE  \A s \in Sessions : CompleteOK(s)'
<1>. SUFFICES ASSUME NEW s \in Sessions, sess'[s].op = "complete"
              PROVE  ~IsGrowth(procs'[sess'[s].proc].type)
  BY DEF CompleteOK, IsGrowth
<1>1. sess'[s].proc \in DOMAIN procs /\ ~IsGrowth(procs[sess'[s].proc].type)
  BY DEF HInv, IInv, SessionOK, ByProcess, CompleteOK
<1>. QED
  BY <1>1 DEF ProcsStep, IsGrowth

LEMMA QuietHolds ==
    ASSUME HInv, IInv', UNCHANGED <<lots, issues>>, ProcsStep,
           \A t \in Sessions : sess'[t].op = "complete" =>
               \/ sess'[t] = sess[t]
               \/ /\ sess'[t].proc \in DOMAIN procs
                  /\ ~IsGrowth(procs[sess'[t].proc].type)
    PROVE  HInv'
  BY NothingMoves, CompleteKeeps DEF HInv

LEMMA TypeStays ==
    ASSUME IInv, NEW p \in DOMAIN procs, NEW st, procs' = [procs EXCEPT ![p].status = st]
    PROVE  ProcsStep
<1>1. procs[p] \in Proc
  BY DEF IInv, TablesOK
<1>. QED
  BY <1>1 DEF ProcsStep, Proc

LEMMA BeginHolds ==
    ASSUME Holding, HInv, IInv', UNCHANGED <<lots, issues, procs>>, NEW s \in Sessions,
           NEW r, Begin(s, r),
           r.op = "complete" => r.proc \in DOMAIN procs /\ ~IsGrowth(procs[r.proc].type)
    PROVE  HInv'
<1>1. sess'[s] = r /\ \A t \in Sessions \ {s} : sess'[t] = sess[t]
  BY DEF Begin, HInv, IInv, TablesOK
<1>2. ProcsStep
  BY DEF ProcsStep
<1>. QED
  BY <1>1, <1>2, QuietHolds

LEMMA EndHolds ==
    ASSUME HInv, IInv', UNCHANGED <<lots, issues>>, ProcsStep, NEW s \in Sessions, End(s)
    PROVE  HInv'
<1>1. sess'[s] = Idle /\ \A t \in Sessions \ {s} : sess'[t] = sess[t]
  BY EndSession DEF HInv, IInv, TablesOK
<1>. QED
  BY <1>1, QuietHolds DEF Idle

LEMMA QuietStepsHold ==
    ASSUME Holding, HInv, IInv', NEW s \in Sessions,
           \/ \E i \in DOMAIN issues, ls \in LinesUsed : BeginReturn(s, i, ls)
           \/ \E m \in Machines, t \in Types : \E ls \in SUBSET DOMAIN lots : BeginStart(s, m, t, ls)
           \/ \E p \in DOMAIN procs :
                 BeginHold(s, p) \/ BeginResume(s, p) \/ BeginComplete(s, p) \/ BeginOutput(s, p)
           \/ FinishStart(s) \/ FinishHoldResume(s) \/ FinishComplete(s) \/ FinishOutput(s)
           \/ Rollback(s)
    PROVE  HInv'
<1>1. ASSUME NEW i, NEW ls, BeginReturn(s, i, ls) PROVE HInv'
  <2>. DEFINE r == [op |-> "return", issue |-> i, lines |-> ls,
                    remaining |-> issues[i].remaining - Total(ls),
                    last |-> Total(ls) = issues[i].remaining /\ NoOpenSibling(i)]
  <2>1. Begin(s, r) /\ UNCHANGED <<lots, issues, procs>> /\ r.op # "complete"
    BY <1>1 DEF BeginReturn
  <2>. HIDE DEF r
  <2>. QED
    BY <2>1, BeginHolds
<1>2. ASSUME NEW m, NEW t, NEW ls, BeginStart(s, m, t, ls) PROVE HInv'
  <2>. DEFINE r == [op |-> "start", machine |-> m, type |-> t, loaded |-> ls]
  <2>1. Begin(s, r) /\ UNCHANGED <<lots, issues, procs>> /\ r.op # "complete"
    BY <1>2 DEF BeginStart
  <2>. HIDE DEF r
  <2>. QED
    BY <2>1, BeginHolds
<1>3. ASSUME NEW p \in DOMAIN procs, BeginHold(s, p) \/ BeginResume(s, p) PROVE HInv'
  <2>1. PICK op \in {"hold", "resume"} : Begin(s, [op |-> op, proc |-> p])
    BY <1>3 DEF BeginHold, BeginResume
  <2>2. UNCHANGED <<lots, issues, procs>>
    BY <1>3 DEF BeginHold, BeginResume
  <2>. QED
    BY <2>1, <2>2, BeginHolds
<1>4. ASSUME NEW p \in DOMAIN procs, BeginComplete(s, p) PROVE HInv'
  <2>. DEFINE r == [op |-> "complete", proc |-> p, biscuit |-> findActiveBiscuitByProcess(p)]
  <2>1. Begin(s, r) /\ UNCHANGED <<lots, issues, procs>> /\ r.proc = p
    BY <1>4 DEF BeginComplete
  <2>2. ~IsGrowth(procs[p].type)
    BY <1>4 DEF BeginComplete, Holding
  <2>. HIDE DEF r
  <2>. QED
    BY <2>1, <2>2, BeginHolds
<1>5. ASSUME NEW p, BeginOutput(s, p) PROVE HInv'
  BY <1>5 DEF BeginOutput, Holding
<1>6. CASE FinishStart(s)
  <2>1. PICK row : procs' = Append(procs, row)
    BY <1>6 DEF FinishStart
  <2>2. procs \in Seq(Proc)
    BY DEF HInv, IInv, TablesOK
  <2>3. ProcsStep
    BY <2>1, <2>2 DEF ProcsStep
  <2>. QED
    BY <1>6, <2>3, EndHolds DEF FinishStart
<1>7. CASE FinishHoldResume(s)
  <2>1. ProcsStep
    <3>1. sess[s].proc \in DOMAIN procs
      BY <1>7 DEF FinishHoldResume, HInv, IInv, SessionOK, ByProcess
    <3>. QED
      BY <1>7, <3>1, TypeStays DEF FinishHoldResume, HInv
  <2>. QED
    BY <1>7, <2>1, EndHolds DEF FinishHoldResume
<1>8. CASE FinishComplete(s)
  <2>1. sess[s].proc \in DOMAIN procs /\ ~IsGrowth(procs[sess[s].proc].type)
    BY <1>8 DEF FinishComplete, HInv, IInv, SessionOK, ByProcess, CompleteOK
  <2>2. ProcsStep
    BY <1>8, <2>1, TypeStays DEF FinishComplete, HInv
  <2>. QED
    BY <1>8, <2>1, <2>2, EndHolds DEF FinishComplete
<1>9. CASE FinishOutput(s)
  BY <1>9 DEF FinishOutput, Holding, HInv, IInv, SessionOK
<1>10. CASE Rollback(s)
  <2>1. ProcsStep
    BY <1>10 DEF Rollback, ProcsStep
  <2>. QED
    BY <1>10, <2>1, EndHolds DEF Rollback
<1>. QED
  BY <1>1, <1>2, <1>3, <1>4, <1>5, <1>6, <1>7, <1>8, <1>9, <1>10

LEMMA SetMachineStatusHolds ==
    ASSUME HInv, IInv', NEW m, NEW st, SetMachineStatus(m, st)
    PROVE  HInv'
<1>1. \A p \in DOMAIN procs : procs[p] \in Proc
  BY DEF HInv, IInv, TablesOK
<1>2. ProcsStep
  BY <1>1 DEF SetMachineStatus, ProcsStep, Proc
<1>. QED
  BY <1>2, QuietHolds DEF SetMachineStatus

(* Output is posted for a biscuit in stock: no open issue holds it, and    *)
(* none was posted before.                                                 *)
LEMMA PostOutputHolds ==
    ASSUME HInv, IInv', NEW b \in DOMAIN lots, PostOutput(b)
    PROVE  HInv'
<1>1. /\ DOMAIN lots' = DOMAIN lots /\ lots[b].status = "IN STOCK" /\ lots[b] \in Lot
      /\ lots'[b].kind = lots[b].kind /\ lots'[b].status = "CONSUMED"
      /\ lots'[b].outputs = lots[b].outputs + 1
      /\ \A l \in DOMAIN lots \ {b} : lots'[l] = lots[l]
  <2>1. lots[b] \in Lot
    BY DEF HInv, IInv, TablesOK, LotRow
  <2>2. lots' = [lots EXCEPT ![b].status = "CONSUMED", ![b].qty = 0, ![b].outputs = @ + 1]
    BY DEF PostOutput, RoughOutput
  <2>. QED
    BY <2>1, <2>2 DEF PostOutput, OutputReady, Lot
<1>2. issues' = issues /\ sess' = sess
  BY DEF PostOutput, RoughOutput
<1>3. IssuesStay
  BY <1>2 DEF IssuesStay
<1>4. HeldStay
  <2>1. ASSUME NEW i \in DOMAIN issues, Held(i)
        PROVE  issues[i].lot \in DOMAIN lots /\ issues[i].lot # b
    BY <1>1, <2>1, IssueFields DEF Held, HInv, IInv
  <2>. QED
    BY <1>1, <2>1 DEF HeldStay, Held
<1>5. OutputOnce'
  <2>1. \A l : IssuedByHand(l) => IssuedByHand(l)'
    BY <1>3, ByHandKeeps
  <2>2. lots[b].outputs = 0 \/ IssuedByHand(b)
    BY <1>1 DEF HInv, OutputOnce
  <2>3. ASSUME NEW l \in DOMAIN lots'
        PROVE  \/ IssuedByHand(l)'
               \/ lots'[l].outputs = 0
               \/ lots'[l].outputs = 1 /\ lots'[l].status = "CONSUMED"
    <3>1. CASE l = b
      <4>1. lots[b].outputs = 0 => lots'[b].outputs = 1
        <5>1. PICK n \in Nat : n = lots[b].outputs
          BY <1>1 DEF Lot
        <5>2. lots'[b].outputs = n + 1
          BY <1>1, <5>1
        <5>3. n = 0 => n + 1 = 1
          OBVIOUS
        <5>. QED
          BY ONLY <5>1, <5>2, <5>3
      <4>. QED
        BY <1>1, <2>1, <2>2, <3>1, <4>1
    <3>2. CASE l # b
      <4>1. lots'[l] = lots[l] /\ l \in DOMAIN lots
        BY <1>1, <3>2
      <4>2. \/ IssuedByHand(l)
            \/ lots[l].outputs = 0
            \/ lots[l].outputs = 1 /\ lots[l].status = "CONSUMED"
        BY <4>1 DEF HInv, OutputOnce
      <4>. QED
        BY <2>1, <4>1, <4>2
    <3>. QED
      BY <3>1, <3>2
  <2>. QED
    BY <2>3 DEF OutputOnce
<1>6. ProcsStep
  <2>1. lots[b].proc \in {0} \cup DOMAIN procs
    BY DEF HInv, IInv, TablesOK, LotRow
  <2>2. \/ procs' = procs
        \/ /\ lots[b].proc \in DOMAIN procs
           /\ procs' = [procs EXCEPT ![lots[b].proc].status = "completed"]
    BY <2>1 DEF PostOutput, RoughOutput
  <2>3. procs' = procs => ProcsStep
    BY DEF ProcsStep
  <2>. QED
    BY <2>2, <2>3, TypeStays DEF HInv
<1>. QED
  BY <1>2, <1>3, <1>4, <1>5, <1>6, HeldKeeps, ByHandKeeps, CompleteKeeps DEF HInv, IInv

(* What a return does to its lot, and to the biscuit of its process.       *)
LEMMA ReturnedFields ==
    ASSUME NEW row \in Lot, NEW r
    PROVE  /\ ReturnedRow(row, r).kind = row.kind
           /\ ReturnedRow(row, r).proc = row.proc
           /\ ReturnedRow(row, r).outputs = row.outputs
           /\ r.remaining > 0 => ReturnedRow(row, r) = row
<1>1. \/ ReturnedRow(row, r) = row
      \/ ReturnedRow(row, r) = [row EXCEPT !.status = "CONSUMED", !.qty = 0]
      \/ \E st : ReturnedRow(row, r) = [row EXCEPT !.status = st]
  BY DEF ReturnedRow
<1>2. r.remaining > 0 => ReturnedRow(row, r) = row
  BY DEF ReturnedRow
<1>. QED
  BY <1>1, <1>2 DEF Lot

(* What the COMMIT of a return writes: to its issue, to its lot when that  *)
(* issue closes, to the biscuits of its process when it is the last one.   *)
ReturnEffect(s) ==
    LET r == sess[s]
        i == r.issue
        l == issues[i].lot
        p == issues[i].proc
    IN  /\ i \in DOMAIN issues /\ issues[i].status = "OPEN" /\ l \in DOMAIN lots
        /\ p \in {0} \cup DOMAIN procs /\ r.remaining \in Nat
        /\ r.last => r.remaining = 0 /\ NoOpenSibling(i) /\ p \in DOMAIN procs
        /\ DOMAIN issues' = DOMAIN issues
        /\ issues'[i].lot = l /\ issues'[i].proc = p
        /\ issues'[i].status = IF r.remaining = 0 THEN "RETURNED" ELSE "OPEN"
        /\ \A j \in DOMAIN issues \ {i} : issues'[j] = issues[j]
        /\ \A x \in DOMAIN lots :
              /\ x \in DOMAIN lots'
              /\ lots'[x].kind = lots[x].kind /\ lots'[x].proc = lots[x].proc
              /\ lots'[x].outputs = lots[x].outputs
              /\ x = l /\ r.remaining = 0 => lots'[x].status # "IN PROCESS"
              /\ \/ lots'[x] = lots[x]
                 \/ x = l /\ r.remaining = 0
                 \/ /\ r.last /\ lots[x].kind = "growth_run" /\ lots[x].proc = p
                    /\ lots[x].status = "IN PROCESS" /\ lots'[x].status # "IN PROCESS"
        /\ \A x \in DOMAIN lots' \ DOMAIN lots : lots'[x].outputs = 0 /\ lots'[x].proc = 0
        /\ \/ procs' = procs /\ ~(r.last /\ Closable(p) /\ ~OutputBased(procs[p].type))
           \/ /\ r.last /\ ~OutputBased(procs[p].type)
              /\ procs' = [procs EXCEPT ![p].status = "completed"]

LEMMA ReturnWrites ==
    ASSUME IInv, NEW s \in Sessions, FinishReturn(s)
    PROVE  ReturnEffect(s)
<1>. DEFINE r == sess[s]
            i == r.issue
            l == issues[i].lot
            p == issues[i].proc
<1>. DEFINE awaits == r.last /\ Closable(p) /\ OutputBased(procs[p].type)
            settled == [lots EXCEPT ![l] = ReturnedRow(@, r)]
            advanced == [x \in DOMAIN lots |-> advanceGrowthRunToStock(settled[x], p)]
            new == ReturnLots(lots[l], r)
            row == [issues[i] EXCEPT !.remaining = r.remaining,
                                     !.returned = @ + Total(r.lines),
                                     !.status = IF r.remaining = 0 THEN "RETURNED" ELSE "OPEN"]
<1>1. r \in Session /\ r.op = "return" /\ ReturnOK(s) /\ TablesOK
  BY DEF FinishReturn, IInv, TablesOK, SessionOK
<1>2. /\ i \in DOMAIN issues /\ issues[i].status = "OPEN" /\ Total(r.lines) > 0
      /\ r.last => r.remaining = 0 /\ NoOpenSibling(i)
  BY <1>1 DEF ReturnOK
<1>3. /\ l \in DOMAIN lots /\ lots[l] \in Lot /\ p \in {0} \cup DOMAIN procs
      /\ issues[i] \in Issue /\ lots[l] \in LotRow(Len(procs)) /\ Len(procs) \in Nat
  BY <1>1, <1>2, IssueFields DEF TablesOK, IssueRow
<1>4. r.remaining \in Nat
  BY <1>1 DEF Session, Idle
<1>5. r.last => p \in DOMAIN procs
  BY <1>2, <1>3 DEF NoOpenSibling
<1>6. /\ DOMAIN issues' = DOMAIN issues
      /\ issues'[i].lot = l /\ issues'[i].proc = p
      /\ issues'[i].status = IF r.remaining = 0 THEN "RETURNED" ELSE "OPEN"
      /\ \A j \in DOMAIN issues \ {i} : issues'[j] = issues[j]
  <2>1. issues' = [issues EXCEPT ![i] = row]
    BY DEF FinishReturn
  <2>2. row.lot = l /\ row.proc = p /\ row.status = IF r.remaining = 0 THEN "RETURNED" ELSE "OPEN"
    BY <1>3 DEF Issue
  <2>. HIDE DEF row
  <2>. QED
    BY <1>2, <2>1, <2>2
<1>7. /\ settled \in Seq(Lot) /\ DOMAIN settled = DOMAIN lots
      /\ settled[l] = ReturnedRow(lots[l], r)
      /\ \A x \in DOMAIN lots : x # l => settled[x] = lots[x]
  <2>1. lots \in Seq(Lot)
    BY <1>1, TablesTyped DEF TypeOK
  <2>2. ReturnedRow(lots[l], r) \in Lot
    BY <1>1, <1>2, <1>3, ReturnedLotRow DEF LotRow
  <2>. QED
    BY <1>3, <2>1, <2>2
<1>8. r.remaining = 0 => ReturnedRow(lots[l], r).status # "IN PROCESS"
  <2>1. \E d \in DOMAIN r.lines : r.lines[d] > 0
    <3>1. r.lines \in Lines
      BY <1>1 DEF Session, Idle
    <3>2. DOMAIN r.lines = {"usable", "damaged", "consumed"}
      BY <3>1 DEF Lines
    <3>3. \A d \in DOMAIN r.lines : r.lines[d] \in Nat
      BY <3>1, ShopFloorAssumption DEF Lines
    <3>. QED
      BY <1>2, <3>2, <3>3 DEF Total
  <2>. DEFINE d == CHOOSE x \in DOMAIN r.lines : r.lines[x] > 0
  <2>2. d \in {"usable", "damaged", "consumed"}
    <3>1. d \in DOMAIN r.lines
      BY <2>1
    <3>. QED
      BY <1>1, <3>1 DEF Session, Idle, Lines
  <2>3. TypeStatus[d] # "IN PROCESS"
    <3>. HIDE DEF d
    <3>. QED
      BY <2>2 DEF TypeStatus
  <2>4. r.remaining = 0 =>
           \/ ReturnedRow(lots[l], r) = [lots[l] EXCEPT !.status = "CONSUMED", !.qty = 0]
           \/ ReturnedRow(lots[l], r) = [lots[l] EXCEPT !.status = TypeStatus[d]]
    BY DEF ReturnedRow
  <2>. HIDE DEF d
  <2>. QED
    BY <1>3, <2>3, <2>4 DEF Lot
<1>. HIDE DEF settled
<1>9. /\ \A x \in DOMAIN lots : /\ x \in DOMAIN lots'
                               /\ lots'[x] = IF awaits THEN advanceGrowthRunToStock(settled[x], p)
                                             ELSE settled[x]
      /\ \A x \in DOMAIN lots' \ DOMAIN lots : lots'[x].outputs = 0 /\ lots'[x].proc = 0
  <2>. DEFINE after == IF awaits THEN advanced ELSE settled
  <2>1. lots' = after \o new
    BY DEF FinishReturn, settled
  <2>2. new = <<>> \/ \E q : new = <<q>> /\ q.outputs = 0 /\ q.proc = 0
    <3>. DEFINE q == [kind |-> lots[l].kind, status |-> "IN STOCK", qty |-> r.lines["usable"],
                      proc |-> 0, outputs |-> 0]
    <3>1. new = <<>> \/ new = <<q>>
      BY DEF ReturnLots
    <3>2. q.outputs = 0 /\ q.proc = 0
      OBVIOUS
    <3>. HIDE DEF q, new
    <3>. QED
      BY <3>1, <3>2
  <2>3. /\ Len(after) \in Nat /\ DOMAIN after = 1..Len(after) /\ DOMAIN after = DOMAIN lots
        /\ \A x \in DOMAIN lots : after[x] = IF awaits THEN advanceGrowthRunToStock(settled[x], p)
                                             ELSE settled[x]
    <3>1. advanced \in Seq({advanced[x] : x \in DOMAIN lots}) /\ DOMAIN advanced = DOMAIN lots
      <4>1. Len(lots) \in Nat /\ DOMAIN lots = 1..Len(lots)
        BY <1>1 DEF TablesOK
      <4>2. advanced \in [1..Len(lots) -> {advanced[x] : x \in DOMAIN lots}]
        BY <4>1
      <4>. HIDE DEF advanced
      <4>. QED
        BY <4>1, <4>2, RewriteRows
    <3>2. \A x \in DOMAIN lots : advanced[x] = advanceGrowthRunToStock(settled[x], p)
      OBVIOUS
    <3>3. Len(advanced) \in Nat /\ DOMAIN advanced = 1..Len(advanced)
      <4>. HIDE DEF advanced
      <4>. QED
        BY <3>1
    <3>4. Len(settled) \in Nat /\ DOMAIN settled = 1..Len(settled)
      BY <1>7
    <3>. HIDE DEF advanced, awaits
    <3>. QED
      BY <1>7, <3>1, <3>2, <3>3, <3>4
  <2>. HIDE DEF after, awaits, new
  <2>4. Len(new) \in Nat
    BY <2>2
  <2>5. DOMAIN lots' = 1..(Len(after) + Len(new))
    BY <2>1, <2>3, <2>4
  <2>6. \A x \in DOMAIN lots : x \in DOMAIN lots' /\ lots'[x] = after[x]
    BY <2>1, <2>3, <2>4, <2>5
  <2>7. \A x \in DOMAIN lots' \ DOMAIN lots : lots'[x].outputs = 0 /\ lots'[x].proc = 0
    BY <2>1, <2>2, <2>3, <2>4, <2>5
  <2>. QED
    BY <2>3, <2>6, <2>7
<1>10. ASSUME NEW x \in DOMAIN lots
       PROVE  /\ settled[x] \in Lot
              /\ settled[x].kind = lots[x].kind /\ settled[x].proc = lots[x].proc
              /\ settled[x].outputs = lots[x].outputs
              /\ x = l /\ r.remaining = 0 => settled[x].status # "IN PROCESS"
              /\ settled[x] = lots[x] \/ (x = l /\ r.remaining = 0)
  <2>1. settled[x] \in Lot /\ lots[x] \in Lot
    BY <1>1, <1>7, TablesTyped DEF TypeOK
  <2>2. CASE x # l
    BY <1>7, <2>1, <2>2
  <2>3. CASE x = l
    <3>1. /\ ReturnedRow(lots[l], r).kind = lots[l].kind
          /\ ReturnedRow(lots[l], r).proc = lots[l].proc
          /\ ReturnedRow(lots[l], r).outputs = lots[l].outputs
          /\ r.remaining > 0 => ReturnedRow(lots[l], r) = lots[l]
      BY ONLY <1>3, ReturnedFields
    <3>2. settled[x] = ReturnedRow(lots[l], r)
      BY <1>7, <2>3
    <3>3. r.remaining > 0 \/ r.remaining = 0
      BY ONLY <1>4
    <3>. QED
      BY ONLY <1>8, <2>1, <2>3, <3>1, <3>2, <3>3
  <2>. QED
    BY <2>2, <2>3
<1>11. ASSUME NEW x \in DOMAIN lots
       PROVE  /\ lots'[x].kind = lots[x].kind /\ lots'[x].proc = lots[x].proc
              /\ lots'[x].outputs = lots[x].outputs
              /\ x = l /\ r.remaining = 0 => lots'[x].status # "IN PROCESS"
              /\ \/ lots'[x] = lots[x]
                 \/ x = l /\ r.remaining = 0
                 \/ /\ r.last /\ lots[x].kind = "growth_run" /\ lots[x].proc = p
                    /\ lots[x].status = "IN PROCESS" /\ lots'[x].status # "IN PROCESS"
  <2>. DEFINE old == settled[x]
              adv == advanceGrowthRunToStock(old, p)
  <2>1. /\ old \in Lot /\ old.kind = lots[x].kind /\ old.proc = lots[x].proc
        /\ old.outputs = lots[x].outputs
        /\ x = l /\ r.remaining = 0 => old.status # "IN PROCESS"
        /\ old = lots[x] \/ (x = l /\ r.remaining = 0)
    BY <1>10
  <2>2. (r.last /\ lots'[x] = adv) \/ lots'[x] = old
    BY <1>9
  <2>3. /\ adv.kind = old.kind /\ adv.proc = old.proc /\ adv.outputs = old.outputs
        /\ \/ adv = old
           \/ /\ old.kind = "growth_run" /\ old.proc = p /\ old.status = "IN PROCESS"
              /\ adv.status # "IN PROCESS"
    <3>. HIDE DEF old
    <3>. QED
      BY <2>1 DEF advanceGrowthRunToStock, Lot
  <2>. HIDE DEF old, adv
  <2>. QED
    BY ONLY <2>1, <2>2, <2>3
<1>12. \/ procs' = procs /\ ~(r.last /\ Closable(p) /\ ~OutputBased(procs[p].type))
       \/ /\ r.last /\ ~OutputBased(procs[p].type)
          /\ procs' = [procs EXCEPT ![p].status = "completed"]
  BY DEF FinishReturn
<1>. HIDE DEF awaits
<1>. QED
  BY <1>2, <1>3, <1>4, <1>5, <1>6, <1>9, <1>11, <1>12 DEF ReturnEffect


(* The last return of a process releases its biscuit.  An open issue that  *)
(* held the biscuit would be of the same process, so this return would not *)
(* have been the last.                                                     *)
LEMMA FinishReturnHolds ==
    ASSUME HInv, IInv', NEW s \in Sessions, FinishReturn(s)
    PROVE  HInv'
<1>. DEFINE r == sess[s]
            i == r.issue
            l == issues[i].lot
            p == issues[i].proc
<1>1. ReturnEffect(s)
  BY ReturnWrites DEF HInv
<1>2. /\ i \in DOMAIN issues /\ issues[i].status = "OPEN" /\ l \in DOMAIN lots
      /\ p \in {0} \cup DOMAIN procs /\ r.remaining \in Nat
      /\ r.last => r.remaining = 0 /\ NoOpenSibling(i) /\ p \in DOMAIN procs
      /\ DOMAIN issues' = DOMAIN issues
      /\ issues'[i].lot = l /\ issues'[i].proc = p
      /\ issues'[i].status = IF r.remaining = 0 THEN "RETURNED" ELSE "OPEN"
      /\ \A j \in DOMAIN issues \ {i} : issues'[j] = issues[j]
  BY <1>1 DEF ReturnEffect
<1>3. /\ \A x \in DOMAIN lots :
            /\ x \in DOMAIN lots'
            /\ lots'[x].kind = lots[x].kind /\ lots'[x].proc = lots[x].proc
            /\ lots'[x].outputs = lots[x].outputs
            /\ \/ lots'[x] = lots[x]
               \/ x = l /\ r.remaining = 0
               \/ /\ r.last /\ lots[x].kind = "growth_run" /\ lots[x].proc = p
                  /\ lots[x].status = "IN PROCESS"
      /\ \A x \in DOMAIN lots' \ DOMAIN lots : lots'[x].outputs = 0
  BY <1>1 DEF ReturnEffect
<1>4. procs' = procs \/ (r.last /\ procs' = [procs EXCEPT ![p].status = "completed"])
  BY <1>1 DEF ReturnEffect
<1>. HIDE DEF r, i, l, p
<1>5. IssuesStay
  BY <1>2 DEF IssuesStay, l, p
<1>6. HeldStay
  <2>1. ASSUME NEW j \in DOMAIN issues, issues'[j].status = "OPEN", Held(j), NEW x, x = issues[j].lot
        PROVE  lots'[x] = lots[x]
    <3>1. x \in DOMAIN lots /\ issues[j].status = "OPEN"
      BY <1>5, <2>1, IssueFields DEF IssuesStay, HInv, IInv
    <3>2. CASE j = i
      <4>1. r.remaining # 0
        BY <1>2, <2>1, <3>2
      <4>. QED
        BY <1>2, <1>3, <3>1, <4>1
    <3>3. CASE j # i
      <4>1. x # l
        BY <1>2, <2>1, <3>3 DEF Held, l
      <4>2. lots[x].kind = "growth_run" => lots[x].proc = issues[j].proc
        BY <2>1 DEF Held
      <4>3. r.last => issues[j].proc # p
        BY <1>2, <3>1, <3>3 DEF NoOpenSibling, p
      <4>. QED
        BY <1>3, <3>1, <4>1, <4>2, <4>3
    <3>. QED
      BY <3>2, <3>3
  <2>2. ASSUME NEW j \in DOMAIN issues, issues'[j].status = "OPEN", Held(j)
        PROVE  /\ lots'[issues[j].lot].status = "IN PROCESS"
               /\ lots'[issues[j].lot].proc = lots[issues[j].lot].proc
    <3>1. lots'[issues[j].lot] = lots[issues[j].lot]
      BY <2>1, <2>2
    <3>. QED
      BY <2>2, <3>1 DEF Held
  <2>. QED
    BY ONLY <1>3, <2>2 DEF HeldStay
<1>7. OutputsStay
  <2>1. ASSUME NEW x \in DOMAIN lots, lots[x].status = "CONSUMED", ~IssuedByHand(x)
        PROVE  lots'[x].status = "CONSUMED"
    <3>1. x # l
      BY <1>2, <2>1 DEF HInv, LotsHeld, ByHand, Held, l
    <3>. QED
      BY <1>3, <2>1, <3>1
  <2>. QED
    BY <1>3, <2>1 DEF OutputsStay
<1>8. ProcsStep
  <2>1. procs' = procs => ProcsStep
    BY DEF ProcsStep
  <2>. QED
    BY <1>2, <1>4, <2>1, TypeStays DEF HInv
<1>9. sess'[s] = Idle /\ \A t \in Sessions \ {s} : sess'[t] = sess[t]
  BY EndSession DEF FinishReturn, HInv, IInv, TablesOK
<1>10. \A t \in Sessions : CompleteOK(t)'
  <2>1. \A t \in Sessions : sess'[t].op = "complete" => sess'[t] = sess[t]
    BY <1>9 DEF Idle
  <2>. QED
    BY <1>8, <2>1, CompleteKeeps
<1>11. LotsHeld' /\ OutputOnce'
  BY <1>5, <1>6, <1>7, HeldKeeps, ByHandKeeps, OutputKeeps DEF HInv, IInv
<1>. QED
  BY <1>5, <1>10, <1>11, ByHandKeeps DEF HInv

(* Issues of lots that were in stock, or that are inserted, each of its    *)
(* own lot, take nothing from an open issue.                               *)
LEMMA IssuingHolds ==
    ASSUME HInv,
           DOMAIN issues \subseteq DOMAIN issues',
           \A i \in DOMAIN issues : issues'[i] = issues[i],
           \A l \in DOMAIN lots :
               /\ l \in DOMAIN lots'
               /\ lots'[l].kind = lots[l].kind /\ lots'[l].outputs = lots[l].outputs
               /\ lots[l].status # "IN STOCK" => lots'[l] = lots[l],
           \A l \in DOMAIN lots' \ DOMAIN lots : lots'[l].outputs = 0,
           \A i \in DOMAIN issues' \ DOMAIN issues :
               LET l == issues'[i].lot IN
               /\ lots'[l].status = "IN PROCESS"
               /\ l \in DOMAIN lots => lots[l].status = "IN STOCK"
               /\ lots'[l].kind = "growth_run" =>
                      issues'[i].proc = 0 \/ lots'[l].proc = issues'[i].proc,
           \A i, j \in DOMAIN issues' \ DOMAIN issues : issues'[i].lot = issues'[j].lot => i = j
    PROVE  LotsHeld' /\ OutputOnce'
<1>1. \A l : IssuedByHand(l) => IssuedByHand(l)'
  BY DEF IssuedByHand
<1>2. ASSUME NEW i \in DOMAIN issues', issues'[i].status = "OPEN", ~ByHand(issues[i].lot)'
      PROVE  Held(i)'
  <2>. DEFINE l == issues'[i].lot
  <2>1. l \in DOMAIN lots => ~ByHand(l)
    BY <1>1, <1>2 DEF ByHand
  <2>2. CASE i \in DOMAIN issues
    <3>1. l = issues[i].lot /\ l \in DOMAIN lots /\ issues[i].status = "OPEN"
      BY <1>2, <2>2, IssueFields DEF HInv, IInv
    <3>2. Held(i)
      BY <2>1, <2>2, <3>1 DEF HInv, LotsHeld
    <3>3. lots'[l] = lots[l] /\ lots[l].status = "IN PROCESS"
      BY <3>1, <3>2 DEF Held
    <3>4. \A j \in DOMAIN issues' : issues'[j].status = "OPEN" /\ issues'[j].lot = l => i = j
      <4>1. \A j \in DOMAIN issues : issues[j].status = "OPEN" /\ issues[j].lot = l => i = j
        BY <3>1, <3>2 DEF Held
      <4>2. \A j \in DOMAIN issues' \ DOMAIN issues : issues'[j].lot # l
        BY <3>1, <3>3
      <4>. QED
        BY <4>1, <4>2
    <3>. QED
      BY <2>2, <3>1, <3>2, <3>3, <3>4 DEF Held
  <2>3. CASE i \notin DOMAIN issues
    <3>1. lots'[l].status = "IN PROCESS" /\ (l \in DOMAIN lots => lots[l].status = "IN STOCK")
      BY <1>2, <2>3
    <3>2. lots'[l].kind = "growth_run" => lots'[l].proc = issues'[i].proc
      BY <1>2, <2>3 DEF ByHand, IssuedByHand
    <3>3. \A j \in DOMAIN issues' : issues'[j].status = "OPEN" /\ issues'[j].lot = l => i = j
      <4>1. ASSUME NEW j \in DOMAIN issues, issues[j].status = "OPEN", issues[j].lot = l
            PROVE  FALSE
        <5>1. l \in DOMAIN lots
          BY <4>1, IssueFields DEF HInv, IInv
        <5>. QED
          BY <2>1, <3>1, <4>1, <5>1 DEF HInv, LotsHeld, Held
      <4>. QED
        BY <1>2, <2>3, <4>1
    <3>. QED
      BY <3>1, <3>2, <3>3 DEF Held
  <2>. QED
    BY <2>2, <2>3
<1>3. LotsHeld'
  BY <1>2 DEF LotsHeld
<1>4. OutputsStay
  BY DEF OutputsStay
<1>. QED
  BY <1>1, <1>3, <1>4, OutputKeeps DEF HInv

(* What the loop over the entries of a request leaves of a source row,     *)
(* when the entries name different lots.                                   *)
LEMMA AfterIssueRow ==
    ASSUME NEW req \in Requests, NEW p, NEW l \in DOMAIN lots,
           \A j, k \in DOMAIN req : req[j].lot = req[k].lot => j = k
    PROVE  /\ (\A k \in DOMAIN req : req[k].lot # l) => AfterIssue(req, p, l) = lots[l]
           /\ \A k \in DOMAIN req :
                 req[k].lot = l => AfterIssue(req, p, l) = WriteSource(lots[l], req[k], p)
<1>1. /\ Len(req) \in {1, 2} /\ DOMAIN req = 1..Len(req)
  BY RequestFacts
<1>2. CASE Len(req) = 1
  <2>1. DOMAIN req = {1}
    BY <1>1, <1>2
  <2>. QED
    BY <1>2, <2>1 DEF AfterIssue, AfterEntry
<1>3. CASE Len(req) = 2
  <2>1. DOMAIN req = {1, 2}
    BY <1>1, <1>3
  <2>2. req[1].lot # req[2].lot
    BY <2>1
  <2>. QED
    BY <1>3, <2>1, <2>2 DEF AfterIssue, AfterEntry
<1>. QED
  BY <1>1, <1>2, <1>3

LEMMA WrittenRow ==
    ASSUME NEW l, lots[l] \in Lot, NEW e, NEW p
    PROVE  /\ WriteSource(lots[l], e, p).kind = lots[l].kind
           /\ WriteSource(lots[l], e, p).outputs = lots[l].outputs
           /\ InPlace(e, p) => /\ WriteSource(lots[l], e, p).status = "IN PROCESS"
                               /\ p # 0 => WriteSource(lots[l], e, p).proc = p
<1>1. CASE InPlace(e, p)
  BY <1>1 DEF WriteSource, Lot
<1>2. CASE ~InPlace(e, p)
  BY <1>2 DEF WriteSource, Lot
<1>. QED
  BY <1>1, <1>2

(* Where the rows a request inserts are found.                             *)
ChildRowOf(e) == [kind |-> lots[e.lot].kind, status |-> "IN PROCESS", qty |-> e.qty,
                  proc |-> 0, outputs |-> 0]

LEMMA ChildFields ==
    ASSUME NEW e
    PROVE  /\ ChildRowOf(e).status = "IN PROCESS" /\ ChildRowOf(e).kind = lots[e.lot].kind
           /\ ChildRowOf(e).outputs = 0
  BY DEF ChildRowOf

LEMMA ChildIs ==
    ASSUME NEW e, NEW p
    PROVE  ChildOf(e, p) = IF InPlace(e, p) THEN <<>> ELSE <<ChildRowOf(e)>>
  BY DEF ChildOf, ChildRowOf


(* Where the rows a request inserts are found.                             *)
LEMMA ChildrenAt ==
    ASSUME TablesOK, NEW req \in Requests, NEW p
    PROVE  /\ Len(Children(req, p)) \in Nat
           /\ DOMAIN Children(req, p) = 1..Len(Children(req, p))
           /\ \A n \in DOMAIN Children(req, p) :
                 /\ Children(req, p)[n].outputs = 0
                 /\ Children(req, p)[n].status = "IN PROCESS"
           /\ \A k \in DOMAIN req : ~InPlace(req[k], p) =>
                \E n \in DOMAIN Children(req, p) :
                    /\ ProcessLot(req, k, p) = Len(lots) + n
                    /\ Children(req, p)[n] = ChildRowOf(req[k])
                    /\ k = 1 => n = 1
                    /\ k = 2 /\ ~InPlace(req[1], p) => n = 2
<1>. DEFINE ch == Children(req, p)
            c == ChildOf(req[1], p)
            d == IF Len(req) = 2 THEN ChildOf(req[2], p) ELSE <<>>
            x == ChildRowOf(req[1])
            y == ChildRowOf(req[2])
            in1 == InPlace(req[1], p)
            in2 == InPlace(req[2], p)
            n1 == ProcessLot(req, 1, p)
            n2 == ProcessLot(req, 2, p)
            nl == Len(lots)
<1>1. Len(req) \in {1, 2} /\ DOMAIN req = 1..Len(req)
  BY RequestFacts
<1>2. DOMAIN req = {1} \/ DOMAIN req = {1, 2}
  BY <1>1
<1>3. Len(req) = 2 <=> 2 \in DOMAIN req
  BY <1>1
<1>4. ch = c \o d
  BY DEF Children
<1>5. c = IF in1 THEN <<>> ELSE <<x>>
  BY ChildIs
<1>6. d = IF 2 \notin DOMAIN req \/ in2 THEN <<>> ELSE <<y>>
  BY <1>3, ChildIs
<1>7. /\ ~in1 => n1 = nl + 1
      /\ ~in2 => n2 = nl + 1 + Len(c)
  BY DEF ProcessLot, TablesOK
<1>8. /\ x.outputs = 0 /\ y.outputs = 0 /\ x.status = "IN PROCESS" /\ y.status = "IN PROCESS"
      /\ nl \in Nat
  <2>1. x.outputs = 0 /\ y.outputs = 0 /\ x.status = "IN PROCESS" /\ y.status = "IN PROCESS"
    BY ChildFields
  <2>2. nl \in Nat
    BY DEF TablesOK
  <2>. QED
    BY <2>1, <2>2
<1>9. SUFFICES /\ Len(ch) \in Nat /\ DOMAIN ch = 1..Len(ch)
               /\ \A n \in DOMAIN ch : ch[n].outputs = 0 /\ ch[n].status = "IN PROCESS"
               /\ ~in1 => 1 \in DOMAIN ch /\ n1 = nl + 1 /\ ch[1] = x
               /\ 2 \in DOMAIN req /\ ~in2 =>
                     \E n \in DOMAIN ch : n2 = nl + n /\ ch[n] = y /\ (~in1 => n = 2)
  BY <1>2
<1>. HIDE DEF ch, c, d, x, y, in1, in2, n1, n2, nl
<1>10. CASE in1
  <2>1. ch = IF 2 \notin DOMAIN req \/ in2 THEN <<>> ELSE <<y>>
    BY <1>4, <1>5, <1>6, <1>10
  <2>2. ~in2 => n2 = nl + 1
    <3>1. c = <<>> /\ Len(<<>>) = 0
      BY <1>5, <1>10
    <3>2. ~in2 => n2 = nl + 1 + 0
      BY <1>7, <3>1
    <3>3. nl \in Nat
      BY <1>8
    <3>. QED
      BY ONLY <3>2, <3>3
  <2>3. CASE 2 \notin DOMAIN req \/ in2
    <3>1. ch = <<>>
      BY <2>1, <2>3
    <3>. QED
      BY <1>10, <2>3, <3>1
  <2>4. CASE ~(2 \notin DOMAIN req \/ in2)
    <3>1. /\ ch = <<y>> /\ n2 = nl + 1
          /\ Len(<<y>>) = 1 /\ DOMAIN <<y>> = {1} /\ 1..1 = {1} /\ 1 \in Nat /\ <<y>>[1] = y
      BY <2>1, <2>2, <2>4
    <3>. QED
      BY <1>8, <1>10, <3>1
  <2>. QED
    BY <2>3, <2>4
<1>11. CASE ~in1 /\ (2 \notin DOMAIN req \/ in2)
  <2>1. c = <<x>> /\ d = <<>>
    BY <1>5, <1>6, <1>11
  <2>2. <<x>> \o <<>> = <<x>>
    <3>1. <<x>> \in Seq({x})
      OBVIOUS
    <3>. QED
      BY <3>1, ConcatEmptySeq
  <2>3. ch = <<x>>
    BY <1>4, <2>1, <2>2
  <2>4. Len(<<x>>) = 1 /\ DOMAIN <<x>> = {1} /\ 1..1 = {1} /\ 1 \in Nat /\ <<x>>[1] = x
    OBVIOUS
  <2>. QED
    BY <1>7, <1>8, <1>11, <2>3, <2>4
<1>12. CASE ~in1 /\ ~(2 \notin DOMAIN req \/ in2)
  <2>1. c = <<x>> /\ d = <<y>>
    BY <1>5, <1>6, <1>12
  <2>2. Len(ch) = 2 /\ DOMAIN ch = 1..2 /\ ch[1] = x /\ ch[2] = y
    <3>1. <<x>> \in Seq({x, y}) /\ <<y>> \in Seq({x, y})
      OBVIOUS
    <3>2. Len(<<x>>) = 1 /\ Len(<<y>>) = 1 /\ <<x>>[1] = x /\ <<y>>[1] = y
      OBVIOUS
    <3>. QED
      BY <1>4, <2>1, <3>1, <3>2
  <2>3. n2 = nl + 2
    <3>1. Len(c) = 1
      BY <2>1
    <3>2. n2 = nl + 1 + 1
      BY <1>7, <1>12, <3>1
    <3>3. nl \in Nat
      BY <1>8
    <3>. QED
      BY ONLY <3>2, <3>3
  <2>4. 1..2 = {1, 2} /\ 2 \in Nat
    OBVIOUS
  <2>. QED
    BY <1>7, <1>8, <1>12, <2>2, <2>3, <2>4
<1>. QED
  BY <1>10, <1>11, <1>12

(* What an entry of a request does to the tables.                          *)
LEMMA SourceFields ==
    ASSUME TablesOK, NEW req \in Requests, NEW p, NEW l \in DOMAIN lots,
           \A j, k \in DOMAIN req : req[j].lot = req[k].lot => j = k,
           \A k \in DOMAIN req : Issuable(req[k])
    PROVE  /\ AfterIssue(req, p, l).kind = lots[l].kind
           /\ AfterIssue(req, p, l).outputs = lots[l].outputs
           /\ lots[l].status # "IN STOCK" => AfterIssue(req, p, l) = lots[l]
<1>1. lots[l] \in Lot
  BY TablesTyped DEF TypeOK
<1>2. CASE \A k \in DOMAIN req : req[k].lot # l
  BY <1>2, AfterIssueRow
<1>3. CASE \E k \in DOMAIN req : req[k].lot = l
  <2>1. PICK k \in DOMAIN req : req[k].lot = l
    BY <1>3
  <2>2. AfterIssue(req, p, l) = WriteSource(lots[l], req[k], p)
    BY <2>1, AfterIssueRow
  <2>3. lots[l].status = "IN STOCK"
    BY <2>1 DEF Issuable
  <2>4. /\ WriteSource(lots[l], req[k], p).kind = lots[l].kind
        /\ WriteSource(lots[l], req[k], p).outputs = lots[l].outputs
    BY ONLY <1>1, WrittenRow
  <2>. QED
    BY <2>2, <2>3, <2>4
<1>. QED
  BY <1>2, <1>3

(* With a machine a biscuit always enters the new process itself.          *)
LEMMA IssueToMachineHolds ==
    ASSUME Holding, HInv, NEW m, NEW t, NEW req \in Requests, IssueToMachine(m, t, req)
    PROVE  LotsHeld' /\ OutputOnce' /\ NoHandIssue'
<1>. DEFINE p == Len(procs) + 1
            ch == Children(req, p)
            gr == createGrowthRun(t, req, p)
            inserted == ch \o gr
            more == [k \in DOMAIN req |-> NewIssue(req, k, p)]
            ni == Len(issues)
            nl == Len(lots)
<1>1. /\ TablesOK /\ p \in Nat /\ p # 0 /\ nl \in Nat /\ DOMAIN lots = 1..nl
      /\ ni \in Nat /\ DOMAIN issues = 1..ni
  BY DEF HInv, IInv, TablesOK
<1>2. /\ issues' = issues \o more
      /\ lots' = [l \in DOMAIN lots |-> AfterIssue(req, p, l)] \o inserted
      /\ \A k \in DOMAIN req : Issuable(req[k])
      /\ \A j, k \in DOMAIN req : req[j].lot = req[k].lot => j = k
  BY DEF IssueToMachine, Holding
<1>3. /\ Len(req) \in {1, 2} /\ DOMAIN req = 1..Len(req)
      /\ \A k \in DOMAIN req : req[k].lot \in DOMAIN lots
  BY <1>1, RequestFacts, EntryFacts
<1>4. /\ Len(ch) \in Nat
      /\ DOMAIN ch = 1..Len(ch)
      /\ \A n \in DOMAIN ch : ch[n].outputs = 0
      /\ \A k \in DOMAIN req : ~InPlace(req[k], p) =>
           \E n \in DOMAIN ch :
               /\ ProcessLot(req, k, p) = nl + n
               /\ ch[n] = ChildRowOf(req[k])
               /\ k = 1 => n = 1
               /\ k = 2 /\ ~InPlace(req[1], p) => n = 2
  <2>. HIDE DEF p
  <2>. QED
    BY <1>1, ChildrenAt
<1>5. gr = <<>> \/ \E q : gr = <<q>> /\ q.outputs = 0
  <2>. DEFINE q == [kind |-> "growth_run", status |-> "IN PROCESS",
                    qty |-> req[1].qty + (IF Len(req) = 2 THEN req[2].qty ELSE 0),
                    proc |-> p, outputs |-> 0]
  <2>1. gr = <<>> \/ gr = <<q>>
    BY DEF createGrowthRun
  <2>2. q.outputs = 0
    OBVIOUS
  <2>. HIDE DEF q, gr
  <2>. QED
    BY <2>1, <2>2
<1>6. /\ Len(inserted) \in Nat /\ DOMAIN inserted = 1..Len(inserted)
      /\ \A n \in DOMAIN ch : n \in DOMAIN inserted /\ inserted[n] = ch[n]
      /\ \A n \in DOMAIN inserted : inserted[n].outputs = 0
  <2>. HIDE DEF ch, gr
  <2>1. Len(gr) \in Nat /\ DOMAIN gr = 1..Len(gr) /\ \A n \in DOMAIN gr : gr[n].outputs = 0
    BY <1>5
  <2>2. DOMAIN inserted = 1..(Len(ch) + Len(gr)) /\ Len(inserted) = Len(ch) + Len(gr)
    BY <1>4, <2>1
  <2>3. \A n \in 1..(Len(ch) + Len(gr)) :
           inserted[n] = IF n <= Len(ch) THEN ch[n] ELSE gr[n - Len(ch)]
    BY <1>4, <2>1
  <2>. QED
    BY <1>4, <2>1, <2>2, <2>3
<1>7. /\ \A l \in DOMAIN lots : l \in DOMAIN lots' /\ lots'[l] = AfterIssue(req, p, l)
      /\ \A n \in DOMAIN ch : nl + n \in DOMAIN lots' \ DOMAIN lots /\ lots'[nl + n] = ch[n]
      /\ \A l \in DOMAIN lots' \ DOMAIN lots : lots'[l].outputs = 0
  <2>. DEFINE source == [l \in DOMAIN lots |-> AfterIssue(req, p, l)]
  <2>0. /\ source \in [1..nl -> {AfterIssue(req, p, l) : l \in DOMAIN lots}]
        /\ \A l \in DOMAIN lots : source[l] = AfterIssue(req, p, l)
        /\ lots' = source \o inserted
    BY <1>1, <1>2
  <2>. HIDE DEF p, inserted, ch, nl, source
  <2>1. /\ \A l \in DOMAIN lots : l \in DOMAIN lots' /\ lots'[l] = source[l]
        /\ \A n \in DOMAIN inserted : nl + n \in DOMAIN lots' \ DOMAIN lots /\ lots'[nl + n] = inserted[n]
        /\ \A l \in DOMAIN lots' \ DOMAIN lots :
              l - nl \in DOMAIN inserted /\ lots'[l] = inserted[l - nl]
    <3>1. nl \in Nat /\ DOMAIN lots = 1..nl
      BY <1>1
    <3>2. /\ \A l \in 1..nl : l \in DOMAIN lots' /\ lots'[l] = source[l]
          /\ \A n \in DOMAIN inserted :
                nl + n \in DOMAIN lots' \ (1..nl) /\ lots'[nl + n] = inserted[n]
          /\ \A l \in DOMAIN lots' \ (1..nl) :
                l - nl \in DOMAIN inserted /\ lots'[l] = inserted[l - nl]
      BY ONLY <1>6, <2>0, <3>1, RowsInserted
    <3>. QED
      BY ONLY <3>1, <3>2
  <2>. QED
    BY <1>6, <2>0, <2>1
<1>8. \A l \in DOMAIN lots :
          /\ l \in DOMAIN lots'
          /\ lots'[l].kind = lots[l].kind /\ lots'[l].outputs = lots[l].outputs
          /\ lots[l].status # "IN STOCK" => lots'[l] = lots[l]
  <2>. HIDE DEF p
  <2>1. ASSUME NEW l \in DOMAIN lots
        PROVE  /\ AfterIssue(req, p, l).kind = lots[l].kind
               /\ AfterIssue(req, p, l).outputs = lots[l].outputs
               /\ lots[l].status # "IN STOCK" => AfterIssue(req, p, l) = lots[l]
    <3>1. TablesOK
      BY <1>1
    <3>2. \A j, k \in DOMAIN req : req[j].lot = req[k].lot => j = k
      BY <1>2
    <3>3. \A k \in DOMAIN req : Issuable(req[k])
      BY <1>2
    <3>. QED
      BY <3>1, <3>2, <3>3, SourceFields
  <2>. QED
    BY <1>7, <2>1
<1>9. /\ DOMAIN issues \subseteq DOMAIN issues'
      /\ \A i \in DOMAIN issues : issues'[i] = issues[i]
      /\ \A i \in DOMAIN issues' \ DOMAIN issues :
            i - ni \in DOMAIN req /\ issues'[i] = NewIssue(req, i - ni, p)
      /\ DOMAIN issues' \subseteq Nat
  <2>. DEFINE S == {more[k] : k \in DOMAIN req} \cup {issues[i] : i \in DOMAIN issues}
  <2>1. more \in Seq(S) /\ issues \in Seq(S) /\ DOMAIN more = DOMAIN req
    <3>1. more \in [1..Len(req) -> S] /\ issues \in [1..ni -> S] /\ Len(req) \in Nat
      BY <1>1, <1>3 DEF TablesOK
    <3>2. issues \in Seq(S)
      <4>1. \A i \in DOMAIN issues : issues[i] \in S
        OBVIOUS
      <4>2. issues \in Seq(IssueRow(Len(lots), Len(procs)))
        BY <1>1 DEF TablesOK
      <4>. HIDE DEF S
      <4>. QED
        BY <4>1, <4>2
    <3>. HIDE DEF S, more
    <3>. QED
      BY <1>3, <3>1, <3>2, RewriteRows
  <2>2. \A k \in DOMAIN req : more[k] = NewIssue(req, k, p)
    OBVIOUS
  <2>. HIDE DEF more, S, p
  <2>3. /\ DOMAIN issues \subseteq DOMAIN issues'
        /\ \A i \in DOMAIN issues : issues'[i] = issues[i]
        /\ \A i \in DOMAIN issues' \ DOMAIN issues :
              i - ni \in DOMAIN more /\ issues'[i] = more[i - ni]
        /\ issues' \in Seq(S)
    BY <1>2, <2>1, InsertRows
  <2>. QED
    BY <2>1, <2>2, <2>3
<1>10. ASSUME NEW k \in DOMAIN req
       PROVE  LET l == ProcessLot(req, k, p) IN
              /\ lots'[l].status = "IN PROCESS"
              /\ l \in DOMAIN lots => lots[l].status = "IN STOCK"
              /\ lots'[l].kind = "growth_run" => lots'[l].proc = p
              /\ IF InPlace(req[k], p) THEN l = req[k].lot /\ l \in DOMAIN lots
                 ELSE /\ l \notin DOMAIN lots
                      /\ k = 1 => l = nl + 1
                      /\ k = 2 /\ ~InPlace(req[1], p) => l = nl + 2
  <2>. DEFINE l == ProcessLot(req, k, p)
  <2>1. CASE InPlace(req[k], p)
    <3>1. l = req[k].lot /\ l \in DOMAIN lots
      BY <1>3, <2>1 DEF ProcessLot
    <3>2. lots'[l] = WriteSource(lots[l], req[k], p)
      <4>1. \A i, j \in DOMAIN req : req[i].lot = req[j].lot => i = j
        BY <1>2
      <4>. HIDE DEF p, l
      <4>2. AfterIssue(req, p, l) = WriteSource(lots[l], req[k], p)
        BY <3>1, <4>1, AfterIssueRow
      <4>. QED
        BY <1>7, <3>1, <4>2
    <3>3. lots[l] \in Lot /\ lots[l].status = "IN STOCK"
      <4>1. lots[l].status = "IN STOCK"
        BY <1>2, <3>1 DEF Issuable
      <4>2. lots[l] \in Lot
        BY <1>1, <3>1, TablesTyped DEF TypeOK
      <4>. QED
        BY <4>1, <4>2
    <3>4. lots'[l].status = "IN PROCESS" /\ lots'[l].proc = p
      <4>1. lots[l] \in Lot /\ InPlace(req[k], p) /\ p # 0
        BY <1>1, <2>1, <3>3
      <4>. HIDE DEF p, l
      <4>2. /\ WriteSource(lots[l], req[k], p).status = "IN PROCESS"
            /\ WriteSource(lots[l], req[k], p).proc = p
        BY ONLY <4>1 DEF WriteSource, Lot
      <4>. QED
        BY <3>2, <4>2
    <3>. QED
      BY <2>1, <3>1, <3>3, <3>4
  <2>2. CASE ~InPlace(req[k], p)
    <3>1. PICK n \in DOMAIN ch : /\ l = nl + n
                                 /\ ch[n] = ChildRowOf(req[k])
                                 /\ k = 1 => n = 1
                                 /\ k = 2 /\ ~InPlace(req[1], p) => n = 2
      BY <1>4, <2>2
    <3>2. lots[req[k].lot].kind # "growth_run"
      BY <1>1, <2>2 DEF InPlace
    <3>. HIDE DEF p, l, ch, nl
    <3>3. l \notin DOMAIN lots /\ lots'[l] = ChildRowOf(req[k])
      BY <1>7, <3>1
    <3>4. lots'[l].status = "IN PROCESS" /\ lots'[l].kind # "growth_run"
      BY <3>2, <3>3, ChildFields
    <3>5. (k = 1 => l = nl + 1) /\ (k = 2 /\ ~InPlace(req[1], p) => l = nl + 2)
      BY <3>1
    <3>6. /\ lots'[l].status = "IN PROCESS"
          /\ l \in DOMAIN lots => lots[l].status = "IN STOCK"
          /\ lots'[l].kind = "growth_run" => lots'[l].proc = p
          /\ l \notin DOMAIN lots
          /\ k = 1 => l = nl + 1
          /\ k = 2 /\ ~InPlace(req[1], p) => l = nl + 2
      BY <3>3, <3>4, <3>5
    <3>. QED
      BY <2>2, <3>6 DEF l
  <2>. QED
    BY <2>1, <2>2
<1>11. \A j, k \in DOMAIN req : ProcessLot(req, j, p) = ProcessLot(req, k, p) => j = k
  <2>1. DOMAIN req = {1} \/ DOMAIN req = {1, 2}
    BY <1>3
  <2>2. 2 \in DOMAIN req => ProcessLot(req, 1, p) # ProcessLot(req, 2, p)
    <3>. DEFINE a == ProcessLot(req, 1, p)
                b == ProcessLot(req, 2, p)
    <3>1. SUFFICES ASSUME 1 \in DOMAIN req, 2 \in DOMAIN req PROVE a # b
      BY <2>1
    <3>2. /\ IF InPlace(req[1], p) THEN a = req[1].lot /\ a \in DOMAIN lots
             ELSE a \notin DOMAIN lots /\ a = nl + 1
          /\ IF InPlace(req[2], p) THEN b = req[2].lot /\ b \in DOMAIN lots
             ELSE b \notin DOMAIN lots /\ (~InPlace(req[1], p) => b = nl + 2)
      BY <1>10, <3>1
    <3>3. req[1].lot # req[2].lot
      BY <1>2, <3>1
    <3>4. nl + 1 # nl + 2
      BY <1>1
    <3>. HIDE DEF a, b, p, nl
    <3>. QED
      BY <3>2, <3>3, <3>4
  <2>. QED
    BY <2>1, <2>2
<1>12. \A i \in DOMAIN issues' \ DOMAIN issues :
           /\ i - ni \in DOMAIN req /\ i \in Nat
           /\ issues'[i].lot = ProcessLot(req, i - ni, p)
           /\ issues'[i].proc = p
  BY <1>9 DEF NewIssue
<1>13. LotsHeld' /\ OutputOnce'
  <2>. HIDE DEF p, ch, nl, ni
  <2>1. \A i \in DOMAIN issues' \ DOMAIN issues :
            LET l == issues'[i].lot IN
            /\ lots'[l].status = "IN PROCESS"
            /\ l \in DOMAIN lots => lots[l].status = "IN STOCK"
            /\ lots'[l].kind = "growth_run" =>
                   issues'[i].proc = 0 \/ lots'[l].proc = issues'[i].proc
    <3>. SUFFICES ASSUME NEW i \in DOMAIN issues' \ DOMAIN issues
                  PROVE  LET l == issues'[i].lot IN
                         /\ lots'[l].status = "IN PROCESS"
                         /\ l \in DOMAIN lots => lots[l].status = "IN STOCK"
                         /\ lots'[l].kind = "growth_run" =>
                                issues'[i].proc = 0 \/ lots'[l].proc = issues'[i].proc
      OBVIOUS
    <3>. DEFINE l == ProcessLot(req, i - ni, p)
    <3>1. issues'[i].lot = l /\ issues'[i].proc = p
      BY <1>12
    <3>2. /\ lots'[l].status = "IN PROCESS"
          /\ l \in DOMAIN lots => lots[l].status = "IN STOCK"
          /\ lots'[l].kind = "growth_run" => lots'[l].proc = p
      BY <1>10, <1>12
    <3>. HIDE DEF l
    <3>. QED
      BY <3>1, <3>2
  <2>2. ASSUME NEW i \in DOMAIN issues' \ DOMAIN issues, NEW j \in DOMAIN issues' \ DOMAIN issues,
               issues'[i].lot = issues'[j].lot
        PROVE  i = j
    <3>1. i - ni = j - ni
      BY <1>11, <1>12, <2>2
    <3>. QED
      BY <1>1, <1>12, <3>1
  <2>. QED
    BY <1>7, <1>8, <1>9, <2>1, <2>2, IssuingHolds
<1>14. NoHandIssue'
  BY <1>1, <1>9, <1>12 DEF NoHandIssue, HInv
<1>. QED
  BY <1>13, <1>14

(* Without a machine a biscuit may be left with another process: the issue *)
(* makes it one that is issued by hand.                                    *)
LEMMA HandIssueHolds ==
    ASSUME HInv, NEW e \in Entries, HandIssue(e)
    PROVE  LotsHeld' /\ OutputOnce' /\ NoHandIssue'
<1>. DEFINE req == <<e>>
            row == NewIssue(req, 1, 0)
            l == ProcessLot(req, 1, 0)
            ch == ChildOf(e, 0)
            source == [x \in DOMAIN lots |-> AfterIssue(req, 0, x)]
            nl == Len(lots)
            ni == Len(issues)
<1>1. /\ TablesOK /\ nl \in Nat /\ DOMAIN lots = 1..nl
      /\ ni \in Nat /\ DOMAIN issues = 1..ni
  BY DEF HInv, IInv, TablesOK
<1>2. /\ issues' = Append(issues, row)
      /\ lots' = source \o ch
      /\ Issuable(e)
      /\ "hand_issue" \in Ops
  BY DEF HandIssue
<1>3. req \in Requests /\ DOMAIN req = {1} /\ req[1] = e /\ e.lot \in DOMAIN lots
  BY <1>1, EntryFacts DEF Requests
<1>4. /\ ch = IF InPlace(e, 0) THEN <<>> ELSE <<ChildRowOf(e)>>
      /\ ChildRowOf(e).outputs = 0 /\ ChildRowOf(e).status = "IN PROCESS"
  BY ChildIs, ChildFields
<1>5. l = IF InPlace(e, 0) THEN e.lot ELSE nl + 1
  BY <1>1 DEF ProcessLot
<1>6. row.lot = l /\ row.proc = 0
  BY DEF NewIssue
<1>7. ASSUME NEW x \in DOMAIN lots
      PROVE  /\ source[x].kind = lots[x].kind /\ source[x].outputs = lots[x].outputs
             /\ lots[x].status # "IN STOCK" => source[x] = lots[x]
             /\ x = e.lot /\ InPlace(e, 0) => source[x].status = "IN PROCESS"
  <2>1. source[x] = IF e.lot = x THEN WriteSource(lots[x], e, 0) ELSE lots[x]
    BY DEF AfterIssue, AfterEntry
  <2>2. lots[x] \in Lot
    BY <1>1, TablesTyped DEF TypeOK
  <2>3. e.lot = x => lots[x].status = "IN STOCK"
    BY <1>2 DEF Issuable
  <2>4. /\ WriteSource(lots[x], e, 0).kind = lots[x].kind
        /\ WriteSource(lots[x], e, 0).outputs = lots[x].outputs
        /\ InPlace(e, 0) => WriteSource(lots[x], e, 0).status = "IN PROCESS"
    BY ONLY <2>2, WrittenRow
  <2>. HIDE DEF source, req
  <2>. QED
    BY <2>1, <2>3, <2>4
<1>8. /\ \A x \in DOMAIN lots : x \in DOMAIN lots' /\ lots'[x] = source[x]
      /\ \A x \in DOMAIN lots' \ DOMAIN lots : lots'[x].outputs = 0
      /\ lots'[l].status = "IN PROCESS"
      /\ l \in DOMAIN lots => l = e.lot
  <2>1. source \in [1..nl -> {AfterIssue(req, 0, x) : x \in DOMAIN lots}]
    BY <1>1
  <2>2. Len(ch) \in Nat /\ DOMAIN ch = 1..Len(ch)
    <3>1. ch = <<>> \/ ch = <<ChildRowOf(e)>>
      BY <1>4
    <3>. HIDE DEF ch
    <3>. QED
      BY <3>1
  <2>. HIDE DEF source, ch, nl
  <2>3. /\ \A x \in 1..nl : x \in DOMAIN lots' /\ lots'[x] = source[x]
        /\ \A k \in DOMAIN ch : nl + k \in DOMAIN lots' \ (1..nl) /\ lots'[nl + k] = ch[k]
        /\ \A x \in DOMAIN lots' \ (1..nl) : x - nl \in DOMAIN ch /\ lots'[x] = ch[x - nl]
    <3>1. nl \in Nat /\ lots' = source \o ch
      BY <1>1, <1>2
    <3>. QED
      BY ONLY <2>1, <2>2, <3>1, RowsInserted
  <2>. HIDE DEF l
  <2>4. CASE InPlace(e, 0)
    <3>1. l = e.lot /\ ch = <<>> /\ source[e.lot].status = "IN PROCESS"
      BY <1>3, <1>4, <1>5, <1>7, <2>4
    <3>2. \A k : k \notin DOMAIN ch
      <4>1. Len(<<>>) = 0
        OBVIOUS
      <4>2. \A k : k \notin 1..0
        OBVIOUS
      <4>. QED
        BY <2>2, <3>1, <4>1, <4>2
    <3>3. \A x \in DOMAIN lots : x \in DOMAIN lots' /\ lots'[x] = source[x]
      BY <1>1, <2>3
    <3>4. \A x \in DOMAIN lots' : x \in DOMAIN lots
      BY <1>1, <2>3, <3>2
    <3>. QED
      BY <1>3, <3>1, <3>3, <3>4
  <2>5. CASE ~InPlace(e, 0)
    <3>1. l = nl + 1 /\ ch = <<ChildRowOf(e)>>
      BY <1>4, <1>5, <2>5
    <3>2. DOMAIN ch = {1} /\ ch[1] = ChildRowOf(e)
      BY <3>1
    <3>3. lots'[l] = ChildRowOf(e) /\ l \notin DOMAIN lots
      BY <1>1, <2>3, <3>1, <3>2
    <3>4. \A x \in DOMAIN lots' \ DOMAIN lots : lots'[x] = ChildRowOf(e)
      BY <1>1, <2>3, <3>2
    <3>. QED
      BY <1>1, <1>4, <2>3, <3>3, <3>4
  <2>. QED
    BY <2>4, <2>5
<1>9. /\ DOMAIN issues \subseteq DOMAIN issues'
      /\ \A i \in DOMAIN issues : issues'[i] = issues[i]
      /\ \A i \in DOMAIN issues' \ DOMAIN issues : i = ni + 1 /\ issues'[i] = row
  <2>1. issues \in Seq(IssueRow(Len(lots), Len(procs)))
    BY <1>1 DEF TablesOK
  <2>. HIDE DEF row
  <2>. QED
    BY <1>1, <1>2, <2>1
<1>10. LotsHeld' /\ OutputOnce'
  <2>1. \A x \in DOMAIN lots :
            /\ x \in DOMAIN lots'
            /\ lots'[x].kind = lots[x].kind /\ lots'[x].outputs = lots[x].outputs
            /\ lots[x].status # "IN STOCK" => lots'[x] = lots[x]
    <3>. HIDE DEF source
    <3>. QED
      BY <1>7, <1>8
  <2>2. e.lot \in DOMAIN lots => lots[e.lot].status = "IN STOCK"
    BY <1>2 DEF Issuable
  <2>. HIDE DEF row, l
  <2>3. \A i \in DOMAIN issues' \ DOMAIN issues :
            /\ issues'[i].lot = l /\ issues'[i].proc = 0
            /\ lots'[l].status = "IN PROCESS"
            /\ l \in DOMAIN lots => lots[l].status = "IN STOCK"
    BY <1>6, <1>8, <1>9, <2>2
  <2>4. \A i \in DOMAIN issues' \ DOMAIN issues :
            LET x == issues'[i].lot IN
            /\ lots'[x].status = "IN PROCESS"
            /\ x \in DOMAIN lots => lots[x].status = "IN STOCK"
            /\ lots'[x].kind = "growth_run" =>
                   issues'[i].proc = 0 \/ lots'[x].proc = issues'[i].proc
    BY <2>3
  <2>. QED
    BY <1>8, <1>9, <2>1, <2>4, IssuingHolds
<1>11. NoHandIssue'
  BY <1>2 DEF NoHandIssue
<1>. QED
  BY <1>10, <1>11

LEMMA IssueHolds ==
    ASSUME Holding, HInv, IInv',
           \/ \E m \in Machines, t \in Types, req \in Requests : IssueToMachine(m, t, req)
           \/ \E e \in Entries : HandIssue(e)
    PROVE  HInv'
<1>1. LotsHeld' /\ OutputOnce' /\ NoHandIssue'
  BY IssueToMachineHolds, HandIssueHolds
<1>2. sess' = sess
  BY DEF IssueToMachine, HandIssue
<1>3. ProcsStep
  <2>1. \/ procs' = procs
        \/ \E row : procs' = Append(procs, row)
    BY DEF IssueToMachine, HandIssue
  <2>2. procs \in Seq(Proc)
    BY DEF HInv, IInv, TablesOK
  <2>. QED
    BY <2>1, <2>2 DEF ProcsStep
<1>. QED
  BY <1>1, <1>2, <1>3, CompleteKeeps DEF HInv

LEMMA InitHolds == Init => HInv
<1>. SUFFICES ASSUME Init PROVE HInv
  OBVIOUS
<1>1. issues = <<>> /\ \A s \in Sessions : sess[s] = Idle
  BY DEF Init
<1>2. \A l \in DOMAIN lots : lots[l].outputs = 0
  BY DEF Init, SeedLot
<1>. QED
  BY <1>1, <1>2, InitOK DEF HInv, LotsHeld, OutputOnce, NoHandIssue, CompleteOK, Idle

LEMMA NextHolds == Holding /\ HInv /\ [Next]_vars => HInv'
<1>. SUFFICES ASSUME Holding, HInv, [Next]_vars PROVE HInv'
  OBVIOUS
<1>1. IInv'
  BY NextOK DEF HInv
<1>2. CASE UNCHANGED vars
  <2>1. UNCHANGED <<lots, issues, procs, sess>>
    BY <1>2 DEF vars
  <2>. QED
    BY <1>1, <2>1, QuietHolds DEF ProcsStep
<1>3. ASSUME NEW s \in Sessions, FinishReturn(s)
      PROVE  HInv'
  BY <1>1, <1>3, FinishReturnHolds
<1>4. ASSUME NEW m \in Machines, NEW st \in PanelStatuses, SetMachineStatus(m, st)
      PROVE  HInv'
  BY <1>1, <1>4, SetMachineStatusHolds
<1>5. ASSUME NEW b \in DOMAIN lots, PostOutput(b)
      PROVE  HInv'
  BY <1>1, <1>5, PostOutputHolds
<1>. QED
  BY <1>1, <1>2, <1>3, <1>4, <1>5, IssueHolds, QuietStepsHold DEF Next

(* The invariant holds in every state in which these handlers leave the    *)
(* shop floor.                                                             *)
THEOREM HoldingInvariant ==
    ASSUME Holding
    PROVE  Spec => []HInv
<1>1. HInv /\ [Next]_vars => HInv'
  BY NextHolds
<1>. QED
  BY <1>1, InitHolds, PTL DEF Spec

(* Rough output is posted at most once for a biscuit and consumes it for   *)
(* good, however issues, returns and outputs of any number of requests     *)
(* interleave; only a biscuit once issued without a machine may escape.    *)
THEOREM OutputPostedOnce ==
    ASSUME Holding
    PROVE  Spec => []OutputOnce
<1>1. HInv => OutputOnce
  BY DEF HInv
<1>. QED
  BY <1>1, HoldingInvariant, PTL

(* No interleaving of the handlers takes a lot from under an open issue,   *)
(* or issues it a second time, when nothing is issued without a machine.   *)
THEOREM HeldByOneIssue ==
    ASSUME Holding, "hand_issue" \notin Ops
    PROVE  Spec => []LotHeldOnce
<1>1. HInv => LotHeldOnce
  BY DEF HInv, LotHeldOnce, LotsHeld, Held, ByHand, IssuedByHand, NoHandIssue
<1>. QED
  BY <1>1, HoldingInvariant, PTL

-----------------------------------------------------------------------------
(* Requests that come one at a time.                                       *)
(*                                                                         *)
(* What the comments promise of completion needs that nothing comes        *)
(* between what a request reads and what it writes.  The two handlers that *)
(* do not read before they lock, the machine panel and rough output by     *)
(* biscuit, are therefore left out; lots may be issued meanwhile.          *)

OneRequest ==
    /\ \A s, t \in Sessions : s = t
    /\ "set_status" \notin Ops /\ "output" \notin Ops

(* A biscuit in process has an open issue, or it is the only one of a      *)
(* growth process that is still active, and that process releases it.      *)
OpenOn(l) == \E i \in DOMAIN issues : issues[i].lot = l /\ issues[i].status = "OPEN"
Free(l) ==
    \/ lots[l].kind # "growth_run" \/ lots[l].status # "IN PROCESS"
    \/ lots[l].proc = 0 \/ OpenOn(l)
Growing(l) ==
    LET p == lots[l].proc IN
    /\ p \in DOMAIN procs /\ Active(p) /\ IsGrowth(procs[p].type)
    /\ \A x \in DOMAIN lots : lots[x].kind = "growth_run" /\ lots[x].proc = p => x = l

BiscuitsPlaced == \A l \in DOMAIN lots : Free(l) \/ Growing(l)

(* What a request has read is still so, as no other request has written.   *)
UpToDate(s) ==
    /\ sess[s].op = "output_by_process" =>
          \A l \in DOMAIN lots : lots[l].proc = sess[s].proc => Free(l)
    /\ sess[s].op \in {"hold", "resume"} => Active(sess[s].proc)
    /\ sess[s].op = "return" /\ sess[s].remaining = 0 /\ NoOpenSibling(sess[s].issue)
          => sess[s].last

SInv ==
    /\ IInv
    /\ BiscuitsPlaced
    /\ AllReturnedCompletes
    /\ \A s \in Sessions : UpToDate(s)

(* Lots keep their kind and process, and none enters a process.            *)
LotsSettle ==
    /\ \A x \in DOMAIN lots :
          /\ x \in DOMAIN lots'
          /\ lots'[x].kind = lots[x].kind /\ lots'[x].proc = lots[x].proc
          /\ lots'[x].status = "IN PROCESS" =>
                lots[x].status = "IN PROCESS" /\ (OpenOn(x) => OpenOn(x)')
    /\ \A x \in DOMAIN lots' \ DOMAIN lots : lots'[x].proc = 0

(* No process is reactivated, and a growth process whose biscuits are not  *)
(* free stays active.                                                      *)
ProcsSettle ==
    \A q \in DOMAIN procs :
        /\ q \in DOMAIN procs' /\ procs'[q].type = procs[q].type
        /\ Active(q)' => Active(q)
        /\ Active(q) /\ IsGrowth(procs[q].type) =>
              Active(q)' \/ \A x \in DOMAIN lots : lots[x].proc = q => Free(x) \/ Free(x)'

LEMMA FreeStays ==
    ASSUME LotsSettle, NEW x \in DOMAIN lots, Free(x)
    PROVE  Free(x)'
  BY DEF LotsSettle, Free

LEMMA PlacedKeeps ==
    ASSUME BiscuitsPlaced, LotsSettle, ProcsSettle
    PROVE  BiscuitsPlaced'
<1>1. ASSUME NEW x \in DOMAIN lots PROVE Free(x)' \/ Growing(x)'
  <2>1. CASE Free(x)
    BY <2>1, FreeStays
  <2>2. CASE ~Free(x) /\ Growing(x) /\ ~Free(x)'
    <3>0. PICK q : q = lots[x].proc
      OBVIOUS
    <3>1. q \in DOMAIN procs /\ Active(q) /\ IsGrowth(procs[q].type)
      BY <2>2, <3>0 DEF Growing
    <3>2. q \in DOMAIN procs' /\ procs'[q].type = procs[q].type /\ Active(q)'
      BY <2>2, <3>0, <3>1 DEF ProcsSettle
    <3>3. q # 0 /\ lots'[x].proc = q
      BY <2>2, <3>0 DEF LotsSettle, Free
    <3>4. \A y \in DOMAIN lots' : lots'[y].kind = "growth_run" /\ lots'[y].proc = q => y = x
      BY <2>2, <3>0, <3>3 DEF LotsSettle, Growing
    <3>. QED
      BY <3>1, <3>2, <3>3, <3>4 DEF Growing, IsGrowth, Active
  <2>. QED
    BY <2>1, <2>2 DEF BiscuitsPlaced
<1>2. ASSUME NEW x \in DOMAIN lots' \ DOMAIN lots PROVE Free(x)'
  BY <1>2 DEF LotsSettle, Free
<1>. QED
  BY <1>1, <1>2 DEF BiscuitsPlaced

(* What each step is shown to do.                                          *)
SerialStep ==
    /\ BiscuitsPlaced' /\ AllReturnedCompletes'
    /\ \A s \in Sessions : UpToDate(s)'
    /\ \A p \in DOMAIN procs : Active(p)' => Active(p)

LEMMA EndUpToDate ==
    ASSUME OneRequest, SInv, NEW s \in Sessions, End(s)
    PROVE  \A t \in Sessions : UpToDate(t)'
<1>1. sess'[s] = Idle
  BY EndSession DEF SInv, IInv, TablesOK
<1>2. \A t \in Sessions : sess'[t] = Idle
  BY <1>1 DEF OneRequest
<1>. QED
  BY <1>2 DEF UpToDate, Idle

(* The requests read only.                                                 *)
LEMMA ReadsOnly ==
    ASSUME SInv, UNCHANGED <<lots, issues, procs>>, \A s \in Sessions : UpToDate(s)'
    PROVE  SerialStep
<1>1. LotsSettle
  BY DEF LotsSettle, OpenOn
<1>2. ProcsSettle
  BY DEF ProcsSettle, Active
<1>3. AllReturnedCompletes'
  BY DEF SInv, AllReturnedCompletes, Active
<1>. QED
  BY <1>1, <1>2, <1>3, PlacedKeeps DEF SInv, SerialStep, ProcsSettle

LEMMA BeginsUpToDate ==
    ASSUME OneRequest, SInv, UNCHANGED <<lots, issues, procs>>, NEW s \in Sessions,
           NEW r, Begin(s, r),
           r.op = "output_by_process" => \A l \in DOMAIN lots : lots[l].proc = r.proc => Free(l),
           r.op \in {"hold", "resume"} => Active(r.proc),
           r.op = "return" /\ r.remaining = 0 /\ NoOpenSibling(r.issue) => r.last
    PROVE  SerialStep
<1>1. sess'[s] = r
  BY DEF Begin, SInv, IInv, TablesOK
<1>2. UpToDate(s)'
  BY <1>1 DEF UpToDate, Free, OpenOn, Active, NoOpenSibling
<1>3. \A t \in Sessions : UpToDate(t)'
  BY <1>2 DEF OneRequest
<1>. QED
  BY <1>3, ReadsOnly

LEMMA BeginSerial ==
    ASSUME OneRequest, SInv, NEW s \in Sessions,
           \/ \E i \in DOMAIN issues, ls \in LinesUsed : BeginReturn(s, i, ls)
           \/ \E m \in Machines, t \in Types : \E ls \in SUBSET DOMAIN lots : BeginStart(s, m, t, ls)
           \/ \E p \in DOMAIN procs :
                 BeginHold(s, p) \/ BeginResume(s, p) \/ BeginComplete(s, p) \/ BeginOutput(s, p)
    PROVE  SerialStep
<1>1. ASSUME NEW i \in DOMAIN issues, NEW ls \in LinesUsed, BeginReturn(s, i, ls)
      PROVE  SerialStep
  <2>. DEFINE r == [op |-> "return", issue |-> i, lines |-> ls,
                    remaining |-> issues[i].remaining - Total(ls),
                    last |-> Total(ls) = issues[i].remaining /\ NoOpenSibling(i)]
  <2>1. Begin(s, r) /\ UNCHANGED <<lots, issues, procs>>
    BY <1>1 DEF BeginReturn
  <2>2. issues[i].remaining - Total(ls) = 0 => Total(ls) = issues[i].remaining
    <3>1. Total(ls) \in Nat
      BY TotalNat DEF LinesUsed
    <3>2. issues[i].remaining \in Nat
      <4>1. issues[i] \in Issue
        BY TablesTyped DEF SInv, IInv, TypeOK
      <4>. QED
        BY <4>1 DEF Issue
    <3>. QED
      BY <3>1, <3>2
  <2>3. r.op = "return" /\ (r.remaining = 0 /\ NoOpenSibling(i) => r.last) /\ r.issue = i
    BY <2>2
  <2>. HIDE DEF r
  <2>. QED
    BY <2>1, <2>3, BeginsUpToDate
<1>2. ASSUME NEW m, NEW t, NEW ls, BeginStart(s, m, t, ls) PROVE SerialStep
  <2>. DEFINE r == [op |-> "start", machine |-> m, type |-> t, loaded |-> ls]
  <2>1. Begin(s, r) /\ UNCHANGED <<lots, issues, procs>> /\ r.op = "start"
    BY <1>2 DEF BeginStart
  <2>. HIDE DEF r
  <2>. QED
    BY <2>1, BeginsUpToDate
<1>3. ASSUME NEW p \in DOMAIN procs, BeginHold(s, p) \/ BeginResume(s, p) PROVE SerialStep
  <2>1. PICK op \in {"hold", "resume"} : Begin(s, [op |-> op, proc |-> p])
    BY <1>3 DEF BeginHold, BeginResume
  <2>2. UNCHANGED <<lots, issues, procs>> /\ Active(p)
    BY <1>3 DEF BeginHold, BeginResume, OnHold, Active
  <2>. QED
    BY <2>1, <2>2, BeginsUpToDate
<1>4. ASSUME NEW p \in DOMAIN procs, BeginComplete(s, p) PROVE SerialStep
  <2>. DEFINE r == [op |-> "complete", proc |-> p, biscuit |-> findActiveBiscuitByProcess(p)]
  <2>1. Begin(s, r) /\ UNCHANGED <<lots, issues, procs>> /\ r.op = "complete"
    BY <1>4 DEF BeginComplete
  <2>. HIDE DEF r
  <2>. QED
    BY <2>1, BeginsUpToDate
<1>5. ASSUME NEW p \in DOMAIN procs, BeginOutput(s, p) PROVE SerialStep
  <2>. DEFINE b == findActiveBiscuitByProcess(p)
              r == [op |-> "output_by_process", proc |-> p, biscuit |-> b]
  <2>1. /\ Begin(s, r) /\ UNCHANGED <<lots, issues, procs>>
        /\ r.op = "output_by_process" /\ r.proc = p
    BY <1>5 DEF BeginOutput
  <2>2. b \in BiscuitsOf(p) /\ lots[b].status = "IN STOCK"
    <3>1. BiscuitsOf(p) # {} /\ lots[b].status = "IN STOCK"
      BY <1>5 DEF BeginOutput, OutputReady
    <3>2. p \in Nat
      BY DEF SInv, IInv, TablesOK
    <3>. QED
      BY <3>1, <3>2, BiscuitFound DEF SInv, IInv
  <2>. HIDE DEF b
  <2>3. ASSUME NEW l \in DOMAIN lots, lots[l].proc = p PROVE Free(l)
    <3>1. Growing(l) => b = l
      BY <2>2, <2>3 DEF Growing, BiscuitsOf
    <3>. QED
      BY <2>2, <3>1 DEF SInv, BiscuitsPlaced, Free
  <2>. HIDE DEF r
  <2>. QED
    BY <2>1, <2>3, BeginsUpToDate
<1>. QED
  BY <1>1, <1>2, <1>3, <1>4, <1>5

(* A step that ends its request and settles lots and processes.            *)
LEMMA SettlesOnly ==
    ASSUME OneRequest, SInv, NEW s \in Sessions, End(s),
           LotsSettle, ProcsSettle, AllReturnedCompletes'
    PROVE  SerialStep
  BY EndUpToDate, PlacedKeeps DEF SInv, SerialStep, ProcsSettle

(* Nothing is issued to a process that is not there.                       *)
LEMMA NoIssueYet ==
    ASSUME TablesOK, NEW q \in Nat, q \notin DOMAIN procs, q # 0
    PROVE  \A i \in DOMAIN issues : issues[i].proc # q
  BY IssueFields

LEMMA FinishStartSerial ==
    ASSUME OneRequest, SInv, NEW s \in Sessions, FinishStart(s)
    PROVE  SerialStep
<1>. DEFINE row == [machine |-> sess[s].machine, type |-> sess[s].type,
                    status |-> "running", loaded |-> sess[s].loaded]
<1>1. procs' = Append(procs, row) /\ UNCHANGED <<lots, issues>> /\ End(s)
  BY DEF FinishStart
<1>2. TablesOK /\ procs \in Seq(Proc)
  BY DEF SInv, IInv, TablesOK
<1>. HIDE DEF row
<1>3. /\ DOMAIN procs' = DOMAIN procs \cup {Len(procs) + 1}
      /\ \A q \in DOMAIN procs : procs'[q] = procs[q]
      /\ Len(procs) + 1 \notin DOMAIN procs /\ Len(procs) + 1 # 0 /\ Len(procs) + 1 \in Nat
  BY <1>1, <1>2
<1>4. LotsSettle
  BY <1>1 DEF LotsSettle, OpenOn
<1>5. ProcsSettle
  BY <1>3 DEF ProcsSettle, Active
<1>6. \A i \in DOMAIN issues : issues[i].proc # Len(procs) + 1
  BY <1>2, <1>3, NoIssueYet
<1>7. AllReturnedCompletes'
  <2>1. ASSUME NEW q \in DOMAIN procs', Active(q)', ~OutputBased(procs'[q].type),
               NEW i \in DOMAIN issues', issues'[i].proc = q
        PROVE  \E j \in DOMAIN issues' : issues'[j].proc = q /\ issues'[j].status = "OPEN"
    <3>1. q \in DOMAIN procs
      BY <1>1, <1>3, <1>6, <2>1
    <3>2. Active(q) /\ ~OutputBased(procs[q].type)
      BY <1>3, <2>1, <3>1 DEF Active
    <3>. QED
      BY <1>1, <2>1, <3>1, <3>2 DEF SInv, AllReturnedCompletes
  <2>. QED
    BY <2>1 DEF AllReturnedCompletes, OutputBased
<1>. QED
  BY <1>1, <1>4, <1>5, <1>7, SettlesOnly

(* The status of one process changes, no issue and no lot but, at most, to *)
(* leave the process.                                                      *)
LEMMA StatusWritten ==
    ASSUME OneRequest, SInv, NEW s \in Sessions, End(s), UNCHANGED issues, LotsSettle,
           NEW p \in DOMAIN procs, NEW st,
           procs' = [procs EXCEPT ![p].status = st],
           \/ Active(p) /\ st \in {"running", "hold"}
           \/ /\ st \notin {"running", "hold"}
              /\ \A x \in DOMAIN lots : lots[x].proc = p =>
                    ~IsGrowth(procs[p].type) \/ Free(x) \/ Free(x)'
    PROVE  SerialStep
<1>1. /\ DOMAIN procs' = DOMAIN procs
      /\ \A q \in DOMAIN procs \ {p} : procs'[q] = procs[q]
      /\ procs'[p].type = procs[p].type /\ procs'[p].status = st
  <2>1. procs[p] \in Proc
    BY DEF SInv, IInv, TablesOK
  <2>. QED
    BY <2>1 DEF Proc
<1>2. ProcsSettle
  <2>1. ASSUME NEW q \in DOMAIN procs, q # p
        PROVE  q \in DOMAIN procs' /\ procs'[q].type = procs[q].type /\ (Active(q)' <=> Active(q))
    BY <1>1, <2>1 DEF Active
  <2>2. /\ p \in DOMAIN procs' /\ procs'[p].type = procs[p].type
        /\ Active(p)' => Active(p)
        /\ Active(p) /\ IsGrowth(procs[p].type) =>
              Active(p)' \/ \A x \in DOMAIN lots : lots[x].proc = p => Free(x) \/ Free(x)'
    BY <1>1 DEF Active
  <2>. QED
    BY <2>1, <2>2 DEF ProcsSettle
<1>3. AllReturnedCompletes'
  <2>1. ASSUME NEW q \in DOMAIN procs', Active(q)', ~OutputBased(procs'[q].type),
               NEW i \in DOMAIN issues', issues'[i].proc = q
        PROVE  \E j \in DOMAIN issues' : issues'[j].proc = q /\ issues'[j].status = "OPEN"
    <3>1. q \in DOMAIN procs /\ Active(q) /\ ~OutputBased(procs[q].type)
      BY <1>1, <1>2, <2>1 DEF ProcsSettle
    <3>. QED
      BY <2>1, <3>1 DEF SInv, AllReturnedCompletes
  <2>. QED
    BY <2>1 DEF AllReturnedCompletes, OutputBased
<1>. QED
  BY <1>2, <1>3, SettlesOnly

LEMMA FinishHoldResumeSerial ==
    ASSUME OneRequest, SInv, NEW s \in Sessions, FinishHoldResume(s)
    PROVE  SerialStep
<1>1. PICK p, st : /\ p = sess[s].proc /\ st \in {"running", "hold"}
                   /\ procs' = [procs EXCEPT ![p].status = st]
  BY DEF FinishHoldResume
<1>2. p \in DOMAIN procs /\ Active(p)
  BY <1>1 DEF FinishHoldResume, SInv, IInv, SessionOK, ByProcess, UpToDate
<1>3. LotsSettle
  BY DEF FinishHoldResume, LotsSettle, OpenOn
<1>. QED
  BY <1>1, <1>2, <1>3, StatusWritten DEF FinishHoldResume

LEMMA FinishCompleteSerial ==
    ASSUME OneRequest, SInv, NEW s \in Sessions, FinishComplete(s)
    PROVE  SerialStep
<1>1. PICK p : p = sess[s].proc
  OBVIOUS
<1>2. p \in DOMAIN procs
  BY <1>1 DEF FinishComplete, SInv, IInv, SessionOK, ByProcess
<1>3. /\ procs' = [procs EXCEPT ![p].status = "completed"] /\ End(s) /\ UNCHANGED issues
      /\ lots' = IF IsGrowth(procs[p].type) THEN [l \in DOMAIN lots |-> AfterGrowth(lots[l], p)]
                 ELSE lots
  BY <1>1 DEF FinishComplete
<1>4. ASSUME NEW row \in Lot
      PROVE  /\ AfterGrowth(row, p).kind = row.kind /\ AfterGrowth(row, p).proc = row.proc
             /\ AfterGrowth(row, p).status = "IN PROCESS" => row.status = "IN PROCESS" /\ row.proc # p
  BY DEF AfterGrowth, Lot
<1>5. DOMAIN lots' = DOMAIN lots /\ \A x \in DOMAIN lots : lots[x] \in Lot
  BY <1>3, TablesTyped DEF SInv, IInv, TypeOK
<1>6. LotsSettle
  BY <1>3, <1>4, <1>5 DEF LotsSettle, OpenOn
<1>7. \A x \in DOMAIN lots : lots[x].proc = p => ~IsGrowth(procs[p].type) \/ Free(x)'
  BY <1>3, <1>4, <1>5 DEF Free
<1>. QED
  BY <1>2, <1>3, <1>6, <1>7, StatusWritten

LEMMA FinishOutputSerial ==
    ASSUME OneRequest, SInv, NEW s \in Sessions, FinishOutput(s)
    PROVE  SerialStep
<1>1. PICK p, b : p = sess[s].proc /\ b = sess[s].biscuit
  OBVIOUS
<1>2. p \in DOMAIN procs /\ p # 0 /\ b \in DOMAIN lots /\ lots[b] \in Lot
  BY <1>1, TablesTyped DEF FinishOutput, SInv, IInv, SessionOK, ByProcess, TypeOK
<1>3. /\ procs' = [procs EXCEPT ![p].status = "completed"] /\ End(s) /\ UNCHANGED issues
      /\ lots' = [lots EXCEPT ![b].status = "CONSUMED", ![b].qty = 0, ![b].outputs = @ + 1]
  BY <1>1, <1>2 DEF FinishOutput, RoughOutput
<1>4. LotsSettle
  BY <1>2, <1>3 DEF LotsSettle, OpenOn, Lot
<1>5. \A x \in DOMAIN lots : lots[x].proc = p => Free(x)
  BY <1>1 DEF FinishOutput, SInv, UpToDate
<1>. QED
  BY <1>2, <1>3, <1>4, <1>5, StatusWritten

LEMMA RollbackSerial ==
    ASSUME OneRequest, SInv, NEW s \in Sessions, Rollback(s)
    PROVE  SerialStep
  BY EndUpToDate, ReadsOnly DEF Rollback

(* The last return of a process that completes by its returns finds that   *)
(* it is the last, since no other return comes between.                    *)
LEMMA FinishReturnSerial ==
    ASSUME OneRequest, SInv, NEW s \in Sessions, FinishReturn(s)
    PROVE  SerialStep
<1>1. PICK r, i, l, p : r = sess[s] /\ i = r.issue /\ l = issues[i].lot /\ p = issues[i].proc
  OBVIOUS
<1>2. ReturnEffect(s)
  BY ReturnWrites DEF SInv
<1>3. /\ i \in DOMAIN issues /\ l \in DOMAIN lots /\ issues[i].status = "OPEN"
      /\ p \in {0} \cup DOMAIN procs /\ r.remaining \in Nat
      /\ DOMAIN issues' = DOMAIN issues
      /\ issues'[i].lot = l /\ issues'[i].proc = p
      /\ issues'[i].status = IF r.remaining = 0 THEN "RETURNED" ELSE "OPEN"
      /\ \A j \in DOMAIN issues \ {i} : issues'[j] = issues[j]
  BY <1>1, <1>2 DEF ReturnEffect
<1>4. /\ \A x \in DOMAIN lots :
            /\ x \in DOMAIN lots'
            /\ lots'[x].kind = lots[x].kind /\ lots'[x].proc = lots[x].proc
            /\ x = l /\ r.remaining = 0 => lots'[x].status # "IN PROCESS"
            /\ lots'[x] = lots[x] \/ (x = l /\ r.remaining = 0) \/ lots'[x].status # "IN PROCESS"
      /\ \A x \in DOMAIN lots' \ DOMAIN lots : lots'[x].proc = 0
  BY <1>1, <1>2 DEF ReturnEffect
<1>5. \/ procs' = procs /\ ~(r.last /\ Closable(p) /\ ~OutputBased(procs[p].type))
      \/ /\ p \in DOMAIN procs /\ ~OutputBased(procs[p].type)
         /\ procs' = [procs EXCEPT ![p].status = "completed"]
  BY <1>1, <1>2 DEF ReturnEffect
<1>6. r.remaining = 0 /\ NoOpenSibling(i) => r.last
  BY <1>1 DEF SInv, UpToDate, FinishReturn
<1>7. LotsSettle
  <2>1. ASSUME NEW x \in DOMAIN lots, lots'[x].status = "IN PROCESS"
        PROVE  lots[x].status = "IN PROCESS" /\ (OpenOn(x) => OpenOn(x)')
    <3>1. lots'[x] = lots[x] /\ (x = l => r.remaining # 0)
      BY <1>4, <2>1
    <3>2. ASSUME NEW j \in DOMAIN issues, issues[j].lot = x, issues[j].status = "OPEN"
          PROVE  issues'[j].lot = x /\ issues'[j].status = "OPEN"
      <4>1. CASE j = i
        BY <1>1, <1>3, <3>1, <3>2, <4>1
      <4>2. CASE j # i
        BY <1>3, <3>2, <4>2
      <4>. QED
        BY <4>1, <4>2
    <3>. QED
      BY <1>3, <2>1, <3>1, <3>2 DEF OpenOn
  <2>. QED
    BY <1>4, <2>1 DEF LotsSettle
<1>8. /\ DOMAIN procs' = DOMAIN procs
      /\ \A q \in DOMAIN procs : procs'[q].type = procs[q].type
      /\ \A q \in DOMAIN procs : procs'[q] = procs[q] \/ q = p
      /\ procs' # procs => procs'[p].status = "completed" /\ ~OutputBased(procs[p].type)
  <2>1. \A q \in DOMAIN procs : procs[q] \in Proc
    BY DEF SInv, IInv, TablesOK
  <2>. QED
    BY <1>5, <2>1 DEF Proc
<1>9. ProcsSettle
  <2>1. CASE procs' = procs
    BY <2>1 DEF ProcsSettle, Active
  <2>2. CASE procs' # procs
    <3>1. \A q \in DOMAIN procs : Active(q)' => q # p
      BY <1>8, <2>2 DEF Active
    <3>2. ~IsGrowth(procs[p].type)
      BY <1>8, <2>2 DEF IsGrowth, OutputBased
    <3>. QED
      BY <1>8, <3>1, <3>2 DEF ProcsSettle, Active
  <2>. QED
    BY <2>1, <2>2
<1>10. AllReturnedCompletes'
  <2>1. ASSUME NEW q \in DOMAIN procs', Active(q)', ~OutputBased(procs'[q].type),
               NEW k \in DOMAIN issues', issues'[k].proc = q
        PROVE  \E j \in DOMAIN issues' : issues'[j].proc = q /\ issues'[j].status = "OPEN"
    <3>1. q \in DOMAIN procs /\ Active(q) /\ ~OutputBased(procs[q].type) /\ q # 0
      BY <1>8, <1>9, <2>1 DEF ProcsSettle, SInv, IInv, TablesOK
    <3>2. k \in DOMAIN issues /\ issues[k].proc = q
      BY <1>1, <1>3, <2>1
    <3>3. PICK j \in DOMAIN issues : issues[j].proc = q /\ issues[j].status = "OPEN"
      BY <3>1, <3>2 DEF SInv, AllReturnedCompletes
    <3>4. CASE q # p
      BY <1>1, <1>3, <3>3, <3>4
    <3>5. CASE q = p /\ r.remaining = 0
      <4>1. procs' # [procs EXCEPT ![p].status = "completed"]
        <5>1. procs[p] \in Proc
          BY <3>1, <3>5 DEF SInv, IInv, TablesOK
        <5>. QED
          BY <2>1, <3>1, <3>5, <5>1 DEF Active, Proc
      <4>2. ~r.last
        BY <1>5, <3>1, <3>5, <4>1 DEF Closable
      <4>3. ~NoOpenSibling(i)
        BY <1>6, <3>5, <4>2
      <4>4. PICK n \in DOMAIN issues \ {i} : issues[n].proc = p /\ issues[n].status = "OPEN"
        BY <1>1, <3>1, <3>5, <4>3 DEF NoOpenSibling
      <4>. QED
        BY <1>3, <3>5, <4>4
    <3>6. CASE q = p /\ r.remaining # 0
      BY <1>3, <3>6
    <3>. QED
      BY <3>4, <3>5, <3>6
  <2>. QED
    BY <2>1 DEF AllReturnedCompletes, OutputBased
<1>. QED
  BY <1>7, <1>9, <1>10, SettlesOnly DEF FinishReturn

(* What a request issues is in a new process or in none, and a lot that    *)
(* enters a process has its open issue at once.                            *)
LEMMA IssuingSerial ==
    ASSUME SInv, UNCHANGED sess, 0 \notin DOMAIN procs',
           \A q \in DOMAIN procs : q \in DOMAIN procs' /\ procs'[q] = procs[q],
           \A i \in DOMAIN issues : i \in DOMAIN issues' /\ issues'[i] = issues[i],
           \A i \in DOMAIN issues' \ DOMAIN issues :
               issues'[i].proc \notin DOMAIN procs /\ issues'[i].status = "OPEN",
           \A x \in DOMAIN lots :
               /\ x \in DOMAIN lots' /\ lots'[x].kind = lots[x].kind
               /\ lots'[x].proc = lots[x].proc \/ lots'[x].proc \notin DOMAIN procs
               /\ lots'[x] = lots[x] \/ Free(x)',
           \A x \in DOMAIN lots' \ DOMAIN lots :
               lots'[x].proc = 0 \/ (lots'[x].proc \notin DOMAIN procs /\ Growing(x)')
    PROVE  SerialStep
<1>1. TablesOK /\ 0 \notin DOMAIN procs
  BY DEF SInv, IInv, TablesOK
<1>2. ASSUME NEW x \in DOMAIN lots, Free(x) PROVE Free(x)'
  BY <1>2 DEF Free, OpenOn
<1>3. BiscuitsPlaced'
  <2>1. ASSUME NEW x \in DOMAIN lots, Growing(x), lots'[x] = lots[x] PROVE Growing(x)'
    <3>1. PICK q : q = lots[x].proc
      OBVIOUS
    <3>2. q \in DOMAIN procs /\ Active(q) /\ IsGrowth(procs[q].type)
      BY <2>1, <3>1 DEF Growing
    <3>3. lots'[x].proc = q /\ q \in DOMAIN procs' /\ Active(q)' /\ IsGrowth(procs'[q].type)
      BY <2>1, <3>1, <3>2 DEF Active
    <3>4. \A y \in DOMAIN lots' : lots'[y].kind = "growth_run" /\ lots'[y].proc = q => y = x
      <4>1. ASSUME NEW y \in DOMAIN lots, lots'[y].kind = "growth_run", lots'[y].proc = q
            PROVE  y = x
        BY <2>1, <3>1, <3>2, <4>1 DEF Growing
      <4>2. ASSUME NEW y \in DOMAIN lots' \ DOMAIN lots PROVE lots'[y].proc # q
        BY <1>1, <3>2
      <4>. QED
        BY <4>1, <4>2
    <3>. QED
      BY <3>3, <3>4 DEF Growing, IsGrowth
  <2>2. \A x \in DOMAIN lots : Free(x)' \/ Growing(x)'
    BY <1>2, <2>1 DEF SInv, BiscuitsPlaced
  <2>3. \A x \in DOMAIN lots' \ DOMAIN lots : Free(x)' \/ Growing(x)'
    BY DEF Free
  <2>. QED
    BY <2>2, <2>3 DEF BiscuitsPlaced
<1>4. AllReturnedCompletes'
  <2>1. ASSUME NEW q \in DOMAIN procs', Active(q)', ~OutputBased(procs'[q].type),
               NEW i \in DOMAIN issues', issues'[i].proc = q
        PROVE  \E j \in DOMAIN issues' : issues'[j].proc = q /\ issues'[j].status = "OPEN"
    <3>1. CASE i \notin DOMAIN issues
      BY <2>1, <3>1
    <3>2. CASE i \in DOMAIN issues
      <4>1. q \in DOMAIN procs /\ issues[i].proc = q
        BY <1>1, <2>1, <3>2, IssueFields
      <4>2. Active(q) /\ ~OutputBased(procs[q].type)
        BY <2>1, <4>1 DEF Active
      <4>. QED
        BY <3>2, <4>1, <4>2 DEF SInv, AllReturnedCompletes
    <3>. QED
      BY <3>1, <3>2
  <2>. QED
    BY <2>1 DEF AllReturnedCompletes, OutputBased
<1>5. ASSUME NEW s \in Sessions PROVE UpToDate(s)'
  <2>1. UpToDate(s) /\ SessionOK(s)
    BY DEF SInv, IInv
  <2>2. ASSUME sess[s].op = "output_by_process", NEW x \in DOMAIN lots', lots'[x].proc = sess[s].proc
        PROVE  Free(x)'
    <3>1. sess[s].proc \in DOMAIN procs
      BY <2>1, <2>2 DEF SessionOK, ByProcess
    <3>2. x \in DOMAIN lots
      BY <1>1, <2>2, <3>1
    <3>3. lots[x].proc = sess[s].proc
      BY <2>2, <3>1, <3>2
    <3>4. Free(x)
      BY <2>1, <2>2, <3>2, <3>3 DEF UpToDate
    <3>. QED
      BY <1>2, <3>2, <3>4
  <2>3. ASSUME sess[s].op \in {"hold", "resume"} PROVE procs'[sess[s].proc].status \in {"running", "hold"}
    BY <2>1, <2>3 DEF SessionOK, ByProcess, UpToDate, Active
  <2>4. ASSUME sess[s].op = "return", NoOpenSibling(sess[s].issue)' PROVE NoOpenSibling(sess[s].issue)
    <3>1. sess[s].issue \in DOMAIN issues
      BY <2>1, <2>4 DEF SessionOK, ReturnOK
    <3>. QED
      BY <2>4, <3>1 DEF NoOpenSibling
  <2>. QED
    BY <2>1, <2>2, <2>3, <2>4 DEF UpToDate, Active
<1>6. \A p \in DOMAIN procs : Active(p)' => Active(p)
  BY DEF Active
<1>. QED
  BY <1>3, <1>4, <1>5, <1>6 DEF SerialStep

(* What the loop over the entries leaves of a source row, whether or not   *)
(* the entries name different lots: the last one to write it decides.      *)
EntriesLeave(req, p, l) ==
    LET row == AfterIssue(req, p, l) IN
    /\ row.kind = lots[l].kind
    /\ \/ row.proc = lots[l].proc
       \/ p # 0 /\ row.proc = p /\ \E k \in DOMAIN req : req[k].lot = l
    /\ \/ row = lots[l]
       \/ row.status # "IN PROCESS"
       \/ \E k \in DOMAIN req : req[k].lot = l /\ ProcessLot(req, k, p) = l

LEMMA LastEntry ==
    ASSUME TablesOK, NEW req \in Requests, NEW p \in Nat, NEW l \in DOMAIN lots,
           \A k \in DOMAIN req : Issuable(req[k])
    PROVE  EntriesLeave(req, p, l)
<1>1. /\ Len(req) \in {1, 2} /\ DOMAIN req = 1..Len(req)
      /\ req[1] \in Entries /\ (Len(req) = 2 => req[2] \in Entries)
  BY RequestFacts
<1>2. ASSUME NEW row \in Lot, NEW k \in DOMAIN req
      PROVE  /\ AfterEntry(row, l, req[k], p) \in Lot
             /\ AfterEntry(row, l, req[k], p).kind = row.kind
             /\ \/ AfterEntry(row, l, req[k], p).proc = row.proc
                \/ p # 0 /\ AfterEntry(row, l, req[k], p).proc = p /\ req[k].lot = l
             /\ \/ AfterEntry(row, l, req[k], p) = row
                \/ AfterEntry(row, l, req[k], p).status = "IN STOCK"
                \/ req[k].lot = l /\ ProcessLot(req, k, p) = l
  <2>1. lots[req[k].lot].qty - req[k].qty \in Nat
    <3>1. req[k] \in Entries
      BY <1>1
    <3>2. lots[req[k].lot].qty \in Nat /\ req[k].qty \in Nat
      BY <3>1, EntryFacts DEF LotRow, Lot
    <3>3. req[k].qty <= lots[req[k].lot].qty
      BY DEF Issuable
    <3>. QED
      BY <3>2, <3>3
  <2>2. CASE req[k].lot # l
    BY <2>2 DEF AfterEntry
  <2>3. CASE req[k].lot = l /\ InPlace(req[k], p)
    <3>1. AfterEntry(row, l, req[k], p) =
              [row EXCEPT !.status = "IN PROCESS", !.proc = IF p = 0 THEN @ ELSE p]
      BY <2>3 DEF AfterEntry, WriteSource
    <3>2. ProcessLot(req, k, p) = l
      BY <2>3 DEF ProcessLot
    <3>. QED
      BY <2>3, <3>1, <3>2 DEF Lot, LotStatuses
  <2>4. CASE req[k].lot = l /\ ~InPlace(req[k], p)
    <3>1. AfterEntry(row, l, req[k], p) =
              [row EXCEPT !.status = "IN STOCK", !.qty = lots[req[k].lot].qty - req[k].qty]
      BY <2>4 DEF AfterEntry, WriteSource
    <3>. QED
      BY <2>1, <3>1 DEF Lot, LotStatuses
  <2>. QED
    BY <2>2, <2>3, <2>4
<1>3. lots[l] \in Lot
  BY TablesTyped DEF TypeOK
<1>4. CASE Len(req) = 1
  <2>. DEFINE first == AfterEntry(lots[l], l, req[1], p)
  <2>1. AfterIssue(req, p, l) = first /\ 1 \in DOMAIN req
    BY <1>1, <1>4 DEF AfterIssue
  <2>2. /\ first.kind = lots[l].kind
        /\ first.proc = lots[l].proc \/ (p # 0 /\ first.proc = p /\ req[1].lot = l)
        /\ \/ first = lots[l] \/ first.status = "IN STOCK"
           \/ req[1].lot = l /\ ProcessLot(req, 1, p) = l
    BY <1>2, <1>3, <2>1
  <2>. HIDE DEF first
  <2>. QED
    BY ONLY <2>1, <2>2 DEF EntriesLeave
<1>5. CASE Len(req) = 2
  <2>. DEFINE first == AfterEntry(lots[l], l, req[1], p)
              last == AfterEntry(first, l, req[2], p)
  <2>1. AfterIssue(req, p, l) = last /\ 1 \in DOMAIN req /\ 2 \in DOMAIN req
    BY <1>1, <1>5 DEF AfterIssue
  <2>2. /\ first \in Lot /\ first.kind = lots[l].kind
        /\ first.proc = lots[l].proc \/ (p # 0 /\ first.proc = p /\ req[1].lot = l)
        /\ \/ first = lots[l] \/ first.status = "IN STOCK"
           \/ req[1].lot = l /\ ProcessLot(req, 1, p) = l
    BY <1>2, <1>3, <2>1
  <2>. HIDE DEF first
  <2>3. /\ last.kind = first.kind
        /\ last.proc = first.proc \/ (p # 0 /\ last.proc = p /\ req[2].lot = l)
        /\ \/ last = first \/ last.status = "IN STOCK"
           \/ req[2].lot = l /\ ProcessLot(req, 2, p) = l
    BY <1>2, <2>1, <2>2
  <2>. HIDE DEF last
  <2>. QED
    BY ONLY <2>1, <2>2, <2>3 DEF EntriesLeave
<1>. QED
  BY <1>1, <1>4, <1>5

(* A growth process that is issued no biscuit gets one, its only one.      *)
LEMMA IssueToMachineSerial ==
    ASSUME SInv, NEW m \in Machines, NEW t \in Types, NEW req \in Requests,
           IssueToMachine(m, t, req)
    PROVE  SerialStep
<1>1. PICK p, nl, ni : p = Len(procs) + 1 /\ nl = Len(lots) /\ ni = Len(issues)
  OBVIOUS
<1>2. /\ TablesOK /\ p \in Nat /\ p # 0 /\ DOMAIN procs = 1..(p - 1)
      /\ nl \in Nat /\ DOMAIN lots = 1..nl /\ ni \in Nat /\ DOMAIN issues = 1..ni
  BY <1>1 DEF SInv, IInv, TablesOK
<1>. DEFINE ch == Children(req, p)
            gr == createGrowthRun(t, req, p)
            source == [l \in DOMAIN lots |-> AfterIssue(req, p, l)]
            more == [k \in DOMAIN req |-> NewIssue(req, k, p)]
            row == [machine |-> m, type |-> t, status |-> "running",
                    loaded |-> {ProcessLot(req, k, p) : k \in DOMAIN req}]
<1>3. /\ issues' = issues \o more /\ lots' = source \o (ch \o gr) /\ procs' = Append(procs, row)
      /\ \A k \in DOMAIN req : Issuable(req[k])
      /\ UNCHANGED sess
  BY <1>1 DEF IssueToMachine
<1>4. /\ Len(req) \in {1, 2} /\ DOMAIN req = 1..Len(req) /\ 1 \in DOMAIN req
      /\ \A k \in DOMAIN req : req[k].lot \in DOMAIN lots
  BY <1>2, RequestFacts, EntryFacts
<1>5. /\ DOMAIN procs' = DOMAIN procs \cup {p} /\ p \notin DOMAIN procs
      /\ \A q \in DOMAIN procs : procs'[q] = procs[q]
      /\ procs'[p].type = t /\ procs'[p].status = "running"
  <2>1. procs \in Seq(Proc) /\ row.type = t /\ row.status = "running"
    BY <1>2 DEF TablesOK
  <2>. HIDE DEF row
  <2>. QED
    BY <1>1, <1>2, <1>3, <2>1
<1>6. /\ \A i \in DOMAIN issues : i \in DOMAIN issues' /\ issues'[i] = issues[i]
      /\ \A k \in DOMAIN req : ni + k \in DOMAIN issues' /\ issues'[ni + k] = NewIssue(req, k, p)
      /\ \A i \in DOMAIN issues' \ DOMAIN issues :
            i - ni \in DOMAIN req /\ issues'[i] = NewIssue(req, i - ni, p)
  <2>1. issues \in [1..ni -> {issues[i] : i \in DOMAIN issues}]
    BY <1>2 DEF TablesOK
  <2>2. more \in Seq({more[k] : k \in DOMAIN req}) /\ DOMAIN more = DOMAIN req
    <3>1. more \in [1..Len(req) -> {more[k] : k \in DOMAIN req}] /\ Len(req) \in Nat
      BY <1>4
    <3>. HIDE DEF more
    <3>. QED
      BY <1>4, <3>1, RewriteRows
  <2>3. \A k \in DOMAIN req : more[k] = NewIssue(req, k, p)
    OBVIOUS
  <2>. HIDE DEF more
  <2>4. Len(more) \in Nat /\ DOMAIN more = 1..Len(more)
    BY <2>2
  <2>5. issues' = issues \o more /\ ni \in Nat
    BY <1>2, <1>3
  <2>6. /\ \A i \in 1..ni : i \in DOMAIN issues' /\ issues'[i] = issues[i]
        /\ \A k \in DOMAIN more : ni + k \in DOMAIN issues' \ (1..ni) /\ issues'[ni + k] = more[k]
        /\ \A i \in DOMAIN issues' \ (1..ni) : i - ni \in DOMAIN more /\ issues'[i] = more[i - ni]
    BY ONLY <2>1, <2>4, <2>5, RowsInserted
  <2>. QED
    BY <1>2, <2>2, <2>3, <2>6
<1>7. \A k : /\ NewIssue(req, k, p).lot = ProcessLot(req, k, p)
             /\ NewIssue(req, k, p).proc = p /\ NewIssue(req, k, p).status = "OPEN"
  BY DEF NewIssue
<1>8. /\ Len(ch) \in Nat /\ DOMAIN ch = 1..Len(ch) /\ \A n \in DOMAIN ch : ch[n].proc = 0
  <2>1. ch \in Seq(LotRow(0))
    BY <1>2, ChildrenRows
  <2>. HIDE DEF ch
  <2>. QED
    BY <2>1 DEF LotRow
<1>9. gr = <<>> \/ \E q : /\ gr = <<q>> /\ q.proc = p /\ IsGrowth(t)
                          /\ \A k \in DOMAIN req : lots[req[k].lot].kind # "growth_run"
  <2>. DEFINE q == [kind |-> "growth_run", status |-> "IN PROCESS",
                    qty |-> req[1].qty + (IF Len(req) = 2 THEN req[2].qty ELSE 0),
                    proc |-> p, outputs |-> 0]
  <2>1. gr = <<>> \/ (gr = <<q>> /\ IsGrowth(t) /\ ~HoldsBiscuit(req))
    BY DEF createGrowthRun
  <2>2. q.proc = p
    OBVIOUS
  <2>. HIDE DEF q, gr
  <2>. QED
    BY <2>1, <2>2 DEF HoldsBiscuit
<1>. HIDE DEF ch, gr, more, row
<1>10. /\ \A x \in DOMAIN lots : x \in DOMAIN lots' /\ lots'[x] = AfterIssue(req, p, x)
       /\ \A x \in DOMAIN lots' \ DOMAIN lots :
             \/ lots'[x].proc = 0
             \/ /\ x = nl + Len(ch) + 1 /\ lots'[x].proc = p /\ IsGrowth(t)
                /\ \A k \in DOMAIN req : lots[req[k].lot].kind # "growth_run"
  <2>. DEFINE inserted == ch \o gr
  <2>1. /\ Len(gr) \in Nat /\ DOMAIN gr = 1..Len(gr)
        /\ \A n \in DOMAIN gr : /\ n = 1 /\ gr[n].proc = p /\ IsGrowth(t)
                               /\ \A k \in DOMAIN req : lots[req[k].lot].kind # "growth_run"
    BY <1>9
  <2>2. /\ DOMAIN inserted = 1..(Len(ch) + Len(gr)) /\ Len(inserted) = Len(ch) + Len(gr)
        /\ \A n \in 1..(Len(ch) + Len(gr)) :
              inserted[n] = IF n <= Len(ch) THEN ch[n] ELSE gr[n - Len(ch)]
    BY <1>8, <2>1
  <2>3. \A n \in DOMAIN inserted :
            \/ inserted[n].proc = 0
            \/ n = Len(ch) + 1 /\ inserted[n].proc = p /\ IsGrowth(t)
               /\ \A k \in DOMAIN req : lots[req[k].lot].kind # "growth_run"
    BY <1>8, <2>1, <2>2
  <2>4. /\ source \in [1..nl -> {AfterIssue(req, p, l) : l \in DOMAIN lots}]
        /\ lots' = source \o inserted
        /\ \A l \in DOMAIN lots : source[l] = AfterIssue(req, p, l)
    BY <1>2, <1>3
  <2>5. Len(inserted) \in Nat /\ DOMAIN inserted = 1..Len(inserted) /\ nl \in Nat
    BY <1>2, <1>8, <2>1, <2>2
  <2>. HIDE DEF inserted, source
  <2>6. /\ \A x \in 1..nl : x \in DOMAIN lots' /\ lots'[x] = source[x]
        /\ \A n \in DOMAIN inserted : nl + n \in DOMAIN lots' \ (1..nl) /\ lots'[nl + n] = inserted[n]
        /\ \A x \in DOMAIN lots' \ (1..nl) : x - nl \in DOMAIN inserted /\ lots'[x] = inserted[x - nl]
    BY ONLY <2>4, <2>5, RowsInserted
  <2>7. \A x \in DOMAIN lots' : x \in Nat
    <3>1. lots' \in Seq(LotRow(Len(procs)'))
      BY IssueToMachineOK DEF SInv, IInv, TablesOK
    <3>. QED
      BY <3>1
  <2>8. ASSUME NEW x \in DOMAIN lots' \ DOMAIN lots
        PROVE  \/ lots'[x].proc = 0
               \/ /\ x = nl + Len(ch) + 1 /\ lots'[x].proc = p /\ IsGrowth(t)
                  /\ \A k \in DOMAIN req : lots[req[k].lot].kind # "growth_run"
    <3>1. x - nl \in DOMAIN inserted /\ lots'[x] = inserted[x - nl] /\ x \in Nat
      BY <1>2, <2>6, <2>7
    <3>2. x - nl = Len(ch) + 1 => x = nl + Len(ch) + 1
      BY <1>2, <1>8, <3>1
    <3>. QED
      BY <2>3, <3>1, <3>2
  <2>. QED
    BY <1>2, <2>4, <2>6, <2>8
<1>11. ASSUME NEW x \in DOMAIN lots
       PROVE  /\ lots'[x].kind = lots[x].kind
              /\ \/ lots'[x].proc = lots[x].proc
                 \/ lots'[x].proc = p /\ \E k \in DOMAIN req : req[k].lot = x
              /\ \/ lots'[x] = lots[x]
                 \/ lots'[x].status # "IN PROCESS"
                 \/ \E k \in DOMAIN req : req[k].lot = x /\ ProcessLot(req, k, p) = x
  <2>1. TablesOK /\ \A k \in DOMAIN req : Issuable(req[k])
    BY <1>2, <1>3
  <2>2. lots'[x] = AfterIssue(req, p, x)
    BY <1>10
  <2>3. p \in Nat /\ req \in Requests /\ x \in DOMAIN lots
    BY <1>2
  <2>4. EntriesLeave(req, p, x)
    BY ONLY <2>1, <2>3, LastEntry
  <2>. QED
    BY ONLY <2>2, <2>4 DEF EntriesLeave
<1>12. ASSUME NEW x \in DOMAIN lots
       PROVE  lots'[x] = lots[x] \/ Free(x)'
  <2>1. ASSUME NEW k \in DOMAIN req, ProcessLot(req, k, p) = x PROVE OpenOn(x)'
    BY <1>6, <1>7, <2>1 DEF OpenOn
  <2>. QED
    BY <1>11, <2>1 DEF Free
<1>13. ASSUME NEW x \in DOMAIN lots' \ DOMAIN lots
       PROVE  lots'[x].proc = 0 \/ (lots'[x].proc \notin DOMAIN procs /\ Growing(x)')
  <2>1. SUFFICES ASSUME lots'[x].proc # 0
                 PROVE  lots'[x].proc \notin DOMAIN procs /\ Growing(x)'
    OBVIOUS
  <2>2. /\ x = nl + Len(ch) + 1 /\ lots'[x].proc = p /\ IsGrowth(t)
        /\ \A k \in DOMAIN req : lots[req[k].lot].kind # "growth_run"
    BY <1>10, <2>1
  <2>3. ASSUME NEW y \in DOMAIN lots', lots'[y].kind = "growth_run", lots'[y].proc = p
        PROVE  y = x
    <3>1. CASE y \in DOMAIN lots
      <4>1. lots[y].proc # p
        <5>1. lots[y] \in LotRow(Len(procs))
          BY <1>2, <3>1 DEF TablesOK
        <5>. QED
          BY <1>1, <1>2, <5>1 DEF LotRow
      <4>. QED
        <5>1. /\ lots'[y].kind = lots[y].kind
              /\ lots'[y].proc = lots[y].proc \/ \E k \in DOMAIN req : req[k].lot = y
          BY <1>11, <3>1
        <5>. QED
          BY ONLY <2>2, <2>3, <4>1, <5>1
    <3>2. CASE y \notin DOMAIN lots
      BY <1>2, <1>10, <2>2, <2>3, <3>2
    <3>. QED
      BY <3>1, <3>2
  <2>. QED
    BY <1>5, <2>2, <2>3 DEF Growing, Active, IsGrowth
<1>14. 0 \notin DOMAIN procs'
  BY <1>2, <1>5
<1>15. \A q \in DOMAIN procs : q \in DOMAIN procs' /\ procs'[q] = procs[q]
  BY <1>5
<1>16. \A i \in DOMAIN issues' \ DOMAIN issues :
           issues'[i].proc \notin DOMAIN procs /\ issues'[i].status = "OPEN"
  BY <1>5, <1>6, <1>7
<1>17. \A x \in DOMAIN lots :
           /\ x \in DOMAIN lots' /\ lots'[x].kind = lots[x].kind
           /\ lots'[x].proc = lots[x].proc \/ lots'[x].proc \notin DOMAIN procs
           /\ lots'[x] = lots[x] \/ Free(x)'
  BY <1>5, <1>10, <1>11, <1>12
<1>. QED
  BY <1>3, <1>6, <1>13, <1>14, <1>15, <1>16, <1>17, IssuingSerial

(* Without a machine no process begins; a biscuit keeps its own.           *)
LEMMA HandIssueSerial ==
    ASSUME SInv, NEW e \in Entries, HandIssue(e)
    PROVE  SerialStep
<1>. DEFINE req == <<e>>
            row == NewIssue(req, 1, 0)
            ch == ChildOf(e, 0)
            source == [x \in DOMAIN lots |-> AfterIssue(req, 0, x)]
<1>1. PICK nl : nl = Len(lots)
  OBVIOUS
<1>2. TablesOK /\ nl \in Nat /\ DOMAIN lots = 1..nl /\ 0 \notin DOMAIN procs
  BY <1>1 DEF SInv, IInv, TablesOK
<1>3. /\ issues' = Append(issues, row) /\ lots' = source \o ch /\ Issuable(e)
      /\ UNCHANGED <<procs, sess>>
  BY DEF HandIssue
<1>4. req \in Requests /\ DOMAIN req = {1} /\ req[1] = e
  BY DEF Requests
<1>5. row.lot = ProcessLot(req, 1, 0) /\ row.proc = 0 /\ row.status = "OPEN"
  BY DEF NewIssue
<1>6. /\ \A i \in DOMAIN issues : i \in DOMAIN issues' /\ issues'[i] = issues[i]
      /\ \A i \in DOMAIN issues' \ DOMAIN issues : issues'[i] = row
      /\ \E i \in DOMAIN issues' : issues'[i] = row
  <2>1. PICK ni \in Nat : ni = Len(issues) /\ DOMAIN issues = 1..ni
    BY <1>2 DEF TablesOK
  <2>2. issues \in Seq(IssueRow(Len(lots), Len(procs)))
    BY <1>2 DEF TablesOK
  <2>. HIDE DEF row
  <2>3. /\ Len(issues') = ni + 1 /\ DOMAIN issues' = 1..(ni + 1)
        /\ \A i \in 1..(ni + 1) : issues'[i] = IF i <= ni THEN issues[i] ELSE row
    BY ONLY <1>3, <2>1, <2>2
  <2>. QED
    BY ONLY <2>1, <2>3
<1>7. Len(ch) \in Nat /\ DOMAIN ch = 1..Len(ch) /\ \A n \in DOMAIN ch : ch[n].proc = 0
  <2>1. ch \in Seq(LotRow(0))
    BY <1>2, ChildRow
  <2>. HIDE DEF ch
  <2>. QED
    BY <2>1 DEF LotRow
<1>8. /\ \A x \in DOMAIN lots : x \in DOMAIN lots' /\ lots'[x] = AfterIssue(req, 0, x)
      /\ \A x \in DOMAIN lots' \ DOMAIN lots : lots'[x].proc = 0
  <2>1. /\ source \in [1..nl -> {AfterIssue(req, 0, x) : x \in DOMAIN lots}]
        /\ \A x \in DOMAIN lots : source[x] = AfterIssue(req, 0, x)
        /\ lots' = source \o ch /\ nl \in Nat
    BY <1>2, <1>3
  <2>. HIDE DEF source, ch, req
  <2>2. /\ \A x \in 1..nl : x \in DOMAIN lots' /\ lots'[x] = source[x]
        /\ \A k \in DOMAIN ch : nl + k \in DOMAIN lots' \ (1..nl) /\ lots'[nl + k] = ch[k]
        /\ \A x \in DOMAIN lots' \ (1..nl) : x - nl \in DOMAIN ch /\ lots'[x] = ch[x - nl]
    BY ONLY <1>7, <2>1, RowsInserted
  <2>. QED
    BY <1>2, <1>7, <2>1, <2>2
<1>. HIDE DEF row, source, ch
<1>9. ASSUME NEW x \in DOMAIN lots
      PROVE  /\ lots'[x].kind = lots[x].kind /\ lots'[x].proc = lots[x].proc
             /\ lots'[x] = lots[x] \/ Free(x)'
  <2>1. TablesOK /\ req \in Requests /\ 0 \in Nat /\ \A k \in DOMAIN req : Issuable(req[k])
    BY <1>2, <1>3, <1>4
  <2>. HIDE DEF req
  <2>2. EntriesLeave(req, 0, x)
    BY ONLY <2>1, x \in DOMAIN lots, LastEntry
  <2>3. /\ AfterIssue(req, 0, x).kind = lots[x].kind
        /\ AfterIssue(req, 0, x).proc = lots[x].proc
        /\ \/ AfterIssue(req, 0, x) = lots[x]
           \/ AfterIssue(req, 0, x).status # "IN PROCESS"
           \/ ProcessLot(req, 1, 0) = x
    BY ONLY <1>4, <2>2 DEF EntriesLeave
  <2>4. ProcessLot(req, 1, 0) = x => OpenOn(x)'
    BY <1>5, <1>6 DEF OpenOn
  <2>. QED
    BY <1>8, <2>3, <2>4 DEF Free
<1>10. \A i \in DOMAIN issues' \ DOMAIN issues :
           issues'[i].proc \notin DOMAIN procs /\ issues'[i].status = "OPEN"
  BY <1>2, <1>5, <1>6
<1>. QED
  BY <1>2, <1>3, <1>6, <1>8, <1>9, <1>10, IssuingSerial

LEMMA InitSerial == Init => SInv
<1>. SUFFICES ASSUME Init PROVE SInv
  OBVIOUS
<1>1. issues = <<>> /\ procs = <<>> /\ \A s \in Sessions : sess[s] = Idle
  BY DEF Init
<1>2. \A l \in DOMAIN lots : lots[l].kind = "seed"
  BY DEF Init, SeedLot
<1>3. BiscuitsPlaced
  BY <1>2 DEF BiscuitsPlaced, Free
<1>4. AllReturnedCompletes
  BY <1>1 DEF AllReturnedCompletes
<1>5. \A s \in Sessions : UpToDate(s)
  BY <1>1 DEF UpToDate, Idle
<1>. QED
  BY <1>3, <1>4, <1>5, InitOK DEF SInv

LEMMA NextSerial ==
    ASSUME OneRequest, SInv, [Next]_vars
    PROVE  SInv' /\ \A p \in DOMAIN procs : Active(p)' => Active(p)
<1>1. IInv'
  BY NextOK DEF SInv
<1>2. CASE UNCHANGED vars
  <2>1. UNCHANGED <<lots, issues, procs, sess>>
    BY <1>2 DEF vars
  <2>2. ASSUME NEW s \in Sessions PROVE UpToDate(s)'
    <3>1. UpToDate(s)
      BY DEF SInv
    <3>. QED
      BY ONLY <2>1, <3>1 DEF UpToDate, Free, OpenOn, Active, NoOpenSibling
  <2>3. SerialStep
    BY <2>1, <2>2, ReadsOnly
  <2>. QED
    BY <1>1, <2>3 DEF SInv, SerialStep
<1>3. CASE Next
  <2>1. ASSUME NEW s \in Sessions,
               FinishReturn(s) \/ FinishStart(s) \/ FinishHoldResume(s)
               \/ FinishComplete(s) \/ FinishOutput(s) \/ Rollback(s)
        PROVE  SerialStep
    BY <2>1, FinishReturnSerial, FinishStartSerial, FinishHoldResumeSerial,
       FinishCompleteSerial, FinishOutputSerial, RollbackSerial
  <2>2. ASSUME NEW m \in Machines, NEW st \in PanelStatuses, SetMachineStatus(m, st)
        PROVE  SerialStep
    BY <2>2 DEF SetMachineStatus, OneRequest
  <2>3. ASSUME NEW b \in DOMAIN lots, PostOutput(b)
        PROVE  SerialStep
    BY <2>3 DEF PostOutput, OneRequest
  <2>4. SerialStep
    BY <1>3, <2>1, <2>2, <2>3, BeginSerial, IssueToMachineSerial, HandIssueSerial DEF Next
  <2>. QED
    BY <1>1, <2>4 DEF SInv, SerialStep
<1>. QED
  BY <1>2, <1>3

THEOREM SerialInvariant ==
    ASSUME OneRequest
    PROVE  Spec => []SInv
<1>1. SInv /\ [Next]_vars => SInv'
  BY NextSerial
<1>. QED
  BY <1>1, InitSerial, PTL DEF Spec

(* The return of the last lot completes a process that completes by its    *)
(* returns: with one request at a time none stays active with nothing in   *)
(* it, whatever is held, resumed, started or issued in between.            *)
THEOREM LastReturnCompletes ==
    ASSUME OneRequest
    PROVE  Spec => []AllReturnedCompletes
<1>1. SInv => AllReturnedCompletes
  BY DEF SInv
<1>. QED
  BY <1>1, SerialInvariant, PTL

(* A biscuit that is in process is always released by something: an open   *)
(* issue of it, or the growth process it grew in.                          *)
THEOREM NoneStranded ==
    ASSUME OneRequest
    PROVE  Spec => []BiscuitNotStranded
<1>1. SInv => BiscuitNotStranded
  BY DEF SInv, BiscuitsPlaced, Free, OpenOn, Growing, BiscuitNotStranded
<1>. QED
  BY <1>1, SerialInvariant, PTL

(* No request reactivates a completed or cancelled process.                *)
THEOREM TerminalStands ==
    ASSUME OneRequest
    PROVE  Spec => TerminalStays
<1>1. SInv /\ [Next]_vars => [\A p \in DOMAIN procs : ~Active(p) => ~Active(p)']_vars
  BY NextSerial
<1>. QED
  BY <1>1, SerialInvariant, PTL DEF Spec, TerminalStays

-----------------------------------------------------------------------------
(* The shop floor implements Custody.                                      *)

(* What an open issue holds of the seeds is not in stock as well.          *)
SeedsOut ==
    \A i \in DOMAIN issues :
        issues[i].status = "OPEN" /\ Seed(issues[i].lot) => lots[issues[i].lot].status # "IN STOCK"

(* What is cut is a biscuit.                                               *)
CutsBiscuit ==
    \A s \in Sessions : sess[s].op = "output_by_process" => ~Seed(sess[s].biscuit)

FlowInv ==
    /\ IInv
    /\ SeedsOut
    /\ CutsBiscuit
    /\ InStock + InProcess + scrapped = Purchased * MaxQty

(* The terms of the two sums.                                              *)
PiecesOK ==
    /\ Len(lots) \in Nat /\ DOMAIN lots = 1..Len(lots)
    /\ Len(issues) \in Nat /\ DOMAIN issues = 1..Len(issues)
    /\ \A l \in DOMAIN lots : AtHand(l) \in Nat
    /\ \A i \in DOMAIN issues : Inside(i) \in Nat
    /\ InStock = SumFunctionOnSet([l \in DOMAIN lots |-> AtHand(l)], 1..Len(lots))
    /\ InProcess = SumFunctionOnSet([i \in DOMAIN issues |-> Inside(i)], 1..Len(issues))
    /\ InStock \in Nat /\ InProcess \in Nat

LEMMA PiecesNat == TablesOK => PiecesOK
<1>. SUFFICES ASSUME TablesOK PROVE PiecesOK
  OBVIOUS
<1>1. /\ Len(lots) \in Nat /\ DOMAIN lots = 1..Len(lots)
      /\ Len(issues) \in Nat /\ DOMAIN issues = 1..Len(issues)
  BY DEF TablesOK
<1>2. ASSUME NEW l \in DOMAIN lots PROVE AtHand(l) \in Nat
  <2>1. lots[l] \in Lot
    BY TablesTyped DEF TypeOK
  <2>. QED
    BY <2>1 DEF AtHand, Lot
<1>3. ASSUME NEW i \in DOMAIN issues PROVE Inside(i) \in Nat
  <2>1. issues[i] \in Issue
    BY TablesTyped DEF TypeOK
  <2>. QED
    BY <2>1 DEF Inside, Issue
<1>. DEFINE h == [l \in DOMAIN lots |-> AtHand(l)]
            f == [i \in DOMAIN issues |-> Inside(i)]
<1>4. /\ DOMAIN h = 1..Len(lots) /\ \A l \in 1..Len(lots) : h[l] \in Nat
      /\ DOMAIN f = 1..Len(issues) /\ \A i \in 1..Len(issues) : f[i] \in Nat
  BY <1>1, <1>2, <1>3
<1>5. InStock = SumFunction(h) /\ InProcess = SumFunction(f)
  BY DEF InStock, InProcess
<1>. HIDE DEF h, f
<1>6. SumFunction(h) = SumFunctionOnSet(h, 1..Len(lots)) /\ SumFunction(h) \in Nat
  BY <1>1, <1>4, NatSum
<1>7. SumFunction(f) = SumFunctionOnSet(f, 1..Len(issues)) /\ SumFunction(f) \in Nat
  BY <1>1, <1>4, NatSum
<1>. QED
  BY <1>1, <1>2, <1>3, <1>5, <1>6, <1>7 DEF PiecesOK, h, f

LEMMA PiecesNatNext == TablesOK' => PiecesOK'
  BY PiecesNat, PTL

(* What a step may do without moving a seed.                               *)
KindsStay == \A l \in DOMAIN lots : l \in DOMAIN lots' /\ lots'[l].kind = lots[l].kind

SeedsStay ==
    /\ DOMAIN lots' = DOMAIN lots
    /\ \A l \in DOMAIN lots : lots[l].kind # "growth_run" =>
          /\ lots'[l].status = "IN STOCK" <=> lots[l].status = "IN STOCK"
          /\ lots[l].status = "IN STOCK" => lots'[l].qty = lots[l].qty

CutsOnly(t) ==
    sess'[t].op = "output_by_process" =>
        \/ sess'[t] = sess[t]
        \/ sess'[t].biscuit \in DOMAIN lots /\ lots[sess'[t].biscuit].kind = "growth_run"

LEMMA CutKeeps ==
    ASSUME FlowInv, KindsStay, \A t \in Sessions : CutsOnly(t)
    PROVE  CutsBiscuit'
<1>. SUFFICES ASSUME NEW t \in Sessions, sess'[t].op = "output_by_process"
              PROVE  lots'[sess'[t].biscuit].kind # "seed"
  BY DEF CutsBiscuit, Seed
<1>1. sess'[t].biscuit \in DOMAIN lots /\ lots[sess'[t].biscuit].kind # "seed"
  BY DEF CutsOnly, CutsBiscuit, Seed, FlowInv, IInv, SessionOK
<1>. QED
  BY <1>1 DEF KindsStay

LEMMA QuietFlow ==
    ASSUME FlowInv, IInv', KindsStay, SeedsStay, UNCHANGED <<issues, scrapped>>,
           \A t \in Sessions : CutsOnly(t)
    PROVE  FlowInv' /\ InStock' = InStock /\ InProcess' = InProcess
<1>1. \A l \in DOMAIN lots : lots[l] \in Lot
  BY TablesTyped DEF FlowInv, IInv, TypeOK
<1>2. InStock' = InStock
  <2>1. \A l \in DOMAIN lots : AtHand(l)' = AtHand(l)
    BY <1>1 DEF AtHand, Seed, KindsStay, SeedsStay, Lot
  <2>. QED
    BY <2>1 DEF InStock, SeedsStay
<1>3. InProcess' = InProcess
  <2>1. \A i \in DOMAIN issues : Inside(i)' = Inside(i)
    BY IssueFields DEF Inside, Seed, KindsStay, FlowInv, IInv
  <2>. QED
    BY <2>1 DEF InProcess
<1>4. SeedsOut'
  <2>. SUFFICES ASSUME NEW i \in DOMAIN issues, NEW l, l = issues[i].lot,
                       issues[i].status = "OPEN", lots'[l].kind = "seed"
                PROVE  lots'[l].status # "IN STOCK"
    BY DEF SeedsOut, Seed
  <2>1. l \in DOMAIN lots /\ lots[l].kind = "seed"
    BY IssueFields DEF KindsStay, FlowInv, IInv
  <2>. QED
    BY <2>1 DEF SeedsOut, Seed, SeedsStay, FlowInv
<1>5. CutsBiscuit'
  BY CutKeeps
<1>. QED
  BY <1>2, <1>3, <1>4, <1>5 DEF FlowInv

(* A request that begins or ends and writes no lot and no issue.           *)
LEMMA ReadFlow ==
    ASSUME FlowInv, IInv', UNCHANGED <<lots, issues, scrapped>>, NEW s \in Sessions, NEW r,
           sess' = [sess EXCEPT ![s] = r],
           r.op = "output_by_process" => r.biscuit \in DOMAIN lots /\ lots[r.biscuit].kind = "growth_run"
    PROVE  FlowInv' /\ InStock' = InStock /\ InProcess' = InProcess
<1>1. sess'[s] = r /\ \A t \in Sessions \ {s} : sess'[t] = sess[t]
  BY DEF FlowInv, IInv, TablesOK
<1>2. \A t \in Sessions : CutsOnly(t)
  BY <1>1 DEF CutsOnly
<1>3. KindsStay /\ SeedsStay
  BY DEF KindsStay, SeedsStay
<1>. QED
  BY <1>2, <1>3, QuietFlow

LEMMA EndsFlow ==
    ASSUME FlowInv, IInv', KindsStay, SeedsStay, UNCHANGED <<issues, scrapped>>,
           NEW s \in Sessions, End(s) \/ UNCHANGED sess
    PROVE  FlowInv' /\ InStock' = InStock /\ InProcess' = InProcess
<1>1. CASE End(s)
  <2>1. sess'[s] = Idle /\ \A t \in Sessions \ {s} : sess'[t] = sess[t]
    BY <1>1, EndSession DEF FlowInv, IInv, TablesOK
  <2>2. \A t \in Sessions : CutsOnly(t)
    BY <2>1 DEF CutsOnly, Idle
  <2>. QED
    BY <2>2, QuietFlow
<1>2. CASE UNCHANGED sess
  BY <1>2, QuietFlow DEF CutsOnly
<1>. QED
  BY <1>1, <1>2

(* Rough output cuts a biscuit, and no seed.                               *)
LEMMA CuttingFlow ==
    ASSUME FlowInv, NEW b \in DOMAIN lots, lots[b].kind = "growth_run", NEW p, RoughOutput(b, p)
    PROVE  KindsStay /\ SeedsStay
<1>1. lots \in Seq(Lot)
  BY TablesTyped DEF FlowInv, IInv, TypeOK
<1>2. lots' = [lots EXCEPT ![b].status = "CONSUMED", ![b].qty = 0, ![b].outputs = @ + 1]
  BY DEF RoughOutput
<1>3. DOMAIN lots' = DOMAIN lots /\ \A l \in DOMAIN lots : l # b => lots'[l] = lots[l]
  BY <1>1, <1>2
<1>4. lots'[b].kind = lots[b].kind
  <2>1. lots[b] \in Lot
    BY <1>1
  <2>. QED
    BY <1>1, <1>2, <2>1 DEF Lot
<1>. QED
  BY <1>3, <1>4 DEF KindsStay, SeedsStay

(* Completing a growth process takes no seed from stock.                   *)
LEMMA GrowthFlow ==
    ASSUME FlowInv, NEW s \in Sessions, FinishComplete(s)
    PROVE  KindsStay /\ SeedsStay
<1>. DEFINE p == sess[s].proc
<1>1. \A l \in DOMAIN lots : lots[l] \in Lot
  BY TablesTyped DEF FlowInv, IInv, TypeOK
<1>2. CASE lots' = lots
  BY <1>2 DEF KindsStay, SeedsStay
<1>3. CASE lots' = [l \in DOMAIN lots |-> AfterGrowth(lots[l], p)]
  <2>1. ASSUME NEW l \in DOMAIN lots
        PROVE  /\ lots'[l].kind = lots[l].kind
               /\ lots[l].kind # "growth_run" =>
                     /\ lots'[l].status = "IN STOCK" <=> lots[l].status = "IN STOCK"
                     /\ lots[l].status = "IN STOCK" => lots'[l].qty = lots[l].qty
    <3>1. lots'[l] = AfterGrowth(lots[l], p) /\ lots[l] \in Lot
      BY <1>1, <1>3
    <3>. HIDE DEF p
    <3>. QED
      BY <3>1 DEF AfterGrowth, Lot
  <2>2. DOMAIN lots' = DOMAIN lots
    BY <1>3
  <2>. QED
    BY <2>1, <2>2 DEF KindsStay, SeedsStay
<1>. QED
  BY <1>2, <1>3 DEF FinishComplete

LEMMA QuietStepsFlow ==
    ASSUME FlowInv, IInv', NEW s \in Sessions,
           \/ \E i \in DOMAIN issues, ls \in LinesUsed : BeginReturn(s, i, ls)
           \/ \E m \in Machines, t \in Types : \E ls \in SUBSET DOMAIN lots : BeginStart(s, m, t, ls)
           \/ \E p \in DOMAIN procs :
                 BeginHold(s, p) \/ BeginResume(s, p) \/ BeginComplete(s, p) \/ BeginOutput(s, p)
           \/ FinishStart(s) \/ FinishHoldResume(s) \/ FinishComplete(s) \/ FinishOutput(s)
           \/ Rollback(s)
    PROVE  FlowInv' /\ scrapped' = scrapped /\ InStock' = InStock /\ InProcess' = InProcess
<1>. DEFINE Goal == FlowInv' /\ scrapped' = scrapped /\ InStock' = InStock /\ InProcess' = InProcess
<1>1. ASSUME UNCHANGED <<lots, issues, scrapped>>, NEW r, Begin(s, r), r.op # "output_by_process"
      PROVE  Goal
  BY <1>1, ReadFlow DEF Begin
<1>2. ASSUME NEW i, NEW ls, BeginReturn(s, i, ls) PROVE Goal
  <2>. DEFINE r == [op |-> "return", issue |-> i, lines |-> ls,
                    remaining |-> issues[i].remaining - Total(ls),
                    last |-> Total(ls) = issues[i].remaining /\ NoOpenSibling(i)]
  <2>1. Begin(s, r) /\ r.op # "output_by_process" /\ UNCHANGED <<lots, issues, scrapped>>
    BY <1>2 DEF BeginReturn
  <2>. HIDE DEF r, Goal
  <2>. QED
    BY <1>1, <2>1
<1>3. ASSUME NEW m, NEW t, NEW ls, BeginStart(s, m, t, ls) PROVE Goal
  <2>. DEFINE r == [op |-> "start", machine |-> m, type |-> t, loaded |-> ls]
  <2>1. Begin(s, r) /\ r.op # "output_by_process" /\ UNCHANGED <<lots, issues, scrapped>>
    BY <1>3 DEF BeginStart
  <2>. HIDE DEF r, Goal
  <2>. QED
    BY <1>1, <2>1
<1>4. ASSUME NEW p, BeginHold(s, p) \/ BeginResume(s, p) PROVE Goal
  <2>. DEFINE r(o) == [op |-> o, proc |-> p]
  <2>1. /\ Begin(s, r("hold")) \/ Begin(s, r("resume"))
        /\ UNCHANGED <<lots, issues, scrapped>>
    BY <1>4 DEF BeginHold, BeginResume
  <2>2. r("hold").op # "output_by_process" /\ r("resume").op # "output_by_process"
    OBVIOUS
  <2>. HIDE DEF r, Goal
  <2>. QED
    BY <1>1, <2>1, <2>2
<1>5. ASSUME NEW p, BeginComplete(s, p) PROVE Goal
  <2>. DEFINE r == [op |-> "complete", proc |-> p, biscuit |-> findActiveBiscuitByProcess(p)]
  <2>1. Begin(s, r) /\ r.op # "output_by_process" /\ UNCHANGED <<lots, issues, scrapped>>
    BY <1>5 DEF BeginComplete
  <2>. HIDE DEF r, Goal
  <2>. QED
    BY <1>1, <2>1
<1>6. ASSUME NEW p \in DOMAIN procs, BeginOutput(s, p) PROVE Goal
  <2>. DEFINE b == findActiveBiscuitByProcess(p)
              r == [op |-> "output_by_process", proc |-> p, biscuit |-> b]
  <2>1. sess' = [sess EXCEPT ![s] = r] /\ UNCHANGED <<lots, issues, scrapped>> /\ BiscuitsOf(p) # {}
    BY <1>6 DEF BeginOutput, Begin
  <2>2. b \in BiscuitsOf(p)
    <3>1. TablesOK /\ p \in Nat
      BY DEF FlowInv, IInv, TablesOK
    <3>. QED
      BY <2>1, <3>1, BiscuitFound
  <2>3. r.biscuit \in DOMAIN lots /\ lots[r.biscuit].kind = "growth_run"
    BY <2>2 DEF BiscuitsOf
  <2>. HIDE DEF r, b
  <2>. QED
    BY <2>1, <2>3, ReadFlow
<1>7. ASSUME UNCHANGED <<lots, issues, scrapped>>, End(s) \/ UNCHANGED sess
      PROVE  Goal
  <2>1. KindsStay /\ SeedsStay
    BY <1>7 DEF KindsStay, SeedsStay
  <2>. QED
    BY <1>7, <2>1, EndsFlow
<1>8. CASE FinishStart(s) \/ FinishHoldResume(s) \/ Rollback(s)
  <2>1. UNCHANGED <<lots, issues, scrapped>> /\ (End(s) \/ UNCHANGED sess)
    BY <1>8 DEF FinishStart, FinishHoldResume, Rollback
  <2>. HIDE DEF Goal
  <2>2. Goal
    BY <1>7, <2>1
  <2>. QED
    BY <2>2 DEF Goal
<1>9. CASE FinishComplete(s)
  <2>1. KindsStay /\ SeedsStay
    BY <1>9, GrowthFlow
  <2>2. UNCHANGED <<issues, scrapped>> /\ End(s)
    BY <1>9 DEF FinishComplete
  <2>. QED
    BY <2>1, <2>2, EndsFlow
<1>10. ASSUME NEW b \in DOMAIN lots, lots[b].kind = "growth_run", NEW p, RoughOutput(b, p),
              End(s) \/ UNCHANGED sess
       PROVE  Goal
  <2>1. KindsStay /\ SeedsStay
    BY <1>10, CuttingFlow
  <2>2. UNCHANGED <<issues, scrapped>>
    BY <1>10 DEF RoughOutput
  <2>. QED
    BY <1>10, <2>1, <2>2, EndsFlow
<1>11. CASE FinishOutput(s)
  <2>1. sess[s].op = "output_by_process" /\ RoughOutput(sess[s].biscuit, sess[s].proc) /\ End(s)
    BY <1>11 DEF FinishOutput
  <2>2. sess[s].biscuit \in DOMAIN lots /\ lots[sess[s].biscuit].kind = "growth_run"
    <3>1. sess[s].biscuit \in DOMAIN lots /\ lots[sess[s].biscuit].kind # "seed"
      BY <2>1 DEF FlowInv, IInv, SessionOK, CutsBiscuit, Seed
    <3>2. lots[sess[s].biscuit] \in Lot
      BY <3>1, TablesTyped DEF FlowInv, IInv, TypeOK
    <3>. QED
      BY <3>1, <3>2 DEF Lot
  <2>. HIDE DEF Goal
  <2>3. Goal
    BY <1>10, <2>1, <2>2
  <2>. QED
    BY <2>3 DEF Goal
<1>. HIDE DEF Goal
<1>12. Goal
  BY <1>2, <1>3, <1>4, <1>5, <1>6, <1>8, <1>9, <1>11 DEF Goal
<1>. QED
  BY <1>12 DEF Goal

(* The table of lots after the COMMIT of a return.                         *)
ReturnedTable(s) ==
    LET r == sess[s]
        i == r.issue
        l == issues[i].lot
        p == issues[i].proc
        new == ReturnLots(lots[l], r)
        settled == [lots EXCEPT ![l] = ReturnedRow(@, r)]
    IN  /\ new = <<>> \/ \E q : new = <<q>>
        /\ DOMAIN lots' = 1..(Len(lots) + Len(new))
        /\ \A x \in DOMAIN lots :
              \/ lots'[x] = settled[x]
              \/ /\ r.last /\ Closable(p) /\ OutputBased(procs[p].type)
                 /\ lots'[x] = advanceGrowthRunToStock(settled[x], p)
        /\ \A n \in DOMAIN new : lots'[Len(lots) + n] = new[n]

LEMMA ReturnWritesLots ==
    ASSUME IInv, NEW s \in Sessions, FinishReturn(s)
    PROVE  ReturnedTable(s)
<1>. DEFINE r == sess[s]
            i == r.issue
            l == issues[i].lot
            p == issues[i].proc
            awaits == r.last /\ Closable(p) /\ OutputBased(procs[p].type)
            settled == [lots EXCEPT ![l] = ReturnedRow(@, r)]
            advanced == [x \in DOMAIN lots |-> advanceGrowthRunToStock(settled[x], p)]
            new == ReturnLots(lots[l], r)
            after == IF awaits THEN advanced ELSE settled
            nl == Len(lots)
<1>1. lots' = after \o new
  BY DEF FinishReturn
<1>2. new = <<>> \/ \E q : new = <<q>>
  BY DEF ReturnLots
<1>3. nl \in Nat /\ DOMAIN lots = 1..nl
  BY DEF IInv, TablesOK
<1>4. /\ DOMAIN settled = DOMAIN lots /\ DOMAIN advanced = DOMAIN lots
      /\ \A x \in DOMAIN lots : advanced[x] = advanceGrowthRunToStock(settled[x], p)
  OBVIOUS
<1>5. settled \in [1..nl -> {settled[x] : x \in DOMAIN lots}]
      /\ advanced \in [1..nl -> {advanced[x] : x \in DOMAIN lots}]
  BY <1>3
<1>6. ASSUME NEW a, NEW S, a \in [1..nl -> S], lots' = a \o new
      PROVE  /\ DOMAIN lots' = 1..(nl + Len(new))
             /\ \A x \in DOMAIN lots : lots'[x] = a[x]
             /\ \A n \in DOMAIN new : lots'[nl + n] = new[n]
  <2>. HIDE DEF new, nl, p, r, settled, after, awaits
  <2>1. Len(new) \in Nat /\ DOMAIN new = 1..Len(new)
    BY <1>2
  <2>2. DOMAIN a = 1..nl /\ Len(a) = nl
    BY <1>3, <1>6, RewriteRows
  <2>3. DOMAIN lots' = 1..(nl + Len(new))
    <3>1. DOMAIN (a \o new) = 1..(Len(a) + Len(new))
      OBVIOUS
    <3>2. lots' = a \o new
      BY <1>6
    <3>. QED
      BY ONLY <2>2, <3>1, <3>2
  <2>4. /\ \A x \in 1..nl : lots'[x] = a[x]
        /\ \A n \in DOMAIN new : lots'[nl + n] = new[n]
    BY ONLY <1>3, <1>6, <2>1, RowsInserted
  <2>. QED
    BY <1>3, <2>3, <2>4
<1>. HIDE DEF new, nl, settled, advanced, awaits
<1>7. /\ DOMAIN lots' = 1..(nl + Len(new))
      /\ \A x \in DOMAIN lots :
              lots'[x] = settled[x] \/ (awaits /\ lots'[x] = advanceGrowthRunToStock(settled[x], p))
      /\ \A n \in DOMAIN new : lots'[nl + n] = new[n]
  <2>1. CASE awaits
    <3>1. lots' = advanced \o new
      BY <1>1, <2>1
    <3>. HIDE DEF p
    <3>. QED
      BY <1>4, <1>5, <1>6, <2>1, <3>1
  <2>2. CASE ~awaits
    <3>1. lots' = settled \o new
      BY <1>1, <2>2
    <3>. HIDE DEF p
    <3>. QED
      BY <1>5, <1>6, <3>1
  <2>. QED
    BY <2>1, <2>2
<1>. QED
  BY <1>2, <1>7 DEF ReturnedTable, new, nl, settled, awaits

(* What a return leaves of the rows: those there were hold as many seeds   *)
(* in stock as before, and a seed's usable pieces are a row of their own.  *)
LEMMA ReturnedRows ==
    ASSUME FlowInv, NEW s \in Sessions, FinishReturn(s),
           NEW r, r = sess[s], NEW i, i = r.issue, NEW l, l = issues[i].lot,
           NEW nl, nl = Len(lots)
    PROVE  /\ \A x \in DOMAIN lots :
                 /\ x \in DOMAIN lots' /\ lots'[x].kind = lots[x].kind
                 /\ AtHand(x)' = AtHand(x)
                 /\ Seed(x) /\ lots[x].status # "IN STOCK" => lots'[x].status # "IN STOCK"
           /\ IF Seed(l) /\ r.lines["usable"] # 0
              THEN /\ DOMAIN lots' = 1..nl + 1
                   /\ AtHand(nl + 1)' = r.lines["usable"]
              ELSE DOMAIN lots' = 1..nl
<1>. DEFINE p == issues[i].proc
            new == ReturnLots(lots[l], r)
            settled == [lots EXCEPT ![l] = ReturnedRow(@, r)]
            row == [kind |-> lots[l].kind, status |-> "IN STOCK", qty |-> r.lines["usable"],
                    proc |-> 0, outputs |-> 0]
<1>1. ReturnedTable(s) /\ ReturnEffect(s)
  BY ReturnWritesLots, ReturnWrites DEF FlowInv
<1>2. /\ DOMAIN lots' = 1..(nl + Len(new))
      /\ \A x \in DOMAIN lots :
            lots'[x] = settled[x] \/ lots'[x] = advanceGrowthRunToStock(settled[x], p)
      /\ \A n \in DOMAIN new : lots'[nl + n] = new[n]
  BY <1>1 DEF ReturnedTable
<1>3. /\ i \in DOMAIN issues /\ issues[i].status = "OPEN" /\ l \in DOMAIN lots
      /\ r.remaining \in Nat
      /\ \A x \in DOMAIN lots :
            /\ x \in DOMAIN lots'
            /\ lots'[x].kind = lots[x].kind
            /\ \/ lots'[x] = lots[x]
               \/ x = l /\ r.remaining = 0
               \/ lots[x].kind = "growth_run"
  BY <1>1 DEF ReturnEffect
<1>4. nl \in Nat /\ DOMAIN lots = 1..nl
  BY PiecesNat DEF FlowInv, IInv, PiecesOK
<1>5. /\ lots[l] \in Lot
      /\ Seed(l) <=> lots[l].kind # "growth_run"
      /\ Seed(l) => lots[l].status # "IN STOCK"
  <2>1. lots[l] \in Lot
    BY <1>3, TablesTyped DEF FlowInv, IInv, TypeOK
  <2>. QED
    BY <1>3, <2>1 DEF Seed, Lot, FlowInv, SeedsOut
<1>6. Seed(l) /\ r.remaining = 0 => lots'[l].status = "CONSUMED"
  <2>. SUFFICES ASSUME Seed(l), r.remaining = 0 PROVE lots'[l].status = "CONSUMED"
    OBVIOUS
  <2>1. settled[l] = [lots[l] EXCEPT !.status = "CONSUMED", !.qty = 0]
    <3>1. settled[l] = ReturnedRow(lots[l], r)
      BY <1>3
    <3>2. ~(r.remaining > 0) /\ lots[l].kind # "growth_run"
      <4>1. \A k : k = 0 => ~(k > 0)
        OBVIOUS
      <4>2. lots[l].kind # "growth_run"
        BY <1>5
      <4>. QED
        BY <4>1, <4>2
    <3>. HIDE DEF settled
    <3>. QED
      BY ONLY <3>1, <3>2, Zenon DEF ReturnedRow
  <2>2. settled[l].status = "CONSUMED"
    <3>. HIDE DEF settled
    <3>. QED
      BY <1>5, <2>1 DEF Lot
  <2>3. advanceGrowthRunToStock(settled[l], p) = settled[l]
    <3>. HIDE DEF settled
    <3>. QED
      BY <2>2 DEF advanceGrowthRunToStock
  <2>. HIDE DEF settled
  <2>. QED
    BY <1>2, <1>3, <2>2, <2>3
<1>7. ASSUME NEW x \in DOMAIN lots
      PROVE  /\ AtHand(x)' = AtHand(x)
             /\ Seed(x) /\ lots[x].status # "IN STOCK" => lots'[x].status # "IN STOCK"
  <2>1. CASE lots'[x] = lots[x]
    BY <2>1 DEF AtHand, Seed
  <2>2. CASE lots[x].kind = "growth_run"
    BY <1>3, <2>2 DEF AtHand, Seed
  <2>3. CASE x = l /\ r.remaining = 0 /\ Seed(l)
    <3>1. AtHand(x) = 0
      BY <1>5, <2>3 DEF AtHand
    <3>2. lots'[x].status = "CONSUMED"
      BY <1>6, <2>3
    <3>3. AtHand(x)' = 0
      BY <3>2 DEF AtHand
    <3>. QED
      BY <3>1, <3>2, <3>3
  <2>. QED
    BY <1>3, <1>5, <2>1, <2>2, <2>3
<1>8. new = IF Seed(l) /\ r.lines["usable"] # 0 THEN <<row>> ELSE <<>>
  BY <1>5 DEF ReturnLots
<1>9. row.kind = lots[l].kind /\ row.status = "IN STOCK" /\ row.qty = r.lines["usable"]
  OBVIOUS
<1>. HIDE DEF new, row, settled
<1>10. CASE Seed(l) /\ r.lines["usable"] # 0
  <2>1. new = <<row>>
    BY <1>8, <1>10
  <2>2. Len(new) = 1 /\ 1 \in DOMAIN new /\ new[1] = row
    BY <2>1
  <2>3. DOMAIN lots' = 1..nl + 1 /\ lots'[nl + 1] = row
    BY <1>2, <2>2
  <2>4. AtHand(nl + 1)' = r.lines["usable"]
    BY <1>9, <1>10, <2>3, <1>4 DEF AtHand, Seed
  <2>. QED
    BY <1>3, <1>7, <1>10, <2>3, <2>4
<1>11. CASE ~(Seed(l) /\ r.lines["usable"] # 0)
  <2>1. Len(new) = 0
    BY <1>8, <1>11
  <2>2. DOMAIN lots' = 1..nl
    BY <1>2, <1>4, <2>1
  <2>. QED
    BY <1>3, <1>7, <1>11, <2>2
<1>. QED
  BY <1>10, <1>11

(* The pieces move from the process to stock and out of circulation.       *)
BroughtBack(u, d) ==
    /\ InStock' = InStock + u
    /\ InProcess' = InProcess - (u + d)
    /\ scrapped' = scrapped + d

LEMMA ReturnFlow ==
    ASSUME FlowInv, IInv', NEW s \in Sessions, FinishReturn(s)
    PROVE  FlowInv' /\ \E u, d \in Nat : BroughtBack(u, d)
<1>1. PICK r, i, l, nl, ni :
          r = sess[s] /\ i = r.issue /\ l = issues[i].lot /\ nl = Len(lots) /\ ni = Len(issues)
  OBVIOUS
<1>2. /\ r \in Session /\ r.op = "return"
      /\ r.lines["usable"] \in Nat /\ r.lines["damaged"] \in Nat /\ r.lines["consumed"] \in Nat
      /\ r.lines \in Lines
  <2>1. r \in Session /\ r.op = "return"
    BY <1>1 DEF FlowInv, IInv, TablesOK, FinishReturn
  <2>2. r.lines \in Lines
    BY <2>1 DEF Session, Idle
  <2>. QED
    BY <2>1, <2>2, ShopFloorAssumption DEF Lines
<1>3. PICK u \in Nat, d \in Nat :
          /\ u = IF Seed(l) THEN r.lines["usable"] ELSE 0
          /\ d = IF Seed(l) THEN r.lines["damaged"] + r.lines["consumed"] ELSE 0
  BY <1>2
<1>4. /\ nl \in Nat /\ DOMAIN lots = 1..nl /\ ni \in Nat /\ DOMAIN issues = 1..ni
      /\ \A x \in 1..nl : AtHand(x) \in Nat
      /\ \A j \in 1..ni : Inside(j) \in Nat
      /\ InStock \in Nat /\ InProcess \in Nat
      /\ InStock = SumFunctionOnSet([x \in DOMAIN lots |-> AtHand(x)], 1..nl)
      /\ InProcess = SumFunctionOnSet([j \in DOMAIN issues |-> Inside(j)], 1..ni)
  BY <1>1, PiecesNat DEF FlowInv, IInv, PiecesOK
<1>5. /\ \A x \in DOMAIN lots :
            /\ x \in DOMAIN lots' /\ lots'[x].kind = lots[x].kind
            /\ AtHand(x)' = AtHand(x)
            /\ Seed(x) /\ lots[x].status # "IN STOCK" => lots'[x].status # "IN STOCK"
      /\ IF Seed(l) /\ r.lines["usable"] # 0
         THEN /\ DOMAIN lots' = 1..nl + 1
              /\ AtHand(nl + 1)' = r.lines["usable"]
         ELSE DOMAIN lots' = 1..nl
  BY <1>1, ReturnedRows
<1>6. /\ i \in DOMAIN issues /\ issues[i].status = "OPEN" /\ l \in DOMAIN lots
      /\ r.remaining \in Nat
      /\ DOMAIN issues' = DOMAIN issues
      /\ issues'[i].lot = l
      /\ issues'[i].status = IF r.remaining = 0 THEN "RETURNED" ELSE "OPEN"
      /\ \A j \in DOMAIN issues \ {i} : issues'[j] = issues[j]
  <2>1. ReturnEffect(s)
    BY ReturnWrites DEF FlowInv
  <2>. QED
    BY <1>1, <2>1 DEF ReturnEffect
<1>7. issues[i].remaining = r.remaining + Total(r.lines)
  BY <1>1, <1>2 DEF FlowInv, IInv, SessionOK, ReturnOK
<1>8. issues'[i].remaining = r.remaining
  <2>1. issues' = [issues EXCEPT ![i].remaining = r.remaining,
                                 ![i].returned = @ + Total(r.lines),
                                 ![i].status = IF r.remaining = 0 THEN "RETURNED" ELSE "OPEN"]
    BY <1>1 DEF FinishReturn
  <2>2. issues[i] \in Issue
    BY <1>6, TablesTyped DEF FlowInv, IInv, TypeOK
  <2>. QED
    BY <1>6, <2>1, <2>2 DEF Issue
<1>9. scrapped' = scrapped + d
  <2>1. scrapped' = IF lots[l].kind = "growth_run" THEN scrapped
                    ELSE scrapped + r.lines["damaged"] + r.lines["consumed"]
    BY <1>1 DEF FinishReturn
  <2>2. scrapped \in Nat
    BY DEF FlowInv, IInv, TablesOK
  <2>3. lots[l] \in Lot
    BY <1>6, TablesTyped DEF FlowInv, IInv, TypeOK
  <2>4. Seed(l) <=> lots[l].kind # "growth_run"
    BY <2>3 DEF Seed, Lot
  <2>. QED
    BY <1>2, <1>3, <2>1, <2>2, <2>4
<1>10. InStock' = InStock + u
  <2>. DEFINE h == [x \in DOMAIN lots |-> AtHand(x)]
  <2>1. PICK g : g = [x \in DOMAIN lots' |-> AtHand(x)']
    OBVIOUS
  <2>2. InStock' = SumFunction(g)
    BY <2>1 DEF InStock
  <2>3. \A x \in 1..nl : h[x] \in Int /\ g[x] = h[x]
    <3>1. \A x \in 1..nl : x \in DOMAIN lots' /\ AtHand(x)' = AtHand(x) /\ AtHand(x) \in Int
      <4>1. \A x \in DOMAIN lots : x \in DOMAIN lots' /\ AtHand(x)' = AtHand(x)
        BY <1>5
      <4>2. DOMAIN lots = 1..nl /\ \A x \in 1..nl : AtHand(x) \in Int
        BY <1>4
      <4>. QED
        BY ONLY <4>1, <4>2
    <3>2. \A x \in 1..nl : h[x] = AtHand(x)
      BY <1>4
    <3>. HIDE DEF h
    <3>. QED
      BY ONLY <2>1, <3>1, <3>2
  <2>4. CASE Seed(l) /\ r.lines["usable"] # 0
    <3>1. DOMAIN g = 1..nl + 1 /\ g[nl + 1] = u /\ nl + 1 \in Nat
      <4>1. DOMAIN lots' = 1..nl + 1 /\ AtHand(nl + 1)' = u
        BY <1>3, <1>5, <2>4
      <4>2. nl + 1 \in Nat /\ nl + 1 \in 1..nl + 1
        BY <1>4
      <4>. QED
        BY ONLY <2>1, <4>1, <4>2
    <3>. HIDE DEF h
    <3>2. \A x \in 1..nl + 1 : g[x] \in Int
      <4>1. nl \in Nat /\ u \in Int
        BY <1>4
      <4>2. \A x \in 1..nl + 1 : x \in 1..nl \/ x = nl + 1
        BY ONLY <4>1
      <4>3. \A x \in 1..nl : g[x] \in Int
        BY <2>3
      <4>. QED
        BY ONLY <3>1, <4>1, <4>2, <4>3
    <3>3. SumFunctionOnSet(g, 1..nl + 1) = SumFunctionOnSet(h, 1..nl) + g[nl + 1]
      BY <1>4, <2>3, <3>2, SumNext
    <3>4. SumFunction(g) = SumFunctionOnSet(g, 1..nl + 1)
      BY <3>1 DEF SumFunction
    <3>. QED
      BY <1>4, <2>2, <3>1, <3>3, <3>4 DEF h
  <2>5. CASE ~(Seed(l) /\ r.lines["usable"] # 0)
    <3>1. DOMAIN g = 1..nl /\ u = 0
      BY <1>3, <1>5, <2>1, <2>5
    <3>2. g = h
      BY <1>4, <1>5, <2>1, <3>1
    <3>3. SumFunction(g) = SumFunctionOnSet(h, 1..nl)
      BY <3>1, <3>2 DEF SumFunction
    <3>. QED
      BY <1>4, <2>2, <3>1, <3>3
  <2>. QED
    BY <2>4, <2>5
<1>11. InProcess' = InProcess - (u + d)
  <2>. DEFINE h == [j \in DOMAIN issues |-> Inside(j)]
              S == 1..ni
  <2>1. PICK g : g = [j \in DOMAIN issues' |-> Inside(j)']
    OBVIOUS
  <2>2. InProcess' = SumFunctionOnSet(g, 1..ni)
    BY <1>4, <1>6, <2>1 DEF InProcess, SumFunction
  <2>3. \A j \in 1..ni : j # i => g[j] = h[j]
    <3>. SUFFICES ASSUME NEW j \in 1..ni, j # i PROVE Inside(j)' = Inside(j)
      BY <1>4, <1>6, <2>1
    <3>1. issues'[j] = issues[j] /\ issues[j].lot \in DOMAIN lots
      BY <1>4, <1>6, IssueFields DEF FlowInv, IInv
    <3>. QED
      BY <1>5, <3>1 DEF Inside, Seed
  <2>4. i \in 1..ni /\ h[i] = Inside(i) /\ g[i] = Inside(i)'
    BY <1>4, <1>6, <2>1
  <2>5. Seed(l) => h[i] = r.remaining + Total(r.lines) /\ g[i] = r.remaining
    <3>1. Inside(i) = IF Seed(l) THEN r.remaining + Total(r.lines) ELSE 0
      BY <1>1, <1>6, <1>7 DEF Inside
    <3>2. Inside(i)' = IF lots'[l].kind = "seed" THEN r.remaining ELSE 0
      BY <1>6, <1>8 DEF Inside, Seed
    <3>. QED
      BY <1>5, <1>6, <2>4, <3>1, <3>2 DEF Seed
  <2>6. ~Seed(l) => h[i] = 0 /\ g[i] = 0
    <3>1. ~Seed(l) => Inside(i) = 0
      BY <1>1 DEF Inside
    <3>2. Inside(i)' = IF lots'[l].kind = "seed" THEN r.remaining ELSE 0
      BY <1>6, <1>8 DEF Inside, Seed
    <3>. QED
      BY <1>5, <1>6, <2>4, <3>1, <3>2 DEF Seed
  <2>7. Total(r.lines) = r.lines["usable"] + (r.lines["damaged"] + r.lines["consumed"])
    BY <1>2 DEF Total
  <2>8. g[i] \in Int /\ h[i] \in Int /\ h[i] - g[i] = u + d
    <3>1. Total(r.lines) \in Nat
      BY <1>2, <2>7
    <3>. HIDE DEF h
    <3>. QED
      BY <1>2, <1>3, <1>6, <2>5, <2>6, <2>7, <3>1
  <2>9. IsFiniteSet(S) /\ i \in S
    BY <1>4, <2>4, FS_Interval
  <2>10. \A j \in S : h[j] \in Int /\ g[j] \in Int
    <3>1. \A j \in S : h[j] \in Int
      BY <1>4
    <3>. QED
      BY <2>3, <2>8, <3>1
  <2>11. \A j \in S : i # j => g[j] = h[j]
    BY <2>3
  <2>12. InProcess = SumFunctionOnSet(h, S) /\ InProcess' = SumFunctionOnSet(g, S)
    BY <1>4, <2>2
  <2>. HIDE DEF h, S
  <2>13. SumFunctionOnSet(g, S) = SumFunctionOnSet(h, S) + g[i] - h[i]
    BY <2>9, <2>10, <2>11, SumChange
  <2>. QED
    BY <1>4, <2>8, <2>12, <2>13
<1>12. SeedsOut'
  <2>. SUFFICES ASSUME NEW j \in DOMAIN issues', NEW x, x = issues'[j].lot,
                       issues'[j].status = "OPEN", lots'[x].kind = "seed"
                PROVE  lots'[x].status # "IN STOCK"
    BY DEF SeedsOut, Seed
  <2>1. x = issues[j].lot /\ issues[j].status = "OPEN" /\ j \in DOMAIN issues
    BY <1>1, <1>6
  <2>2. x \in DOMAIN lots /\ lots[x].kind = "seed" /\ lots[x].status # "IN STOCK"
    BY <1>5, <2>1, IssueFields DEF FlowInv, IInv, SeedsOut, Seed
  <2>. QED
    BY <1>5, <2>2 DEF Seed
<1>13. CutsBiscuit'
  <2>1. sess'[s] = Idle /\ \A t \in Sessions \ {s} : sess'[t] = sess[t]
    BY EndSession DEF FinishReturn, FlowInv, IInv, TablesOK
  <2>2. \A t \in Sessions : CutsOnly(t)
    BY <2>1 DEF CutsOnly, Idle
  <2>3. KindsStay
    BY <1>5 DEF KindsStay
  <2>. QED
    BY <2>2, <2>3, CutKeeps
<1>14. InStock' + InProcess' + scrapped' = Purchased * MaxQty
  <2>1. PICK all : all = Purchased * MaxQty
    OBVIOUS
  <2>2. InStock + InProcess + scrapped = all /\ scrapped \in Nat
    BY <2>1 DEF FlowInv, IInv, TablesOK
  <2>3. PICK a \in Nat, b \in Nat, c \in Nat : a = InStock /\ b = InProcess /\ c = scrapped
    BY <1>4, <2>2
  <2>4. a + b + c = all
    BY <2>2, <2>3
  <2>5. (a + u) + (b - (u + d)) + (c + d) = a + b + c
    OBVIOUS
  <2>6. InStock' = a + u /\ InProcess' = b - (u + d) /\ scrapped' = c + d
    BY <1>9, <1>10, <1>11, <2>3
  <2>. QED
    BY ONLY <2>1, <2>4, <2>5, <2>6
<1>15. FlowInv'
  BY <1>12, <1>13, <1>14 DEF FlowInv
<1>16. BroughtBack(u, d)
  BY <1>9, <1>10, <1>11 DEF BroughtBack
<1>. QED
  BY <1>15, <1>16

(* The two routes of an issue write the same rows; only the one with a     *)
(* machine adds a biscuit.                                                 *)
Entering(req, p, extra) ==
    /\ \A k \in DOMAIN req : Issuable(req[k])
    /\ \A j, k \in DOMAIN req : req[j].lot = req[k].lot => j = k
    /\ extra = <<>> \/ \E q : extra = <<q>> /\ q.kind = "growth_run"
    /\ issues' = issues \o [k \in DOMAIN req |-> NewIssue(req, k, p)]
    /\ lots' = [l \in DOMAIN lots |-> AfterIssue(req, p, l)] \o (Children(req, p) \o extra)
    /\ UNCHANGED <<scrapped, sess>>

LEMMA MachineEnters ==
    ASSUME PickerOnly, NEW m, NEW t, NEW req \in Requests, IssueToMachine(m, t, req)
    PROVE  Entering(req, Len(procs) + 1, createGrowthRun(t, req, Len(procs) + 1))
<1>. DEFINE p == Len(procs) + 1
            q == [kind |-> "growth_run", status |-> "IN PROCESS",
                  qty |-> req[1].qty + (IF Len(req) = 2 THEN req[2].qty ELSE 0),
                  proc |-> p, outputs |-> 0]
            extra == createGrowthRun(t, req, p)
<1>1. extra = <<>> \/ extra = <<q>>
  BY DEF createGrowthRun
<1>2. q.kind = "growth_run"
  OBVIOUS
<1>3. extra = <<>> \/ \E x : extra = <<x>> /\ x.kind = "growth_run"
  <2>. HIDE DEF q, extra
  <2>. QED
    BY <1>1, <1>2
<1>4. /\ \A k \in DOMAIN req : Issuable(req[k])
      /\ \A j, k \in DOMAIN req : req[j].lot = req[k].lot => j = k
      /\ issues' = issues \o [k \in DOMAIN req |-> NewIssue(req, k, p)]
      /\ lots' = [l \in DOMAIN lots |-> AfterIssue(req, p, l)] \o (Children(req, p) \o extra)
      /\ UNCHANGED <<scrapped, sess>>
  BY DEF IssueToMachine
<1>. HIDE DEF extra, p, q
<1>5. Entering(req, p, extra)
  BY ONLY <1>3, <1>4 DEF Entering
<1>. QED
  BY <1>5 DEF p, extra

LEMMA HandEnters ==
    ASSUME TablesOK, NEW e \in Entries, HandIssue(e)
    PROVE  Entering(<<e>>, 0, <<>>)
<1>. DEFINE req == <<e>>
            row == NewIssue(req, 1, 0)
            more == [k \in DOMAIN req |-> NewIssue(req, k, 0)]
            ch == ChildOf(e, 0)
<1>1. Len(req) = 1 /\ DOMAIN req = {1} /\ DOMAIN req = 1..1 /\ req[1] = e
  OBVIOUS
<1>2. more = <<row>>
  <2>1. more \in Seq({row}) /\ <<row>> \in Seq({row}) /\ Len(more) = 1 /\ Len(<<row>>) = 1
    <3>1. more \in [1..1 -> {row}]
      BY <1>1
    <3>. HIDE DEF more, row
    <3>2. more \in Seq({row}) /\ Len(more) = 1
      BY <3>1, RewriteRows
    <3>3. <<row>> \in Seq({row}) /\ Len(<<row>>) = 1
      OBVIOUS
    <3>. QED
      BY <3>2, <3>3
  <2>2. more[1] = row /\ <<row>>[1] = row
    BY <1>1
  <2>. HIDE DEF more, row
  <2>. QED
    BY <2>1, <2>2, SeqEqual
<1>3. issues' = issues \o <<row>>
  <2>1. issues' = Append(issues, row)
    BY DEF HandIssue
  <2>2. issues \in Seq(IssueRow(Len(lots), Len(procs)))
    BY DEF TablesOK
  <2>. HIDE DEF row
  <2>. QED
    BY <2>1, <2>2
<1>4. Children(req, 0) \o <<>> = ch
  <2>1. ch = <<>> \/ ch = <<ChildRowOf(e)>>
    BY ChildIs
  <2>2. Children(req, 0) = ch \o <<>>
    BY <1>1 DEF Children
  <2>. HIDE DEF ch
  <2>3. ch \o <<>> = ch
    <3>1. PICK c : c = ChildRowOf(e)
      OBVIOUS
    <3>2. <<>> \in Seq({c}) /\ <<c>> \in Seq({c})
      OBVIOUS
    <3>3. ch \in Seq({c})
      BY <2>1, <3>1, <3>2
    <3>. QED
      BY <3>3, ConcatEmptySeq
  <2>. QED
    BY <2>2, <2>3
<1>5. /\ \A k \in DOMAIN req : Issuable(req[k])
      /\ \A j, k \in DOMAIN req : req[j].lot = req[k].lot => j = k
      /\ lots' = [l \in DOMAIN lots |-> AfterIssue(req, 0, l)] \o ch
      /\ UNCHANGED <<scrapped, sess>>
  BY <1>1 DEF HandIssue
<1>. HIDE DEF req, row, more, ch
<1>6. Entering(req, 0, <<>>)
  BY <1>2, <1>3, <1>4, <1>5 DEF Entering, more
<1>. QED
  BY <1>6 DEF req

(* The seeds an entry takes from stock.                                    *)
SeedsOf(e) == IF Seed(e.lot) THEN e.qty ELSE 0

(* What an entry leaves in stock of the lot it names.                      *)
LEMMA TakenFrom ==
    ASSUME TablesOK, NEW e \in Entries, Issuable(e), NEW p, NEW row,
           row = WriteSource(lots[e.lot], e, p)
    PROVE  /\ row.kind = lots[e.lot].kind
           /\ (IF row.kind = "seed" /\ row.status = "IN STOCK" THEN row.qty ELSE 0)
                 = AtHand(e.lot) - SeedsOf(e)
<1>1. e.lot \in DOMAIN lots /\ e.qty \in Nat /\ lots[e.lot] \in Lot
  <2>1. e.lot \in DOMAIN lots /\ e.qty \in Nat
    BY EntryFacts
  <2>. QED
    BY <2>1, TablesTyped DEF TypeOK
<1>2. lots[e.lot].status = "IN STOCK"
  BY DEF Issuable
<1>3. PICK old \in Lot, q \in Nat : old = lots[e.lot] /\ q = e.qty
  BY <1>1
<1>4. AtHand(e.lot) = IF old.kind = "seed" THEN old.qty ELSE 0
  BY <1>2, <1>3 DEF AtHand, Seed
<1>5. SeedsOf(e) = IF old.kind = "seed" THEN q ELSE 0
  BY <1>3 DEF SeedsOf, Seed
<1>6. PICK left : left = AtHand(e.lot) - SeedsOf(e)
  OBVIOUS
<1>7. left = (IF old.kind = "seed" THEN old.qty - q ELSE 0) /\ old.qty \in Nat
  BY <1>4, <1>5, <1>6 DEF Lot
<1>8. CASE InPlace(e, p)
  <2>1. row.kind = old.kind /\ row.status = "IN PROCESS"
    BY <1>3, <1>8 DEF WriteSource, Lot
  <2>2. old.kind = "seed" => q = old.qty
    <3>1. old.kind = "seed" => old.kind # "growth_run"
      OBVIOUS
    <3>. QED
      BY <1>3, <1>8, <3>1 DEF InPlace
  <2>3. left = 0
    BY ONLY <1>7, <2>2
  <2>. QED
    BY <1>3, <1>6, <2>1, <2>3
<1>9. CASE ~InPlace(e, p)
  <2>1. row.kind = old.kind /\ row.status = "IN STOCK" /\ row.qty = old.qty - q
    BY <1>3, <1>9 DEF WriteSource, Lot
  <2>2. (IF row.kind = "seed" /\ row.status = "IN STOCK" THEN row.qty ELSE 0) = left
    BY ONLY <1>7, <2>1
  <2>. QED
    BY <1>3, <1>6, <2>1, <2>2
<1>. QED
  BY <1>8, <1>9

(* The rows an issue leaves: the lots it names, the lots it inserts and    *)
(* the issues themselves.                                                  *)
EnteredRows(req, p, nl, ni) ==
    /\ \A l \in DOMAIN lots :
          /\ l \in DOMAIN lots' /\ lots'[l].kind = lots[l].kind
          /\ lots[l].status # "IN STOCK" => lots'[l] = lots[l]
          /\ (\A k \in DOMAIN req : req[k].lot # l) => AtHand(l)' = AtHand(l)
          /\ \A k \in DOMAIN req :
                req[k].lot = l => AtHand(l)' = AtHand(l) - SeedsOf(req[k])
    /\ \E m \in Nat : DOMAIN lots' = 1..nl + m
    /\ \A l \in DOMAIN lots' \ DOMAIN lots : AtHand(l)' = 0
    /\ DOMAIN issues' = 1..ni + Len(req)
    /\ \A i \in DOMAIN issues : issues'[i] = issues[i]
    /\ \A k \in DOMAIN req :
          LET is == issues'[ni + k] IN
          /\ is.status = "OPEN" /\ is.remaining = req[k].qty
          /\ lots'[is.lot].kind = lots[req[k].lot].kind
          /\ lots'[is.lot].status = "IN PROCESS"

LEMMA Entered ==
    ASSUME TablesOK, NEW req \in Requests, NEW p, NEW extra, Entering(req, p, extra),
           NEW nl, nl = Len(lots), NEW ni, ni = Len(issues)
    PROVE  EnteredRows(req, p, nl, ni)
<1>. DEFINE ch == Children(req, p)
            inserted == ch \o extra
            more == [k \in DOMAIN req |-> NewIssue(req, k, p)]
            source == [l \in DOMAIN lots |-> AfterIssue(req, p, l)]
<1>1. /\ nl \in Nat /\ DOMAIN lots = 1..nl /\ ni \in Nat /\ DOMAIN issues = 1..ni
      /\ \A l \in DOMAIN lots : lots[l] \in Lot
  <2>1. \A l \in DOMAIN lots : lots[l] \in Lot
    BY TablesTyped DEF TypeOK
  <2>. QED
    BY <2>1 DEF TablesOK
<1>2. /\ issues' = issues \o more
      /\ lots' = source \o inserted
      /\ \A k \in DOMAIN req : Issuable(req[k])
      /\ \A j, k \in DOMAIN req : req[j].lot = req[k].lot => j = k
      /\ extra = <<>> \/ \E q : extra = <<q>> /\ q.kind = "growth_run"
  BY DEF Entering
<1>3. /\ Len(req) \in {1, 2} /\ DOMAIN req = 1..Len(req)
      /\ \A k \in DOMAIN req : req[k] \in Entries /\ req[k].lot \in DOMAIN lots
  <2>1. /\ Len(req) \in {1, 2} /\ DOMAIN req = 1..Len(req)
        /\ req[1] \in Entries
        /\ Len(req) = 2 => req[2] \in Entries
    BY RequestFacts
  <2>2. \A k \in DOMAIN req : req[k] \in Entries
    <3>1. Len(req) = 1 => DOMAIN req = {1}
      BY <2>1
    <3>2. Len(req) = 2 => DOMAIN req = {1, 2}
      BY <2>1
    <3>. QED
      BY <2>1, <3>1, <3>2
  <2>. QED
    BY <2>1, <2>2, EntryFacts
<1>4. /\ Len(ch) \in Nat /\ DOMAIN ch = 1..Len(ch)
      /\ \A n \in DOMAIN ch : ch[n].status = "IN PROCESS"
      /\ \A k \in DOMAIN req : ~InPlace(req[k], p) =>
           \E n \in DOMAIN ch : ProcessLot(req, k, p) = nl + n /\ ch[n] = ChildRowOf(req[k])
  <2>1. /\ Len(ch) \in Nat /\ DOMAIN ch = 1..Len(ch)
        /\ \A n \in DOMAIN ch : ch[n].outputs = 0 /\ ch[n].status = "IN PROCESS"
        /\ \A k \in DOMAIN req : ~InPlace(req[k], p) =>
             \E n \in DOMAIN ch :
                 /\ ProcessLot(req, k, p) = Len(lots) + n
                 /\ ch[n] = ChildRowOf(req[k])
                 /\ k = 1 => n = 1
                 /\ k = 2 /\ ~InPlace(req[1], p) => n = 2
    BY ChildrenAt
  <2>. HIDE DEF ch
  <2>. QED
    BY <2>1
<1>5. /\ Len(inserted) \in Nat /\ DOMAIN inserted = 1..Len(inserted)
      /\ \A n \in DOMAIN ch : n \in DOMAIN inserted /\ inserted[n] = ch[n]
      /\ \A n \in DOMAIN inserted :
            inserted[n].status = "IN PROCESS" \/ inserted[n].kind = "growth_run"
  <2>. HIDE DEF ch
  <2>1. Len(extra) \in Nat /\ DOMAIN extra = 1..Len(extra)
        /\ \A n \in DOMAIN extra : extra[n].kind = "growth_run"
    BY <1>2
  <2>2. /\ Len(ch) \in Nat /\ DOMAIN ch = 1..Len(ch)
        /\ \A n \in DOMAIN ch : ch[n].status = "IN PROCESS"
    BY <1>4
  <2>3. /\ Len(inserted) = Len(ch) + Len(extra) /\ DOMAIN inserted = 1..Len(ch) + Len(extra)
        /\ \A n \in DOMAIN ch : n \in DOMAIN inserted /\ inserted[n] = ch[n]
        /\ \A n \in DOMAIN inserted :
              \/ n \in DOMAIN ch
              \/ n - Len(ch) \in DOMAIN extra /\ inserted[n] = extra[n - Len(ch)]
    BY <2>1, <2>2, TwoParts
  <2>. DEFINE Away(row) == row.status = "IN PROCESS" \/ row.kind = "growth_run"
  <2>4. (\A n \in DOMAIN ch : Away(ch[n])) /\ \A n \in DOMAIN extra : Away(extra[n])
    BY <2>1, <2>2
  <2>. HIDE DEF inserted, Away
  <2>5. \A n \in DOMAIN inserted : Away(inserted[n])
    BY <2>3, <2>4
  <2>6. Len(inserted) \in Nat /\ DOMAIN inserted = 1..Len(inserted)
    <3>0. Len(ch) \in Nat /\ Len(extra) \in Nat
      BY <2>1, <2>2, Zenon
    <3>1. Len(ch) + Len(extra) \in Nat
      BY ONLY <3>0
    <3>. QED
      BY ONLY <2>3, <3>1, Zenon
  <2>. QED
    BY <2>3, <2>5, <2>6 DEF Away
<1>6. /\ \A l \in DOMAIN lots : l \in DOMAIN lots' /\ lots'[l] = AfterIssue(req, p, l)
      /\ \A n \in DOMAIN inserted : nl + n \in DOMAIN lots' \ DOMAIN lots /\ lots'[nl + n] = inserted[n]
      /\ \A l \in DOMAIN lots' \ DOMAIN lots :
            l - nl \in DOMAIN inserted /\ lots'[l] = inserted[l - nl]
      /\ DOMAIN lots' = 1..nl + Len(inserted)
  <2>1. /\ source \in [1..nl -> {AfterIssue(req, p, l) : l \in DOMAIN lots}]
        /\ \A l \in DOMAIN lots : source[l] = AfterIssue(req, p, l)
    BY <1>1
  <2>. HIDE DEF inserted, ch, source
  <2>2. /\ \A l \in 1..nl : l \in DOMAIN lots' /\ lots'[l] = source[l]
        /\ \A n \in DOMAIN inserted : nl + n \in DOMAIN lots' \ (1..nl) /\ lots'[nl + n] = inserted[n]
        /\ \A l \in DOMAIN lots' \ (1..nl) : l - nl \in DOMAIN inserted /\ lots'[l] = inserted[l - nl]
    <3>1. nl \in Nat /\ lots' = source \o inserted
      BY <1>1, <1>2
    <3>2. Len(inserted) \in Nat /\ DOMAIN inserted = 1..Len(inserted)
      BY <1>5
    <3>. QED
      BY ONLY <2>1, <3>1, <3>2, RowsInserted
  <2>3. DOMAIN lots' = 1..nl + Len(inserted)
    <3>1. Len(source) = nl
      BY <1>1, <2>1, RewriteRows
    <3>2. DOMAIN (source \o inserted) = 1..(Len(source) + Len(inserted))
      OBVIOUS
    <3>3. lots' = source \o inserted
      BY <1>2
    <3>. QED
      BY ONLY <3>1, <3>2, <3>3
  <2>. QED
    BY <1>1, <2>1, <2>2, <2>3
<1>7. ASSUME NEW l \in DOMAIN lots
      PROVE  /\ l \in DOMAIN lots' /\ lots'[l].kind = lots[l].kind
             /\ lots[l].status # "IN STOCK" => lots'[l] = lots[l]
             /\ (\A k \in DOMAIN req : req[k].lot # l) => AtHand(l)' = AtHand(l)
             /\ \A k \in DOMAIN req :
                   req[k].lot = l => AtHand(l)' = AtHand(l) - SeedsOf(req[k])
  <2>1. lots'[l] = AfterIssue(req, p, l) /\ l \in DOMAIN lots'
    BY <1>6
  <2>2. lots'[l].kind = lots[l].kind /\ (lots[l].status # "IN STOCK" => lots'[l] = lots[l])
    <3>1. (\A j, k \in DOMAIN req : req[j].lot = req[k].lot => j = k)
          /\ \A k \in DOMAIN req : Issuable(req[k])
      BY <1>2
    <3>2. /\ AfterIssue(req, p, l).kind = lots[l].kind
          /\ lots[l].status # "IN STOCK" => AfterIssue(req, p, l) = lots[l]
      BY <3>1, SourceFields
    <3>. QED
      BY <2>1, <3>2
  <2>3. ASSUME \A k \in DOMAIN req : req[k].lot # l
        PROVE  AtHand(l)' = AtHand(l)
    <3>1. lots'[l] = lots[l]
      BY <1>2, <2>1, <2>3, AfterIssueRow
    <3>. QED
      BY <3>1 DEF AtHand, Seed
  <2>4. ASSUME NEW k \in DOMAIN req, req[k].lot = l
        PROVE  AtHand(l)' = AtHand(l) - SeedsOf(req[k])
    <3>1. lots'[l] = WriteSource(lots[l], req[k], p)
      BY <1>2, <2>1, <2>4, AfterIssueRow
    <3>2. PICK e \in Entries : e = req[k] /\ e.lot = l /\ Issuable(e)
      BY <1>2, <1>3, <2>4
    <3>3. PICK row : row = lots'[l]
      OBVIOUS
    <3>4. row = WriteSource(lots[e.lot], e, p)
      BY ONLY <3>1, <3>2, <3>3, Zenon
    <3>5. (IF row.kind = "seed" /\ row.status = "IN STOCK" THEN row.qty ELSE 0)
             = AtHand(e.lot) - SeedsOf(e)
      <4>1. TablesOK /\ e \in Entries /\ Issuable(e)
        BY <3>2
      <4>. QED
        BY ONLY <4>1, <3>4, TakenFrom, Zenon
    <3>6. AtHand(l)' = IF row.kind = "seed" /\ row.status = "IN STOCK" THEN row.qty ELSE 0
      BY <3>3 DEF AtHand, Seed
    <3>. QED
      BY <3>2, <3>5, <3>6
  <2>. QED
    BY <2>1, <2>2, <2>3, <2>4
<1>8. \A l \in DOMAIN lots' \ DOMAIN lots : AtHand(l)' = 0
  <2>. HIDE DEF inserted
  <2>. QED
    BY <1>5, <1>6 DEF AtHand, Seed
<1>9. /\ DOMAIN issues' = 1..ni + Len(req)
      /\ \A i \in DOMAIN issues : issues'[i] = issues[i]
      /\ \A k \in DOMAIN req : issues'[ni + k] = NewIssue(req, k, p)
  <2>1. \A k \in DOMAIN req : more[k] = NewIssue(req, k, p)
    OBVIOUS
  <2>2. more \in [1..Len(req) -> {more[k] : k \in DOMAIN req}] /\ Len(req) \in Nat
    BY <1>3
  <2>3. issues \in [1..ni -> {issues[i] : i \in DOMAIN issues}]
    BY <1>1 DEF TablesOK
  <2>. HIDE DEF more
  <2>4. Len(more) = Len(req) /\ DOMAIN more = 1..Len(req)
    BY <2>2, RewriteRows
  <2>5. /\ \A i \in 1..ni : issues'[i] = issues[i]
        /\ \A k \in DOMAIN more : issues'[ni + k] = more[k]
    <3>1. ni \in Nat /\ issues' = issues \o more
      BY <1>1, <1>2
    <3>2. Len(more) \in Nat /\ DOMAIN more = 1..Len(more)
      BY <2>2, <2>4
    <3>. QED
      BY ONLY <2>3, <3>1, <3>2, RowsInserted
  <2>6. DOMAIN issues' = 1..(ni + Len(req))
    <3>1. DOMAIN (issues \o more) = 1..(Len(issues) + Len(more))
      OBVIOUS
    <3>2. issues' = issues \o more
      BY <1>2
    <3>. QED
      BY ONLY <2>4, <3>1, <3>2, ni = Len(issues)
  <2>. QED
    BY <1>1, <1>3, <2>1, <2>4, <2>5, <2>6
<1>10. ASSUME NEW k \in DOMAIN req
       PROVE  LET is == issues'[ni + k] IN
              /\ is.status = "OPEN" /\ is.remaining = req[k].qty
              /\ lots'[is.lot].kind = lots[req[k].lot].kind
              /\ lots'[is.lot].status = "IN PROCESS"
  <2>1. PICK is, x : is = issues'[ni + k] /\ x = ProcessLot(req, k, p)
    OBVIOUS
  <2>2. is.status = "OPEN" /\ is.remaining = req[k].qty /\ is.lot = x
    <3>1. is = NewIssue(req, k, p)
      BY <1>9, <2>1
    <3>. QED
      BY ONLY <2>1, <3>1 DEF NewIssue
  <2>3. lots'[x].kind = lots[req[k].lot].kind /\ lots'[x].status = "IN PROCESS"
    <3>1. CASE InPlace(req[k], p)
      <4>1. x = req[k].lot /\ x \in DOMAIN lots
        BY <1>3, <2>1, <3>1 DEF ProcessLot
      <4>2. AfterIssue(req, p, x) = WriteSource(lots[x], req[k], p)
        BY <1>2, <4>1, AfterIssueRow
      <4>3. /\ WriteSource(lots[x], req[k], p).kind = lots[x].kind
            /\ WriteSource(lots[x], req[k], p).status = "IN PROCESS"
        <5>1. lots[x] \in Lot
          BY <1>1, <4>1
        <5>2. PICK e : e = req[k] /\ InPlace(e, p)
          BY <3>1
        <5>3. /\ WriteSource(lots[x], e, p).kind = lots[x].kind
              /\ WriteSource(lots[x], e, p).status = "IN PROCESS"
          BY ONLY <5>1, <5>2 DEF WriteSource, Lot
        <5>. QED
          BY <5>2, <5>3
      <4>. QED
        BY <1>6, <4>1, <4>2, <4>3
    <3>2. CASE ~InPlace(req[k], p)
      <4>1. PICK n \in DOMAIN ch : x = nl + n /\ ch[n] = ChildRowOf(req[k])
        BY <1>4, <2>1, <3>2
      <4>. HIDE DEF ch, inserted
      <4>2. lots'[x] = ChildRowOf(req[k])
        BY <1>5, <1>6, <4>1
      <4>. QED
        BY <4>2, ChildFields
    <3>. QED
      BY <3>1, <3>2
  <2>. QED
    BY <2>1, <2>2, <2>3
<1>11. \E m \in Nat : DOMAIN lots' = 1..nl + m
  BY <1>5, <1>6
<1>. HIDE DEF inserted, ch, more, source
<1>. QED
  BY ONLY <1>7, <1>8, <1>9, <1>10, <1>11 DEF EnteredRows

(* The pieces move from stock into the process.                            *)
TakenIn(n) ==
    /\ InStock' = InStock - n
    /\ InProcess' = InProcess + n
    /\ scrapped' = scrapped

LEMMA EnteringFlow ==
    ASSUME FlowInv, IInv', NEW req \in Requests, NEW p, NEW extra, Entering(req, p, extra)
    PROVE  FlowInv' /\ \E n \in Nat : TakenIn(n)
<1>1. PICK nl, ni, c : nl = Len(lots) /\ ni = Len(issues) /\ c = Len(req)
  OBVIOUS
<1>2. /\ nl \in Nat /\ DOMAIN lots = 1..nl /\ ni \in Nat /\ DOMAIN issues = 1..ni
      /\ \A x \in 1..nl : AtHand(x) \in Nat
      /\ \A j \in 1..ni : Inside(j) \in Nat
      /\ InStock \in Nat /\ InProcess \in Nat
      /\ InStock = SumFunctionOnSet([x \in DOMAIN lots |-> AtHand(x)], 1..nl)
      /\ InProcess = SumFunctionOnSet([j \in DOMAIN issues |-> Inside(j)], 1..ni)
  BY <1>1, PiecesNat DEF FlowInv, IInv, PiecesOK
<1>3. EnteredRows(req, p, nl, ni)
  BY <1>1, Entered DEF FlowInv, IInv
<1>4. /\ c \in {1, 2} /\ DOMAIN req = 1..c
      /\ \A k \in 1..c : req[k].lot \in 1..nl /\ req[k].qty \in Nat
      /\ \A j, k \in 1..c : req[j].lot = req[k].lot => j = k
  <2>1. /\ Len(req) \in {1, 2} /\ DOMAIN req = 1..Len(req)
        /\ req[1] \in Entries
        /\ Len(req) = 2 => req[2] \in Entries
    BY RequestFacts DEF FlowInv, IInv
  <2>2. \A k \in 1..c : k = 1 \/ (k = 2 /\ c = 2)
    BY <1>1, <2>1
  <2>3. \A k \in 1..c : req[k] \in Entries
    BY <1>1, <2>1, <2>2
  <2>4. \A k \in 1..c : req[k].lot \in 1..nl /\ req[k].qty \in Nat
    BY <1>2, <2>3, EntryFacts DEF FlowInv, IInv
  <2>5. \A j, k \in DOMAIN req : req[j].lot = req[k].lot => j = k
    BY DEF Entering
  <2>. QED
    BY <1>1, <2>1, <2>4, <2>5
<1>5. PICK b : b = [k \in 1..c |-> SeedsOf(req[k])]
  OBVIOUS
<1>6. /\ DOMAIN b = 1..c
      /\ \A k \in 1..c : b[k] = SeedsOf(req[k]) /\ b[k] \in Nat
  BY <1>4, <1>5 DEF SeedsOf
<1>7. PICK n \in Nat : n = b[1] + (IF c = 2 THEN b[2] ELSE 0)
  <2>1. b[1] \in Nat /\ (c = 2 => b[2] \in Nat)
    BY <1>4, <1>6
  <2>. QED
    BY <2>1
<1>8. InStock' = InStock - n
  <2>1. PICK h : h = [x \in DOMAIN lots |-> AtHand(x)]
    OBVIOUS
  <2>2. PICK g : g = [x \in DOMAIN lots' |-> AtHand(x)']
    OBVIOUS
  <2>3. PICK at : at = [k \in 1..c |-> req[k].lot]
    OBVIOUS
  <2>4. PICK m \in Nat : DOMAIN lots' = 1..nl + m
    BY <1>3 DEF EnteredRows
  <2>5. InStock' = SumFunctionOnSet(g, 1..nl + m)
    BY <2>2, <2>4 DEF InStock, SumFunction
  <2>6. \A x \in 1..nl : h[x] = AtHand(x) /\ h[x] \in Int /\ x \in 1..nl + m /\ g[x] = AtHand(x)'
    <3>1. \A x \in 1..nl : h[x] = AtHand(x) /\ h[x] \in Int
      BY <1>2, <2>1
    <3>2. \A x \in 1..nl : x \in 1..nl + m
      BY <1>2
    <3>. QED
      BY <2>2, <2>4, <3>1, <3>2
  <2>a. \A k \in 1..c : at[k] = req[k].lot
    BY <2>3
  <2>7. \A k \in 1..c : at[k] \in 1..nl /\ b[k] \in Int /\ g[at[k]] = h[at[k]] - b[k]
    <3>1. ASSUME NEW k \in 1..c
          PROVE  at[k] \in 1..nl /\ b[k] \in Int /\ g[at[k]] = h[at[k]] - b[k]
      <4>1. PICK x : x = req[k].lot /\ x = at[k]
        BY <2>a
      <4>2. x \in DOMAIN lots /\ k \in DOMAIN req
        BY <1>2, <1>4, <4>1
      <4>3. AtHand(x)' = AtHand(x) - SeedsOf(req[k])
        <5>1. \A y \in DOMAIN lots : \A j \in DOMAIN req :
                 req[j].lot = y => AtHand(y)' = AtHand(y) - SeedsOf(req[j])
          BY <1>3 DEF EnteredRows
        <5>. QED
          BY ONLY <4>1, <4>2, <5>1
      <4>4. x \in 1..nl /\ b[k] \in Int /\ b[k] = SeedsOf(req[k])
        <5>1. x \in 1..nl
          BY <1>4, <4>1
        <5>2. b[k] = SeedsOf(req[k]) /\ b[k] \in Nat
          BY <1>6
        <5>. QED
          BY ONLY <5>1, <5>2
      <4>5. g[x] = h[x] - b[k]
        BY ONLY <2>6, <4>3, <4>4
      <4>. QED
        BY ONLY <4>1, <4>4, <4>5
    <3>. QED
      BY <3>1
  <2>8. \A j, k \in 1..c : at[j] = at[k] => j = k
    BY <1>4, <2>a
  <2>9. \A x \in 1..nl : (\A k \in 1..c : at[k] # x) => g[x] = h[x]
    <3>. SUFFICES ASSUME NEW x \in 1..nl, \A k \in 1..c : req[k].lot # x PROVE g[x] = h[x]
      BY <2>3
    <3>1. AtHand(x)' = AtHand(x)
      BY <1>2, <1>3, <1>4 DEF EnteredRows
    <3>. QED
      BY <2>6, <3>1
  <2>10. \A x \in 1..nl : g[x] \in Int
    <3>. SUFFICES ASSUME NEW x \in 1..nl PROVE g[x] \in Int
      OBVIOUS
    <3>1. CASE \A k \in 1..c : at[k] # x
      BY <2>6, <2>9, <3>1
    <3>2. CASE \E k \in 1..c : at[k] = x
      BY <2>6, <2>7, <3>2
    <3>. QED
      BY <3>1, <3>2
  <2>11. \A x \in (1..nl + m) \ (1..nl) : g[x] = 0
    <3>1. \A x \in DOMAIN lots' \ DOMAIN lots : AtHand(x)' = 0
      BY <1>3 DEF EnteredRows
    <3>. QED
      BY <1>2, <2>2, <2>4, <3>1
  <2>12. SumFunctionOnSet(g, 1..nl + m) = SumFunctionOnSet(g, 1..nl)
    BY ONLY <1>2, <2>10, <2>11, SumPadded
  <2>13. SumFunctionOnSet(g, 1..nl) = SumFunctionOnSet(h, 1..nl) - n
    <3>1. nl \in Nat /\ c \in {1, 2} /\ \A x \in 1..nl : h[x] \in Int /\ g[x] \in Int
      BY <1>2, <1>4, <2>6, <2>10
    <3>2. Takes(nl, h, g, at, b, c)
      BY <2>7, <2>8, <2>9, <3>1, Zenon DEF Takes
    <3>. QED
      <4>1. nl \in Nat /\ n = b[1] + (IF c = 2 THEN b[2] ELSE 0)
        BY <1>2, <1>7
      <4>. QED
        BY ONLY <3>2, <4>1, SumTaken
  <2>. QED
    BY <1>2, <2>1, <2>5, <2>12, <2>13
<1>9. InProcess' = InProcess + n
  <2>1. PICK h : h = [j \in DOMAIN issues |-> Inside(j)]
    OBVIOUS
  <2>2. PICK g : g = [j \in DOMAIN issues' |-> Inside(j)']
    OBVIOUS
  <2>3. DOMAIN issues' = 1..ni + c
    BY <1>1, <1>3 DEF EnteredRows
  <2>4. InProcess' = SumFunctionOnSet(g, 1..ni + c)
    BY <2>2, <2>3 DEF InProcess, SumFunction
  <2>5. \A j \in 1..ni : h[j] \in Int /\ g[j] = h[j]
    <3>. SUFFICES ASSUME NEW j \in 1..ni PROVE h[j] \in Int /\ g[j] = h[j]
      OBVIOUS
    <3>1. j \in DOMAIN issues /\ j \in DOMAIN issues'
      BY <1>2, <1>4, <2>3
    <3>2. issues'[j] = issues[j] /\ issues[j].lot \in DOMAIN lots
      BY <1>3, <3>1, IssueFields DEF EnteredRows, FlowInv, IInv
    <3>3. lots'[issues[j].lot].kind = lots[issues[j].lot].kind
      BY <1>3, <3>2 DEF EnteredRows
    <3>4. Inside(j)' = Inside(j)
      BY <3>2, <3>3 DEF Inside, Seed
    <3>. QED
      BY <1>2, <2>1, <2>2, <3>1, <3>4
  <2>6. \A k \in 1..c : b[k] \in Int /\ g[ni + k] = b[k]
    <3>. SUFFICES ASSUME NEW k \in 1..c, NEW i, i = ni + k
                  PROVE  b[k] \in Int /\ g[i] = b[k]
      OBVIOUS
    <3>1. i \in DOMAIN issues'
      BY <1>2, <1>4, <2>3
    <3>2. /\ issues'[i].status = "OPEN" /\ issues'[i].remaining = req[k].qty
          /\ lots'[issues'[i].lot].kind = lots[req[k].lot].kind
      BY <1>3, <1>4 DEF EnteredRows
    <3>3. Inside(i)' = SeedsOf(req[k])
      BY <3>2 DEF Inside, SeedsOf, Seed
    <3>. QED
      BY <1>6, <2>2, <3>1, <3>3
  <2>7. SumFunctionOnSet(g, 1..ni + c) = SumFunctionOnSet(h, 1..ni) + SumFunctionOnSet(b, 1..c)
    <3>1. ni \in Nat /\ c \in Nat
      BY <1>2, <1>4
    <3>. QED
      BY ONLY <3>1, <2>5, <2>6, SumGrow
  <2>8. SumFunctionOnSet(b, 1..c) = n
    <3>1. CASE c = 1
      <4>1. DOMAIN b = 1..1 /\ b[1] \in Int /\ n = b[1]
        BY <1>6, <1>7, <3>1
      <4>2. SumFunctionOnSet(b, 1..1) = b[1]
        BY <4>1, SumShort
      <4>. QED
        BY <3>1, <4>1, <4>2
    <3>2. CASE c = 2
      <4>1. DOMAIN b = 1..2 /\ b[1] \in Int /\ b[2] \in Int /\ n = b[1] + b[2]
        BY <1>6, <1>7, <3>2
      <4>2. SumFunctionOnSet(b, 1..2) = b[1] + b[2]
        BY <4>1, SumShort
      <4>. QED
        BY <3>2, <4>1, <4>2
    <3>. QED
      BY <1>4, <3>1, <3>2
  <2>. QED
    BY <1>2, <2>1, <2>4, <2>7, <2>8
<1>10. UNCHANGED <<scrapped, sess>>
  BY DEF Entering
<1>11. SeedsOut'
  <2>. SUFFICES ASSUME NEW i \in DOMAIN issues', NEW x, x = issues'[i].lot,
                       issues'[i].status = "OPEN", lots'[x].kind = "seed"
                PROVE  lots'[x].status # "IN STOCK"
    BY DEF SeedsOut, Seed
  <2>1. CASE i \in DOMAIN issues
    <3>1. issues'[i] = issues[i] /\ x \in DOMAIN lots
      BY <1>3, <2>1, IssueFields DEF EnteredRows, FlowInv, IInv
    <3>2. lots[x].kind = "seed" /\ lots[x].status # "IN STOCK"
      <4>1. lots'[x].kind = lots[x].kind
        BY <1>3, <3>1 DEF EnteredRows
      <4>. QED
        BY <2>1, <3>1, <4>1 DEF FlowInv, SeedsOut, Seed
    <3>3. lots'[x] = lots[x]
      BY <1>3, <3>1, <3>2 DEF EnteredRows
    <3>. QED
      BY <3>2, <3>3
  <2>2. CASE i \notin DOMAIN issues
    <3>1. PICK k \in 1..c : i = ni + k
      <4>1. i \in 1..ni + c /\ i \notin 1..ni
        BY <1>1, <1>2, <1>3, <2>2 DEF EnteredRows
      <4>2. i - ni \in 1..c /\ i = ni + (i - ni)
        BY <1>2, <1>4, <4>1
      <4>. QED
        BY <4>2
    <3>2. lots'[issues'[ni + k].lot].status = "IN PROCESS"
      BY <1>3, <1>4 DEF EnteredRows
    <3>. QED
      BY <3>1, <3>2
  <2>. QED
    BY <2>1, <2>2
<1>12. CutsBiscuit'
  <2>1. KindsStay
    BY <1>3 DEF KindsStay, EnteredRows
  <2>2. \A t \in Sessions : CutsOnly(t)
    BY <1>10 DEF CutsOnly
  <2>. QED
    BY <2>1, <2>2, CutKeeps
<1>13. InStock' + InProcess' + scrapped' = Purchased * MaxQty
  <2>1. PICK all : all = Purchased * MaxQty
    OBVIOUS
  <2>2. InStock + InProcess + scrapped = all /\ scrapped \in Nat
    BY <2>1 DEF FlowInv, IInv, TablesOK
  <2>3. PICK u \in Nat, v \in Nat, w \in Nat : u = InStock /\ v = InProcess /\ w = scrapped
    BY <1>2, <2>2
  <2>4. u + v + w = all
    BY <2>2, <2>3
  <2>5. (u - n) + (v + n) + w = u + v + w
    OBVIOUS
  <2>6. InStock' = u - n /\ InProcess' = v + n /\ scrapped' = w
    BY <1>8, <1>9, <1>10, <2>3
  <2>. QED
    BY ONLY <2>1, <2>4, <2>5, <2>6
<1>14. FlowInv'
  BY <1>11, <1>12, <1>13 DEF FlowInv
<1>15. TakenIn(n)
  BY <1>8, <1>9, <1>10 DEF TakenIn
<1>. QED
  BY <1>14, <1>15

LEMMA InitFlow == Init => FlowInv /\ InStock = Purchased * MaxQty /\ InProcess = 0 /\ scrapped = 0
<1>. SUFFICES ASSUME Init
              PROVE  FlowInv /\ InStock = Purchased * MaxQty /\ InProcess = 0 /\ scrapped = 0
  OBVIOUS
<1>1. /\ lots = [l \in 1..Purchased |-> SeedLot] /\ issues = <<>> /\ scrapped = 0
      /\ \A s \in Sessions : sess[s] = Idle
  BY DEF Init
<1>2. InStock = Purchased * MaxQty
  <2>1. PICK h : h = [l \in DOMAIN lots |-> AtHand(l)]
    OBVIOUS
  <2>2. DOMAIN h = 1..Purchased /\ \A l \in 1..Purchased : h[l] = MaxQty
    <3>1. \A l \in 1..Purchased : lots[l] = SeedLot
      BY <1>1
    <3>2. \A l \in 1..Purchased : AtHand(l) = MaxQty
      <4>1. SeedLot.kind = "seed" /\ SeedLot.status = "IN STOCK" /\ SeedLot.qty = MaxQty
        BY DEF SeedLot
      <4>. QED
        BY ONLY <3>1, <4>1 DEF AtHand, Seed
    <3>. QED
      BY <1>1, <2>1, <3>2
  <2>3. InStock = SumFunctionOnSet(h, 1..Purchased)
    BY <2>1, <2>2 DEF InStock, SumFunction
  <2>4. Purchased \in Nat /\ MaxQty \in Nat
    BY ShopFloorAssumption
  <2>5. SumFunctionOnSet(h, 1..Purchased) = Purchased * MaxQty
    BY ONLY <2>2, <2>4, SumEqual
  <2>. QED
    BY <2>3, <2>5
<1>3. InProcess = 0
  <2>1. PICK f : f = [i \in DOMAIN issues |-> Inside(i)]
    OBVIOUS
  <2>2. DOMAIN f = {}
    BY <1>1, <2>1
  <2>3. InProcess = SumFunctionOnSet(f, {})
    BY <2>1, <2>2 DEF InProcess, SumFunction
  <2>. QED
    BY <2>3, SumEmpty
<1>4. SeedsOut /\ CutsBiscuit
  BY <1>1 DEF SeedsOut, CutsBiscuit, Idle
<1>5. InStock + InProcess + scrapped = Purchased * MaxQty
  <2>1. PICK all \in Nat : all = Purchased * MaxQty
    <3>1. Purchased \in Nat /\ MaxQty \in Nat
      BY ShopFloorAssumption
    <3>2. Purchased * MaxQty \in Nat
      BY ONLY <3>1
    <3>. QED
      BY <3>2
  <2>. QED
    BY <1>1, <1>2, <1>3, <2>1
<1>. QED
  BY <1>1, <1>2, <1>3, <1>4, <1>5, InitOK DEF FlowInv

(* Every step moves the pieces of an issue, those of a return, or none.    *)
Moved ==
    \/ \E n \in Nat : TakenIn(n)
    \/ \E u, d \in Nat : BroughtBack(u, d)
    \/ InStock' = InStock /\ InProcess' = InProcess /\ scrapped' = scrapped

LEMMA NextFlow ==
    ASSUME PickerOnly, FlowInv, [Next]_vars
    PROVE  FlowInv' /\ Moved
<1>1. IInv'
  BY NextOK DEF FlowInv
<1>2. ASSUME UNCHANGED <<lots, issues, scrapped, sess>>
      PROVE  FlowInv' /\ Moved
  <2>1. KindsStay /\ SeedsStay /\ \A t \in Sessions : CutsOnly(t)
    BY <1>2 DEF KindsStay, SeedsStay, CutsOnly
  <2>2. FlowInv' /\ InStock' = InStock /\ InProcess' = InProcess
    BY <1>1, <1>2, <2>1, QuietFlow
  <2>. QED
    BY <1>2, <2>2 DEF Moved
<1>3. ASSUME NEW m \in Machines, NEW t \in Types, NEW req \in Requests, IssueToMachine(m, t, req)
      PROVE  FlowInv' /\ Moved
  BY <1>1, <1>3, MachineEnters, EnteringFlow DEF Moved
<1>4. ASSUME NEW e \in Entries, HandIssue(e)
      PROVE  FlowInv' /\ Moved
  <2>1. Entering(<<e>>, 0, <<>>) /\ <<e>> \in Requests
    BY <1>4, HandEnters DEF FlowInv, IInv, Requests
  <2>. QED
    BY <1>1, <2>1, EnteringFlow DEF Moved
<1>5. ASSUME NEW s \in Sessions, FinishReturn(s)
      PROVE  FlowInv' /\ Moved
  BY <1>1, <1>5, ReturnFlow DEF Moved
<1>6. ASSUME NEW s \in Sessions,
           \/ \E i \in DOMAIN issues, ls \in LinesUsed : BeginReturn(s, i, ls)
           \/ \E m \in Machines, t \in Types : \E ls \in SUBSET DOMAIN lots : BeginStart(s, m, t, ls)
           \/ \E p \in DOMAIN procs :
                 BeginHold(s, p) \/ BeginResume(s, p) \/ BeginComplete(s, p) \/ BeginOutput(s, p)
           \/ FinishStart(s) \/ FinishHoldResume(s) \/ FinishComplete(s) \/ FinishOutput(s)
           \/ Rollback(s)
      PROVE  FlowInv' /\ Moved
  <2>1. FlowInv' /\ scrapped' = scrapped /\ InStock' = InStock /\ InProcess' = InProcess
    BY <1>1, <1>6, QuietStepsFlow
  <2>. QED
    BY <2>1 DEF Moved
<1>7. ASSUME NEW m \in Machines, NEW st \in PanelStatuses, SetMachineStatus(m, st)
      PROVE  FlowInv' /\ Moved
  BY <1>2, <1>7 DEF SetMachineStatus
<1>8. ASSUME NEW b \in DOMAIN lots, PostOutput(b)
      PROVE  FlowInv' /\ Moved
  <2>1. lots[b].kind = "growth_run" /\ RoughOutput(b, lots[b].proc) /\ UNCHANGED sess
    BY <1>8 DEF PostOutput
  <2>2. KindsStay /\ SeedsStay /\ \A t \in Sessions : CutsOnly(t)
    BY <2>1, CuttingFlow DEF CutsOnly
  <2>3. UNCHANGED <<issues, scrapped>>
    BY <2>1 DEF RoughOutput
  <2>4. FlowInv' /\ InStock' = InStock /\ InProcess' = InProcess
    BY <1>1, <2>1, <2>2, <2>3, QuietFlow
  <2>. QED
    BY <2>3, <2>4 DEF Moved
<1>9. CASE Next
  BY ONLY <1>3, <1>4, <1>5, <1>6, <1>7, <1>8, <1>9 DEF Next
<1>10. CASE UNCHANGED vars
  BY <1>2, <1>10 DEF vars
<1>. QED
  BY <1>9, <1>10

(* Nothing is lost and nothing appears: pieces only move between stock,    *)
(* the processes and what was settled, as an issue or a return moves them. *)
LEMMA CustodyStep ==
    ASSUME PickerOnly, FlowInv, [Next]_vars
    PROVE  [Material!Next]_(Material!vars)
<1>1. FlowInv' /\ Moved
  BY NextFlow
<1>2. PICK all, a, b, c, x, y, z :
          /\ all = Purchased * MaxQty
          /\ a = InStock /\ b = InProcess /\ c = scrapped
          /\ x = InStock' /\ y = InProcess' /\ z = scrapped'
  OBVIOUS
<1>3. a \in Nat /\ b \in Nat /\ c \in Nat /\ a + b + c = all
  <2>1. InStock \in Nat /\ InProcess \in Nat /\ scrapped \in Nat
    BY PiecesNat DEF FlowInv, IInv, TablesOK, PiecesOK
  <2>. QED
    BY <1>2, <2>1 DEF FlowInv
<1>4. x \in Nat /\ y \in Nat /\ z \in Nat
  <2>1. PiecesOK'
    BY <1>1, PiecesNatNext DEF FlowInv, IInv
  <2>2. InStock' \in Nat /\ InProcess' \in Nat
    BY <2>1 DEF PiecesOK
  <2>3. scrapped' \in Nat
    BY <1>1 DEF FlowInv, IInv, TablesOK
  <2>. QED
    BY <1>2, <2>2, <2>3
<1>5. CASE \E n \in Nat : TakenIn(n)
  <2>1. PICK n \in Nat : x = a - n /\ y = b + n /\ z = c
    BY <1>2, <1>5 DEF TakenIn
  <2>2. CASE n = 0
    <3>1. x = a /\ y = b /\ z = c
      BY <1>3, <2>1, <2>2
    <3>. QED
      BY <1>2, <3>1 DEF Material!vars
  <2>3. CASE n # 0
    <3>1. n \in 1..a /\ n \in 1..all
      BY ONLY n \in Nat, <1>3, <1>4, <2>1, <2>3
    <3>2. Material!Issue(n)
      BY <1>2, <2>1, <3>1 DEF Material!Issue
    <3>. QED
      BY <1>2, <3>1, <3>2 DEF Material!Next
  <2>. QED
    BY <2>2, <2>3
<1>6. CASE \E u, d \in Nat : BroughtBack(u, d)
  <2>1. PICK u \in Nat, d \in Nat : x = a + u /\ y = b - (u + d) /\ z = c + d
    BY <1>2, <1>6 DEF BroughtBack
  <2>2. CASE u + d = 0
    <3>1. x = a /\ y = b /\ z = c
      BY <1>3, <2>1, <2>2
    <3>. QED
      BY <1>2, <3>1 DEF Material!vars
  <2>3. CASE u + d # 0
    <3>1. u + d \in 1..b /\ u \in 0..all /\ d \in 0..all
      BY ONLY u \in Nat, d \in Nat, <1>3, <1>4, <2>1, <2>3
    <3>2. Material!Return(u, d)
      BY <1>2, <2>1, <3>1 DEF Material!Return
    <3>. QED
      BY <1>2, <3>1, <3>2 DEF Material!Next
  <2>. QED
    BY <2>2, <2>3
<1>7. CASE InStock' = InStock /\ InProcess' = InProcess /\ scrapped' = scrapped
  BY <1>7 DEF Material!vars
<1>. QED
  BY <1>1, <1>5, <1>6, <1>7 DEF Moved

(* The shop floor implements Custody, whatever is split, issued, returned  *)
(* in rounds, held, completed or cut, and however many requests do it at   *)
(* once, when a request names each lot once, as the picker's does.         *)
THEOREM MaterialFlows ==
    ASSUME PickerOnly
    PROVE  Spec => MaterialFlow
<1>1. Init => FlowInv /\ Material!Init
  BY InitFlow DEF Material!Init
<1>2. FlowInv /\ [Next]_vars => FlowInv' /\ [Material!Next]_(Material!vars)
  BY NextFlow, CustodyStep
<1>. QED
  BY <1>1, <1>2, PTL DEF Spec, MaterialFlow, Material!Spec

=============================================================================
