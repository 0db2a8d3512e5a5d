------------------------------ MODULE ShopFloor ------------------------------
(***************************************************************************)
(* The shop floor of the ERP: lots issued to machine processes, returned   *)
(* from them, and the growth runs ("biscuits") that growth processes make. *)
(* Every HTTP handler below runs in one READ COMMITTED transaction.  Its   *)
(* writes appear at COMMIT, so a handler that locks every row it reads is  *)
(* one action; a handler that reads a row it did not lock, and acts on     *)
(* that read later, is a Begin action (the reads, remembered in sess[s])   *)
(* and a Finish action (the writes and the COMMIT).                        *)
(*                                                                         *)
(* A table is the sequence of its rows, in the order of their ids; 0 is a  *)
(* NULL foreign key.  IN STOCK stands for IN STOCK and LOW STOCK, which    *)
(* every handler treats alike, and a lot's quantity for its qty or, when   *)
(* its unit is CT, its weight.                                             *)
(***************************************************************************)
EXTENDS Naturals, Sequences, FiniteSets

CONSTANTS
    Machines,       \* machines.id
    Sessions,       \* requests in flight at the same time
    Types,          \* the process types enabled in process_master
    Ops,            \* the handlers the users call
    Purchased,      \* how many seed lots are in stock at the start
    MaxQty,         \* bound: pieces in a purchased lot
    MaxLots, MaxIssues, MaxProcs, \* bounds: rows the tables may hold
    Dispositions,   \* the return types in use
    PanelStatuses,  \* machine statuses set by hand
    PickerOnly      \* TRUE: a request names a lot once, as the client's picker does

AllOps == {"issue", "hand_issue", "return", "start", "hold", "resume",
           "complete", "complete_growth", "set_status", "output", "output_by_process"}

ASSUME ShopFloorAssumption ==
    /\ Types \subseteq {"growth", "edge_cut", "polishing"}
    /\ Ops \subseteq AllOps
    /\ Purchased \in Nat /\ MaxQty \in Nat \ {0}
    /\ MaxLots \in Nat /\ MaxIssues \in Nat /\ MaxProcs \in Nat
    /\ Dispositions \subseteq {"usable", "damaged", "consumed"}
    /\ PanelStatuses \subseteq {"idle", "running", "hold", "maintenance",
                                "breakdown", "completed", "cleaning", "awaiting_output"}
    /\ PickerOnly \in BOOLEAN

VARIABLES
    lots,      \* inventory
    issues,    \* lot_process_issues, with the sum of the issue's return lines
    procs,     \* machine_processes, with their machine_process_lots
    machines,  \* machines.status
    scrapped,  \* pieces in return lots that no handler below can take again
    sess       \* what each unfinished request has read so far

vars == <<lots, issues, procs, machines, scrapped, sess>>

LotStatuses  == {"IN STOCK", "IN PROCESS", "CONSUMED", "DAMAGED"}
ProcStatuses == {"running", "hold", "completed", "cancelled"}
MachineStatuses == {"idle", "running", "hold", "maintenance", "breakdown",
                    "completed", "cleaning", "awaiting_output"}

Lot   == [kind : {"seed", "growth_run"}, status : LotStatuses, qty : Nat,
          proc : Nat, outputs : Nat]
Issue == [source : Nat, lot : Nat, proc : Nat, issued : Nat, remaining : Nat,
          returned : Nat, status : {"OPEN", "RETURNED"}]
Proc  == [machine : Machines, type : Types, status : ProcStatuses, loaded : SUBSET Nat]
Lines == [{"usable", "damaged", "consumed"} -> 0..MaxQty]

Idle == [op |-> "idle"]
Session == {Idle}
    \cup [op : {"return"}, issue : Nat, lines : Lines, remaining : Nat, last : BOOLEAN]
    \cup [op : {"start"}, machine : Machines, type : Types, loaded : SUBSET Nat]
    \cup [op : {"hold", "resume"}, proc : Nat]
    \cup [op : {"complete", "output_by_process"}, proc : Nat, biscuit : Nat]

(* process_master: which processes grow a biscuit, and when one completes. *)
IsGrowth(t)   == t = "growth"
OutputBased(t) == t \in {"growth", "polishing"}

(* The inventory status each return type leads to (reprocess and qc_hold   *)
(* lots are, like damaged ones, never issued again).                       *)
TypeStatus == [d \in {"usable", "damaged", "consumed"} |->
    CASE d = "usable"   -> "IN STOCK"
      [] d = "damaged"  -> "DAMAGED"
      [] d = "consumed" -> "CONSUMED"]

Active(p) == procs[p].status \in {"running", "hold"}

-----------------------------------------------------------------------------
(* Row locks.  Only a return keeps locks from one step to the next: its    *)
(* issue row and its process lot, both SELECTed FOR UPDATE.                *)

IssueLocked(i) == \E s \in Sessions : sess[s].op = "return" /\ sess[s].issue = i

LotLocked(l) ==
    \E s \in Sessions : sess[s].op = "return" /\ issues[sess[s].issue].lot = l

ReturnLocks_None(i) == TRUE
ReturnLocks(i) == ~IssueLocked(i) /\ ~LotLocked(issues[i].lot)

Begin(s, request) ==
    /\ sess[s] = Idle
    /\ sess' = [sess EXCEPT ![s] = request]

End(s) == sess' = [sess EXCEPT ![s] = Idle]

-----------------------------------------------------------------------------
(* POST /process-issues: lots issued to a process.                         *)

Entries  == [lot : DOMAIN lots, qty : 1..MaxQty]
Requests == {<<e>> : e \in Entries} \cup (Entries \X Entries)

Issuable_NotTerminal(e) ==
    /\ lots[e.lot].status \notin {"CONSUMED", "DAMAGED"}
    /\ e.qty <= lots[e.lot].qty
    /\ ~LotLocked(e.lot)

(* Every lot of a request is locked and validated before any is updated.   *)
Issuable(e) ==
    /\ lots[e.lot].status = "IN STOCK"
    /\ e.qty <= lots[e.lot].qty
    /\ ~LotLocked(e.lot)

(* A lot issued whole enters the process itself; so does a biscuit, except *)
(* on the route without a machine, whose process p is 0.                   *)
InPlace(e, p) ==
    e.qty = lots[e.lot].qty \/ (p # 0 /\ lots[e.lot].kind = "growth_run")

(* The rows a request inserts for an entry: none when the lot itself       *)
(* enters the process, the in-process child of a partial issue otherwise.  *)
ChildOf(e, p) ==
    IF InPlace(e, p) THEN <<>>
    ELSE <<[kind |-> lots[e.lot].kind, status |-> "IN PROCESS", qty |-> e.qty,
            proc |-> 0, outputs |-> 0]>>

Children(req, p) ==
    ChildOf(req[1], p) \o (IF Len(req) = 2 THEN ChildOf(req[2], p) ELSE <<>>)

ProcessLot(req, k, p) ==
    IF InPlace(req[k], p) THEN req[k].lot
    ELSE Len(lots) + 1 + (IF k = 2 THEN Len(ChildOf(req[1], p)) ELSE 0)

NewIssue(req, k, p) ==
    [source |-> req[k].lot, lot |-> ProcessLot(req, k, p), proc |-> p,
     issued |-> req[k].qty, remaining |-> req[k].qty, returned |-> 0,
     status |-> "OPEN"]

(* What the loop writes to the source row for entry e.  The new quantity   *)
(* comes from the row as it was read before the loop, so of two entries    *)
(* that name one lot the second overwrites what the first deducted.        *)
WriteSource(row, e, p) ==
    IF InPlace(e, p) THEN [row EXCEPT !.status = "IN PROCESS", !.proc = IF p = 0 THEN @ ELSE p]
    ELSE [row EXCEPT !.status = "IN STOCK", !.qty = lots[e.lot].qty - e.qty]

AfterEntry(row, l, e, p) == IF e.lot = l THEN WriteSource(row, e, p) ELSE row
AfterIssue(req, p, l) ==
    LET first == AfterEntry(lots[l], l, req[1], p)
    IN  IF Len(req) = 2 THEN AfterEntry(first, l, req[2], p) ELSE first

(* createGrowthRun: a growth process that holds no biscuit yet gets one.   *)
HoldsBiscuit(req) == \E k \in DOMAIN req : lots[req[k].lot].kind = "growth_run"
createGrowthRun(t, req, p) ==
    IF IsGrowth(t) /\ ~HoldsBiscuit(req)
    THEN <<[kind |-> "growth_run", status |-> "IN PROCESS",
            qty |-> req[1].qty + (IF Len(req) = 2 THEN req[2].qty ELSE 0),
            proc |-> p, outputs |-> 0]>>
    ELSE <<>>

IssueToMachine(m, t, req) ==
    LET p == Len(procs) + 1
        inserted == Children(req, p) \o createGrowthRun(t, req, p)
    IN  /\ "issue" \in Ops
        /\ \A k \in DOMAIN req : Issuable(req[k])
        /\ PickerOnly => \A j, k \in DOMAIN req : req[j].lot = req[k].lot => j = k
        /\ p <= MaxProcs
        /\ Len(issues) + Len(req) <= MaxIssues
        /\ Len(lots) + Len(inserted) <= MaxLots
        /\ procs' = Append(procs, [machine |-> m, type |-> t, status |-> "running",
                                   loaded |-> {ProcessLot(req, k, p) : k \in DOMAIN req}])
        /\ issues' = issues \o [k \in DOMAIN req |-> NewIssue(req, k, p)]
        /\ lots' = [l \in DOMAIN lots |-> AfterIssue(req, p, l)] \o inserted
        /\ machines' = [machines EXCEPT ![m] = "running"]
        /\ UNCHANGED <<scrapped, sess>>

(* The same route without a machine: one lot, at most one open issue of    *)
(* it, and no machine process.                                             *)
HandIssue(e) ==
    /\ "hand_issue" \in Ops
    /\ Issuable(e)
    /\ \A i \in DOMAIN issues : issues[i].source = e.lot => issues[i].status # "OPEN"
    /\ Len(issues) < MaxIssues
    /\ Len(lots) + Len(ChildOf(e, 0)) <= MaxLots
    /\ issues' = Append(issues, NewIssue(<<e>>, 1, 0))
    /\ lots' = [l \in DOMAIN lots |-> AfterIssue(<<e>>, 0, l)] \o ChildOf(e, 0)
    /\ UNCHANGED <<procs, machines, scrapped, sess>>

-----------------------------------------------------------------------------
(* POST /process-issues/:id/return                                         *)

Total(lines) == lines["usable"] + lines["damaged"] + lines["consumed"]
OneDisposition(lines) == \A c, d \in DOMAIN lines : lines[c] > 0 /\ lines[d] > 0 => c = d

(* sum(lines.qty) + remaining_after = the remaining quantity, where the    *)
(* client computes remaining_after and never sends a negative one.         *)
BalanceGate(i, lines) == Total(lines) \in 1..issues[i].remaining

(* The COUNT of the process's OPEN issues, after this one was updated to   *)
(* RETURNED in the same transaction: it sees committed rows only.          *)
NoOpenSibling_Any(i) == issues[i].proc # 0
NoOpenSibling(i) ==
    /\ issues[i].proc # 0
    /\ \A j \in DOMAIN issues \ {i} :
          issues[j].proc = issues[i].proc => issues[j].status # "OPEN"

(* The issue and its lot are locked, the balance checked, the children     *)
(* inserted and the siblings counted; nothing is visible to others yet.    *)
BeginReturn(s, i, lines) ==
    /\ "return" \in Ops
    /\ issues[i].status = "OPEN"
    /\ ReturnLocks(i)
    /\ BalanceGate(i, lines)
    /\ lots[issues[i].lot].kind = "growth_run" => OneDisposition(lines)
    /\ Begin(s, [op |-> "return", issue |-> i, lines |-> lines,
                 remaining |-> issues[i].remaining - Total(lines),
                 last |-> Total(lines) = issues[i].remaining /\ NoOpenSibling(i)])
    /\ UNCHANGED <<lots, issues, procs, machines, scrapped>>

advanceGrowthRunToStock(row, p) ==
    IF row.kind = "growth_run" /\ row.proc = p /\ row.status = "IN PROCESS"
    THEN [row EXCEPT !.status = "IN STOCK"] ELSE row

(* The process as the last return finds it, once it has locked its row.    *)
Closable_Running(p) == procs[p].status = "running"
Closable(p) == Active(p)

(* The process lot after a return r: consumed by the final one, unless it  *)
(* is a biscuit, which takes the status of its one return line.            *)
ReturnedRow(row, r) ==
    IF r.remaining > 0 THEN row
    ELSE IF row.kind # "growth_run" THEN [row EXCEPT !.status = "CONSUMED", !.qty = 0]
    ELSE [row EXCEPT !.status =
            TypeStatus[CHOOSE d \in DOMAIN r.lines : r.lines[d] > 0]]

(* The usable return lot; the other dispositions leave circulation.        *)
ReturnLots_AllUsable(row, r) ==
    <<[kind |-> row.kind, status |-> "IN STOCK", qty |-> Total(r.lines), proc |-> 0, outputs |-> 0]>>
ReturnLots(row, r) ==
    IF row.kind = "growth_run" \/ r.lines["usable"] = 0 THEN <<>>
    ELSE <<[kind |-> row.kind, status |-> "IN STOCK", qty |-> r.lines["usable"],
            proc |-> 0, outputs |-> 0]>>

FinishReturn(s) ==
    /\ sess[s].op = "return"
    /\ LET r == sess[s]
           i == r.issue
           l == issues[i].lot
           p == issues[i].proc
           closes == r.last /\ Closable(p)
           awaits == closes /\ OutputBased(procs[p].type)
           settled == [lots EXCEPT ![l] = ReturnedRow(@, r)]
           after == IF awaits
                    THEN [x \in DOMAIN lots |-> advanceGrowthRunToStock(settled[x], p)]
                    ELSE settled
       IN  /\ Len(lots) + Len(ReturnLots(lots[l], r)) <= MaxLots
           /\ issues' = [issues EXCEPT ![i].remaining = r.remaining,
                                       ![i].returned = @ + Total(r.lines),
                                       ![i].status = IF r.remaining = 0 THEN "RETURNED" ELSE "OPEN"]
           /\ lots' = after \o ReturnLots(lots[l], r)
           /\ scrapped' = IF lots[l].kind = "growth_run" THEN scrapped
                          ELSE scrapped + r.lines["damaged"] + r.lines["consumed"]
           /\ procs' = IF closes /\ ~awaits THEN [procs EXCEPT ![p].status = "completed"]
                       ELSE procs
           /\ machines' = IF closes
                          THEN [machines EXCEPT ![procs[p].machine] =
                                  IF awaits THEN "awaiting_output" ELSE "idle"]
                          ELSE machines
    /\ End(s)

-----------------------------------------------------------------------------
(* /manufacturing: none of these handlers locks the process row it reads.  *)

(* POST /processes.  The lots are listed in machine_process_lots and not   *)
(* otherwise written.                                                      *)
BeginStart(s, m, t, ls) ==
    /\ "start" \in Ops
    /\ \A p \in DOMAIN procs : procs[p].machine = m => ~Active(p)
    /\ Begin(s, [op |-> "start", machine |-> m, type |-> t, loaded |-> ls])
    /\ UNCHANGED <<lots, issues, procs, machines, scrapped>>

FinishStart(s) ==
    /\ sess[s].op = "start"
    /\ Len(procs) < MaxProcs
    /\ \A l \in sess[s].loaded : lots[l].status = "IN STOCK" /\ ~LotLocked(l)
    /\ procs' = Append(procs, [machine |-> sess[s].machine, type |-> sess[s].type,
                               status |-> "running", loaded |-> sess[s].loaded])
    /\ machines' = [machines EXCEPT ![sess[s].machine] = "running"]
    /\ End(s)
    /\ UNCHANGED <<lots, issues, scrapped>>

BeginHold(s, p) ==
    /\ "hold" \in Ops
    /\ procs[p].status = "running"
    /\ Begin(s, [op |-> "hold", proc |-> p])
    /\ UNCHANGED <<lots, issues, procs, machines, scrapped>>

OnHold_NotRunning(p) == procs[p].status # "running"
OnHold(p) == procs[p].status = "hold"

BeginResume(s, p) ==
    /\ "resume" \in Ops
    /\ OnHold(p)
    /\ Begin(s, [op |-> "resume", proc |-> p])
    /\ UNCHANGED <<lots, issues, procs, machines, scrapped>>

(* The UPDATE names the process by id alone.                               *)
FinishHoldResume(s) ==
    LET status == IF sess[s].op = "hold" THEN "hold" ELSE "running"
        p == sess[s].proc
    IN  /\ sess[s].op \in {"hold", "resume"}
        /\ procs' = [procs EXCEPT ![p].status = status]
        /\ machines' = [machines EXCEPT ![procs[p].machine] = status]
        /\ End(s)
        /\ UNCHANGED <<lots, issues, scrapped>>

(* findActiveBiscuitByProcess: the newest biscuit of p, whatever its status. *)
BiscuitsOf(p) == {l \in DOMAIN lots : lots[l].kind = "growth_run" /\ lots[l].proc = p}
findActiveBiscuitByProcess(p) ==
    IF BiscuitsOf(p) = {} THEN 0
    ELSE CHOOSE l \in BiscuitsOf(p) : \A x \in BiscuitsOf(p) : x <= l

(* Completing a growth process (the Growth Run Return) needs its biscuit,  *)
(* any other process that nothing issued to it is unreturned.              *)
Unreturned(p) == \E i \in DOMAIN issues : issues[i].proc = p /\ issues[i].status = "OPEN"

BeginComplete(s, p) ==
    /\ Active(p)
    /\ IF IsGrowth(procs[p].type) THEN "complete_growth" \in Ops /\ BiscuitsOf(p) # {}
       ELSE "complete" \in Ops /\ ~Unreturned(p)
    /\ Begin(s, [op |-> "complete", proc |-> p, biscuit |-> findActiveBiscuitByProcess(p)])
    /\ UNCHANGED <<lots, issues, procs, machines, scrapped>>

(* The biscuit goes to stock; the lots still in the process are consumed.  *)
AfterGrowth_SeedsOnly(row, p) ==
    IF row.proc # p \/ row.status # "IN PROCESS" \/ row.kind = "growth_run" THEN row
    ELSE [row EXCEPT !.status = "CONSUMED", !.qty = 0]
AfterGrowth(row, p) ==
    IF row.proc # p \/ row.status # "IN PROCESS" THEN row
    ELSE IF row.kind = "growth_run" THEN [row EXCEPT !.status = "IN STOCK"]
    ELSE [row EXCEPT !.status = "CONSUMED", !.qty = 0]

FinishComplete(s) ==
    LET p == sess[s].proc
        growth == IsGrowth(procs[p].type)
    IN  /\ sess[s].op = "complete"
        /\ growth => /\ ~LotLocked(sess[s].biscuit)
                     /\ \A l \in DOMAIN lots :
                          AfterGrowth(lots[l], p) # lots[l] => ~LotLocked(l)
        /\ lots' = IF growth THEN [l \in DOMAIN lots |-> AfterGrowth(lots[l], p)] ELSE lots
        /\ procs' = [procs EXCEPT ![p].status = "completed"]
        /\ machines' = [machines EXCEPT ![procs[p].machine] = "idle"]
        /\ End(s)
        /\ UNCHANGED <<issues, scrapped>>

(* PATCH /machines/:id/status: four of the statuses cancel what runs.      *)
Cancelling == {"maintenance", "breakdown", "idle", "cleaning"}
SetMachineStatus(m, st) ==
    /\ "set_status" \in Ops
    /\ procs' = IF st \in Cancelling
                THEN [p \in DOMAIN procs |->
                        IF procs[p].machine = m /\ Active(p)
                        THEN [procs[p] EXCEPT !.status = "cancelled"] ELSE procs[p]]
                ELSE procs
    /\ machines' = [machines EXCEPT ![m] = st]
    /\ UNCHANGED <<lots, issues, scrapped, sess>>

-----------------------------------------------------------------------------
(* POST /rough-growth: the biscuit is cut into rough lots and consumed,    *)
(* and the process it points to completes, whatever that process is doing. *)

OutputReady_NotConsumed(b) == lots[b].status # "CONSUMED"
OutputReady(b) == lots[b].status = "IN STOCK"

RoughOutput(b, p) ==
    /\ ~LotLocked(b)
    /\ lots' = [lots EXCEPT ![b].status = "CONSUMED", ![b].qty = 0, ![b].outputs = @ + 1]
    /\ IF p = 0 THEN UNCHANGED <<procs, machines>>
       ELSE /\ procs' = [procs EXCEPT ![p].status = "completed"]
            /\ machines' = [machines EXCEPT ![procs[p].machine] = "idle"]
    /\ UNCHANGED <<issues, scrapped>>

(* By growth_run_id: the biscuit is SELECTed FOR UPDATE, then checked.  It *)
(* names the process that grew it, as every biscuit made here does; only   *)
(* for one without would the process named in the request be completed.    *)
PostOutput(b) ==
    /\ "output" \in Ops
    /\ lots[b].kind = "growth_run"
    /\ OutputReady(b)
    /\ RoughOutput(b, lots[b].proc)
    /\ UNCHANGED sess

(* By machine_process_id: the biscuit is read and checked without a lock.  *)
BeginOutput(s, p) ==
    /\ "output_by_process" \in Ops
    /\ BiscuitsOf(p) # {}
    /\ OutputReady(findActiveBiscuitByProcess(p))
    /\ Begin(s, [op |-> "output_by_process", proc |-> p,
                 biscuit |-> findActiveBiscuitByProcess(p)])
    /\ UNCHANGED <<lots, issues, procs, machines, scrapped>>

FinishOutput(s) ==
    /\ sess[s].op = "output_by_process"
    /\ RoughOutput(sess[s].biscuit, sess[s].proc)
    /\ End(s)

(* An error, a lock or statement timeout, a lost connection: ROLLBACK.     *)
Rollback(s) ==
    /\ sess[s] # Idle
    /\ End(s)
    /\ UNCHANGED <<lots, issues, procs, machines, scrapped>>

-----------------------------------------------------------------------------
SeedLot == [kind |-> "seed", status |-> "IN STOCK", qty |-> MaxQty, proc |-> 0, outputs |-> 0]

Init ==
    /\ lots = [l \in 1..Purchased |-> SeedLot]
    /\ issues = <<>>
    /\ procs = <<>>
    /\ machines = [m \in Machines |-> "idle"]
    /\ scrapped = 0
    /\ sess = [s \in Sessions |-> Idle]

LinesUsed == {ls \in Lines : \A d \in DOMAIN ls \ Dispositions : ls[d] = 0}

Next ==
    \/ \E m \in Machines, t \in Types, req \in Requests : IssueToMachine(m, t, req)
    \/ \E e \in Entries : HandIssue(e)
    \/ \E s \in Sessions, i \in DOMAIN issues, ls \in LinesUsed : BeginReturn(s, i, ls)
    \/ \E s \in Sessions, m \in Machines, t \in Types :
          \E ls \in SUBSET DOMAIN lots : BeginStart(s, m, t, ls)
    \/ \E s \in Sessions, p \in DOMAIN procs : BeginHold(s, p)
    \/ \E s \in Sessions, p \in DOMAIN procs : BeginResume(s, p)
    \/ \E s \in Sessions, p \in DOMAIN procs : BeginComplete(s, p)
    \/ \E s \in Sessions, p \in DOMAIN procs : BeginOutput(s, p)
    \/ \E s \in Sessions : FinishReturn(s)
    \/ \E s \in Sessions : FinishStart(s)
    \/ \E s \in Sessions : FinishHoldResume(s)
    \/ \E s \in Sessions : FinishComplete(s)
    \/ \E s \in Sessions : FinishOutput(s)
    \/ \E s \in Sessions : Rollback(s)
    \/ \E m \in Machines, st \in PanelStatuses : SetMachineStatus(m, st)
    \/ \E b \in DOMAIN lots : PostOutput(b)

Spec == Init /\ [][Next]_vars

-----------------------------------------------------------------------------
(* Properties.                                                             *)

(* Every table row and every request in flight has its type.               *)
TypeOK ==
    /\ lots \in Seq(Lot)
    /\ issues \in Seq(Issue)
    /\ procs \in Seq(Proc)
    /\ machines \in [Machines -> MachineStatuses]
    /\ scrapped \in Nat
    /\ sess \in [Sessions -> Session]

(* Returns of one issue, however many requests make them and whatever they *)
(* race with, never return more than was issued: what was returned and     *)
(* what remains in process always add up (the balance gate of a return).   *)
IssueBalance ==
    \A i \in DOMAIN issues :
        /\ issues[i].issued = issues[i].remaining + issues[i].returned
        /\ issues[i].status = "RETURNED" <=> issues[i].remaining = 0

(* A lot that an open issue holds is in process and held by that issue     *)
(* alone: nothing issues, consumes or releases it behind the issue's back. *)
LotHeldOnce ==
    \A i \in DOMAIN issues : issues[i].status = "OPEN" =>
        /\ lots[issues[i].lot].status = "IN PROCESS"
        /\ \A j \in DOMAIN issues : issues[j].status = "OPEN" /\ issues[j].lot = issues[i].lot => i = j

(* A process that is not a growth process is only completed once nothing   *)
(* issued to it is outstanding, by the last return or by the complete      *)
(* handler, whichever of them wins a race.                                 *)
CompletedMeansReturned ==
    \A p \in DOMAIN procs :
        procs[p].status = "completed" /\ ~IsGrowth(procs[p].type) => ~Unreturned(p)

(* Rough output is posted at most once for a biscuit, which it consumes    *)
(* for good.  A biscuit issued without a machine is left out: such an      *)
(* issue keeps the biscuit's process, and the last return of that process  *)
(* takes to stock whatever biscuit of it is in process.                    *)
IssuedByHand(l) == \E i \in DOMAIN issues : issues[i].lot = l /\ issues[i].proc = 0
OutputOnce ==
    \A l \in DOMAIN lots :
        \/ IssuedByHand(l)
        \/ lots[l].outputs = 0
        \/ lots[l].outputs = 1 /\ lots[l].status = "CONSUMED"

(* A return-based process whose every issue came back is completed by the  *)
(* return of the last of them: it does not stay active with nothing in it. *)
AllReturnedCompletes ==
    \A p \in DOMAIN procs :
        /\ Active(p) /\ ~OutputBased(procs[p].type)
        /\ \E i \in DOMAIN issues : issues[i].proc = p
        => \E i \in DOMAIN issues : issues[i].proc = p /\ issues[i].status = "OPEN"

(* A completed or cancelled process stays so.                              *)
TerminalStays ==
    [][\A p \in DOMAIN procs : ~Active(p) => ~Active(p)']_vars

(* A biscuit that is in process is in a process that can still release it. *)
BiscuitNotStranded ==
    \A l \in DOMAIN lots :
        lots[l].kind = "growth_run" /\ lots[l].status = "IN PROCESS" /\ lots[l].proc # 0
            => Active(lots[l].proc) \/ \E i \in DOMAIN issues : issues[i].lot = l /\ issues[i].status = "OPEN"

=============================================================================
