------------------------------- MODULE Assets -------------------------------
(***************************************************************************)
(* Fixed assets and their depreciation: runs over a period, their          *)
(* cancellation, disposals, and edits of an asset's cost.                  *)
(*                                                                         *)
(* A run computes its lines before its transaction begins; a cancellation  *)
(* looks for later runs before it writes; an edit looks for posted runs    *)
(* before its UPDATE: one action on each side.  A disposal holds the lock  *)
(* of its asset from the first read to the COMMIT and is one action.       *)
(* Amounts are whole units, periods are whole and numbered.                *)
(***************************************************************************)
EXTENDS Integers, Sequences, FiniteSets, Functions

CONSTANTS
    AssetIds,   \* fixed_assets.id
    Sessions,   \* requests in flight at the same time
    Method,     \* depreciation_method of each asset: "SLM" or "WDV"
    Rate,       \* depreciation rate of one period: <<n, d>> for n / d
    Entered,    \* <<purchase_cost, salvage_value>> of new assets
    Edited,     \* the same, as users edit them later
    Periods,    \* the periods of the runs
    MaxRuns     \* bound: depreciation runs

(* salvage_lte_cost.                                                       *)
Prices == {p \in Nat \X Nat : p[2] <= p[1]}

ASSUME AssetsAssumption ==
    /\ IsFiniteSet(AssetIds) /\ Method \in [AssetIds -> {"SLM", "WDV"}]
    /\ Rate \in Nat \X (Nat \ {0}) /\ Entered \cup Edited \subseteq Prices
    /\ Periods \subseteq Nat /\ MaxRuns \in Nat

VARIABLES
    asset,    \* fixed_assets
    runs,     \* depreciation_runs with their lines
    gl,       \* balances of accumulated depreciation and of its expense
    sess,     \* the requests in flight and what they have read
    overlap   \* history: the operations that overlapped a run in flight

vars == <<asset, runs, gl, sess, overlap>>

Asset == [status : {"none", "active", "disposed"}, cost : Nat, salvage : Nat, acc : Nat]

(* A run, and for each asset what it charges.  basis: the posted runs      *)
(* whose charges the run took into account.                                *)
Run == [period : Periods, status : {"posted", "cancelled"}, charge : [AssetIds -> Nat],
        basis : SUBSET Nat]

Idle == [op |-> "idle"]
Session == {Idle}
    \cup [op : {"run"}, period : Periods, charge : [AssetIds -> Nat], basis : SUBSET Nat]
    \cup [op : {"cancel"}, run : Nat]
    \cup [op : {"patch"}, asset : AssetIds, locked : BOOLEAN, price : Edited]

Posted == {i \in DOMAIN runs : runs[i].status = "posted"}
Charged(a, S) == SumFunctionOnSet([i \in DOMAIN runs |-> runs[i].charge[a]], S)
Total(charge) == SumFunction(charge)

-----------------------------------------------------------------------------
(* calculateForAsset: straight-line on the cost, written-down value on     *)
(* what is left, and never more than what may be depreciated.              *)

maxDepreciable(r) == r.cost - r.salvage - r.acc

annualDepr(a, r) ==
    LET base == IF Method[a] = "SLM" THEN r.cost - r.salvage ELSE r.cost - r.acc
    IN  (base * Rate[1]) \div Rate[2]

calculateForAsset_Uncapped(a, r) ==
    IF r.status # "active" \/ maxDepreciable(r) <= 0 THEN 0 ELSE annualDepr(a, r)
calculateForAsset(a, r) ==
    IF r.status # "active" \/ maxDepreciable(r) <= 0 THEN 0
    ELSE IF annualDepr(a, r) > maxDepreciable(r) THEN maxDepreciable(r) ELSE annualDepr(a, r)

-----------------------------------------------------------------------------
InFlight == {sess[s].op : s \in Sessions} \ {"idle"}

Overlapping(op) ==
    overlap \cup (IF op = "run" THEN InFlight ELSE IF "run" \in InFlight THEN {op} ELSE {})

Start(s, request) ==
    /\ sess[s] = Idle
    /\ sess' = [sess EXCEPT ![s] = request]
    /\ overlap' = Overlapping(request.op)

End(s) == sess' = [sess EXCEPT ![s] = Idle] /\ UNCHANGED overlap

(* POST /fixed-assets, or a capital line of a purchase.                    *)
AddAsset(a, price) ==
    /\ asset[a].status = "none"
    /\ asset' = [asset EXCEPT ![a] = [status |-> "active", cost |-> price[1],
                                      salvage |-> price[2], acc |-> 0]]
    /\ UNCHANGED <<runs, gl, sess, overlap>>

(* POST /depreciation-runs: the lines are built before BEGIN.              *)
BeginRun(s, p) ==
    LET charge == [a \in AssetIds |-> calculateForAsset(a, asset[a])]
    IN  /\ Len(runs) + Cardinality({t \in Sessions : sess[t].op = "run"}) < MaxRuns
        /\ \E a \in AssetIds : charge[a] > 0
        /\ Start(s, [op |-> "run", period |-> p, charge |-> charge, basis |-> Posted])
        /\ UNCHANGED <<asset, runs, gl>>

FinishRun(s) ==
    LET r == sess[s]
    IN  /\ r.op = "run"
        /\ runs' = Append(runs, [period |-> r.period, status |-> "posted", charge |-> r.charge,
                                 basis |-> r.basis])
        /\ asset' = [a \in AssetIds |-> [asset[a] EXCEPT !.acc = @ + r.charge[a]]]
        /\ gl' = [accum |-> gl.accum + Total(r.charge), expense |-> gl.expense + Total(r.charge)]
        /\ End(s)

(* POST /depreciation-runs/:id/cancel: the run is locked, posted, and no   *)
(* posted run of a later period charges one of its assets.                 *)
Later(i, j) ==
    /\ runs[j].period > runs[i].period
    /\ \E a \in AssetIds : runs[i].charge[a] > 0 /\ runs[j].charge[a] > 0

Cancellable_Later(i) == runs[i].status = "posted"
Cancellable(i) == runs[i].status = "posted" /\ ~\E j \in Posted : Later(i, j)

RunLocked(i) == \E t \in Sessions : sess[t].op = "cancel" /\ sess[t].run = i

BeginCancel(s, i) ==
    /\ ~RunLocked(i)
    /\ Cancellable(i)
    /\ Start(s, [op |-> "cancel", run |-> i])
    /\ UNCHANGED <<asset, runs, gl>>

(* The lines of the run are taken back, not computed again.                *)
Reversed_Recomputed(i) == [a \in AssetIds |-> calculateForAsset(a, asset[a])]
Reversed(i) == runs[i].charge

FinishCancel(s) ==
    LET i == sess[s].run
    IN  /\ sess[s].op = "cancel"
        /\ asset' = [a \in AssetIds |-> [asset[a] EXCEPT !.acc = @ - Reversed(i)[a]]]
        /\ runs' = [runs EXCEPT ![i].status = "cancelled"]
        /\ gl' = [accum |-> gl.accum - Total(Reversed(i)),
                  expense |-> gl.expense - Total(Reversed(i))]
        /\ End(s)

(* PATCH /fixed-assets/:id: cost fields are locked once depreciation has   *)
(* been posted, as the query before the UPDATE sees it.                    *)
CostLocked(a) == \E i \in Posted : runs[i].charge[a] > 0

BeginPatch(s, a, price) ==
    /\ asset[a].status # "none"
    /\ Start(s, [op |-> "patch", asset |-> a, locked |-> CostLocked(a), price |-> price])
    /\ UNCHANGED <<asset, runs, gl>>

FinishPatch(s) ==
    LET r == sess[s]
    IN  /\ r.op = "patch"
        /\ asset' = IF r.locked THEN asset
                    ELSE [asset EXCEPT ![r.asset].cost = r.price[1], ![r.asset].salvage = r.price[2]]
        /\ End(s)
        /\ UNCHANGED <<runs, gl>>

(* POST /fixed-assets/:id/dispose: the entry clears what the asset has     *)
(* accumulated.                                                            *)
Cleared_None(a) == 0
Cleared(a) == asset[a].acc

Dispose(a) ==
    /\ asset[a].status = "active"
    /\ asset' = [asset EXCEPT ![a].status = "disposed"]
    /\ gl' = [gl EXCEPT !.accum = @ - Cleared(a)]
    /\ overlap' = Overlapping("dispose")
    /\ UNCHANGED <<runs, sess>>

(* An error or a lost connection: ROLLBACK.                                *)
Rollback(s) ==
    /\ sess[s] # Idle
    /\ End(s)
    /\ UNCHANGED <<asset, runs, gl>>

-----------------------------------------------------------------------------
Init ==
    /\ asset = [a \in AssetIds |-> [status |-> "none", cost |-> 0, salvage |-> 0, acc |-> 0]]
    /\ runs = <<>>
    /\ gl = [accum |-> 0, expense |-> 0]
    /\ sess = [s \in Sessions |-> Idle]
    /\ overlap = {}

Next ==
    \/ \E a \in AssetIds, p \in Entered : AddAsset(a, p)
    \/ \E a \in AssetIds : Dispose(a)
    \/ \E s \in Sessions :
          \/ \E p \in Periods : BeginRun(s, p)
          \/ \E i \in DOMAIN runs : BeginCancel(s, i)
          \/ \E a \in AssetIds, p \in Edited : BeginPatch(s, a, p)
          \/ FinishRun(s) \/ FinishCancel(s) \/ FinishPatch(s) \/ Rollback(s)

Spec == Init /\ [][Next]_vars

-----------------------------------------------------------------------------
(* Properties.                                                             *)

(* However runs and cancellations overlap, the posted runs explain both    *)
(* books: an asset has accumulated, and the ledger has expensed, what they *)
(* charge.  Columns are moved by deltas, a cancelled run takes back its    *)
(* own lines, and no run is cancelled twice.                               *)
RunsExplainBooks ==
    /\ \A a \in AssetIds : asset[a].acc = Charged(a, Posted)
    /\ gl.expense = SumFunction([a \in AssetIds |-> Charged(a, Posted)])

(* Depreciation stops at the salvage value, unless two runs overlapped, or *)
(* a run overlapped an edit of a cost it depends on.                       *)
NeverOverDepreciated ==
    overlap \cap {"run", "patch"} = {}
        => \A a \in AssetIds : asset[a].acc <= asset[a].cost - asset[a].salvage

(* A posted run never stands on a cancelled run of an earlier period for   *)
(* the same asset, unless a cancellation overlapped a run.                 *)
PostedStandsOnPosted ==
    "cancel" \notin overlap
        => \A j \in Posted : \A i \in runs[j].basis : Later(i, j) => i \in Posted

(* The accumulated depreciation in the ledger moves with that of the       *)
(* active assets, step by step, unless a run overlapped a disposal; only   *)
(* cancelling a run of an asset that is disposed by then parts the two.    *)
ActiveAccumulated ==
    SumFunction([a \in {b \in AssetIds : asset[b].status = "active"} |-> asset[a].acc])
CancelsDisposed ==
    \E i \in Posted : /\ i \notin Posted'
                      /\ \E a \in AssetIds : asset[a].status = "disposed" /\ runs[i].charge[a] > 0
BooksFollowAssets ==
    [][CancelsDisposed \/ "dispose" \in overlap'
        \/ gl'.accum - gl.accum = ActiveAccumulated' - ActiveAccumulated]_vars

=============================================================================
