---------------------------- MODULE AssetsProofs ----------------------------
(***************************************************************************)
(* Proofs about Assets, for any assets, methods, rates, prices, periods    *)
(* and number of runs and of requests in flight.                           *)
(***************************************************************************)
EXTENDS Assets, TableLemmas

-----------------------------------------------------------------------------
(* The inductive invariant.                                                *)

AssetRow == [status : {"none", "active", "disposed"}, cost : Nat, salvage : Nat, acc : Int]

Rows ==
    /\ asset \in [AssetIds -> AssetRow]
    /\ runs \in Seq(Run)
    /\ sess \in [Sessions -> Session]

AssetOK(a) ==
    /\ asset[a].salvage <= asset[a].cost
    /\ (asset[a].status = "none" => asset[a].acc = 0)

(* What a run charges, posted or in flight, it charges to assets that are  *)
(* there; and it has taken into account runs that exist.                   *)
ChargeOK(r) ==
    /\ \A a \in AssetIds : asset[a].status = "none" => r.charge[a] = 0
    /\ r.basis \subseteq DOMAIN runs

(* What a request in flight has read is still so, unless another that      *)
(* overlapped it could change it.                                          *)
RunningOK(s) ==
    sess[s].op = "run" =>
        /\ ChargeOK(sess[s])
        /\ ("run" \notin overlap => \A t \in Sessions \ {s} : sess[t].op # "run")
        /\ ("cancel" \notin overlap => /\ \A t \in Sessions : sess[t].op # "cancel"
                                       /\ sess[s].basis \subseteq Posted)
CancellingOK(s) ==
    sess[s].op = "cancel" =>
        /\ sess[s].run \in Posted
        /\ \A t \in Sessions \ {s} : sess[t].op = "cancel" => sess[t].run # sess[s].run
        /\ ("cancel" \notin overlap => Cancellable(sess[s].run))
PatchingOK(s) == sess[s].op = "patch" => asset[sess[s].asset].status # "none"

IInv ==
    /\ Rows
    /\ \A a \in AssetIds : AssetOK(a)
    /\ \A i \in DOMAIN runs : ChargeOK(runs[i])
    /\ \A s \in Sessions : RunningOK(s) /\ CancellingOK(s) /\ PatchingOK(s)
    /\ PostedStandsOnPosted

-----------------------------------------------------------------------------
LEMMA Constants ==
    /\ Rate[1] \in Nat /\ Rate[2] \in Nat /\ Rate[2] > 0 /\ MaxRuns \in Nat
    /\ \A p \in Entered \cup Edited : p[1] \in Nat /\ p[2] \in Nat /\ p[2] <= p[1]
  BY AssetsAssumption DEF Prices

LEMMA AssetFields ==
    ASSUME NEW r \in AssetRow
    PROVE  /\ r.status \in {"none", "active", "disposed"}
           /\ r.cost \in Nat /\ r.salvage \in Nat /\ r.acc \in Int
  BY DEF AssetRow

LEMMA RunFields ==
    ASSUME NEW r \in Run
    PROVE  /\ r.status \in {"posted", "cancelled"} /\ r.charge \in [AssetIds -> Nat]
           /\ r.basis \in SUBSET Nat /\ r.period \in Periods
  BY DEF Run

LEMMA SessionFields ==
    ASSUME NEW r \in Session
    PROVE  /\ r.op \in {"idle", "run", "cancel", "patch"}
           /\ (r.op = "run" => /\ r.charge \in [AssetIds -> Nat] /\ r.period \in Periods
                               /\ r.basis \in SUBSET Nat)
           /\ (r.op = "cancel" => r.run \in Nat)
           /\ (r.op = "patch" => /\ r.asset \in AssetIds /\ r.locked \in BOOLEAN
                                 /\ r.price \in Edited)
  BY DEF Session, Idle

LEMMA IdleType == Idle \in Session /\ Idle.op = "idle"
  BY DEF Session, Idle

(* What an asset is charged is never negative and never more than may be   *)
(* depreciated of it.                                                      *)
LEMMA Capped ==
    ASSUME NEW a \in AssetIds, NEW r \in AssetRow, r.salvage <= r.cost
    PROVE  /\ calculateForAsset(a, r) \in Nat
           /\ r.status = "none" => calculateForAsset(a, r) = 0
           /\ calculateForAsset(a, r) = 0 \/ calculateForAsset(a, r) <= maxDepreciable(r)
  <1>1. /\ r.status \in {"none", "active", "disposed"}
        /\ r.cost \in Nat /\ r.salvage \in Nat /\ r.acc \in Int
    BY AssetFields
  <1>2. CASE r.status # "active" \/ maxDepreciable(r) <= 0
    BY <1>2 DEF calculateForAsset
  <1>3. CASE r.status = "active" /\ ~(maxDepreciable(r) <= 0)
    <2> DEFINE base == IF Method[a] = "SLM" THEN r.cost - r.salvage ELSE r.cost - r.acc
    <2>1. base \in Nat
      BY <1>1, <1>3 DEF maxDepreciable
    <2>2. annualDepr(a, r) = (base * Rate[1]) \div Rate[2]
      BY DEF annualDepr
    <2> HIDE DEF base
    <2>3. base * Rate[1] \in Nat
      BY <2>1, Constants
    <2>4. annualDepr(a, r) \in Nat
      <3> DEFINE n == base * Rate[1]
                 d == Rate[2]
      <3>1. n \in Nat /\ d \in Nat /\ d > 0
        BY <2>3, Constants
      <3> HIDE DEF n, d
      <3>2. n \div d \in Nat
        BY <3>1
      <3> QED BY <2>2, <3>2 DEF n, d
    <2>5. maxDepreciable(r) \in Nat /\ maxDepreciable(r) > 0
      BY <1>1, <1>3 DEF maxDepreciable
    <2> QED BY <1>3, <2>4, <2>5 DEF calculateForAsset
  <1> QED BY <1>1, <1>2, <1>3

(* The operations recorded as overlapping a run only become more.          *)
LEMMA OverlapGrows ==
    ASSUME [Next]_vars
    PROVE  overlap \subseteq overlap'
  BY DEF Next, vars, AddAsset, Dispose, BeginRun, BeginCancel, BeginPatch, FinishRun,
         FinishCancel, FinishPatch, Rollback, Start, End, Overlapping

LEMMA PostedFacts ==
    /\ Posted \subseteq DOMAIN runs
    /\ \A i \in DOMAIN runs : i \in Posted <=> runs[i].status = "posted"
  BY DEF Posted

LEMMA InFlightFacts ==
    ASSUME NEW s \in Sessions, sess[s].op # "idle"
    PROVE  sess[s].op \in InFlight
  BY DEF InFlight

(* What Start and End do to the requests in flight.                        *)
LEMMA Starting ==
    ASSUME Rows, NEW s \in Sessions, NEW request \in Session, Start(s, request)
    PROVE  /\ sess' \in [Sessions -> Session]
           /\ sess'[s] = request /\ \A t \in Sessions \ {s} : sess'[t] = sess[t]
           /\ sess[s].op = "idle"
  BY IdleType DEF Start, Rows

LEMMA Ending ==
    ASSUME Rows, NEW s \in Sessions, End(s)
    PROVE  /\ sess' \in [Sessions -> Session]
           /\ sess'[s].op = "idle" /\ \A t \in Sessions \ {s} : sess'[t] = sess[t]
           /\ overlap' = overlap
  BY IdleType DEF End, Rows

(* While no run is added or cancelled, what is said of runs stays as it is.*)
LEMMA SameRuns ==
    ASSUME runs' = runs
    PROVE  /\ Posted' = Posted
           /\ \A i : Cancellable(i)' <=> Cancellable(i)
           /\ \A i, j : Later(i, j)' <=> Later(i, j)
  BY DEF Posted, Cancellable, Later

LEMMA SameStanding ==
    ASSUME IInv, runs' = runs, [Next]_vars
    PROVE  PostedStandsOnPosted'
  BY SameRuns, OverlapGrows DEF IInv, PostedStandsOnPosted

-----------------------------------------------------------------------------
(* Each action keeps the invariant.                                        *)

LEMMA AddAssetKeeps ==
    ASSUME IInv, NEW a \in AssetIds, NEW p \in Entered, AddAsset(a, p)
    PROVE  IInv'
  <1> DEFINE new == [status |-> "active", cost |-> p[1], salvage |-> p[2], acc |-> 0]
  <1>1. new \in AssetRow /\ new.salvage <= new.cost /\ new.status = "active"
    BY Constants DEF AssetRow
  <1> HIDE DEF new
  <1>2. asset' = [asset EXCEPT ![a] = new] /\ UNCHANGED <<runs, sess, overlap>>
    BY DEF AddAsset, new
  <1>3. Rows'
    BY <1>1, <1>2 DEF IInv, Rows
  <1>4. \A b \in AssetIds : asset'[b] = IF b = a THEN new ELSE asset[b]
    BY <1>2 DEF IInv, Rows
  <1>5. \A b \in AssetIds : AssetOK(b)'
    BY <1>1, <1>4 DEF IInv, AssetOK
  <1>6. \A b \in AssetIds : asset'[b].status = "none" => asset[b].status = "none"
    BY <1>1, <1>4
  <1>7. \A i \in DOMAIN runs : ChargeOK(runs[i])'
    BY <1>2, <1>6 DEF IInv, ChargeOK
  <1>8. \A s \in Sessions : RunningOK(s)'
    BY <1>2, <1>6, SameRuns DEF IInv, RunningOK, ChargeOK
  <1>9. \A s \in Sessions : CancellingOK(s)'
    BY <1>2, SameRuns DEF IInv, CancellingOK
  <1>10. \A s \in Sessions : PatchingOK(s)'
    <2> SUFFICES ASSUME NEW s \in Sessions, sess[s].op = "patch"
                 PROVE  asset'[sess[s].asset].status # "none"
      BY <1>2 DEF PatchingOK
    <2>1. sess[s].asset \in AssetIds
      BY SessionFields DEF IInv, Rows
    <2> QED BY <2>1, <1>6 DEF IInv, PatchingOK
  <1>11. PostedStandsOnPosted'
    BY <1>2, SameRuns DEF IInv, PostedStandsOnPosted
  <1> QED BY <1>2, <1>3, <1>5, <1>7, <1>8, <1>9, <1>10, <1>11 DEF IInv

(* A request that starts: nothing it finds changes, and what the others    *)
(* have read is still so unless the start is recorded as overlapping them. *)
LEMMA StartKeeps ==
    ASSUME IInv, [Next]_vars, NEW s \in Sessions, NEW request \in Session,
           Start(s, request), UNCHANGED <<asset, runs>>,
           RunningOK(s)', CancellingOK(s)', PatchingOK(s)',
           request.op = "run" /\ "run" \notin overlap' =>
               \A t \in Sessions \ {s} : sess[t].op # "run",
           request.op = "cancel" /\ "cancel" \notin overlap' =>
               \A t \in Sessions \ {s} : sess[t].op # "run",
           request.op = "cancel" =>
               \A t \in Sessions \ {s} : sess[t].op = "cancel" => sess[t].run # request.run
    PROVE  IInv'
  <1>1. /\ sess' \in [Sessions -> Session] /\ sess'[s] = request
        /\ \A t \in Sessions \ {s} : sess'[t] = sess[t]
    BY Starting DEF IInv
  <1>2. Rows'
    BY <1>1 DEF IInv, Rows
  <1>3. \A a \in AssetIds : AssetOK(a)'
    BY DEF IInv, AssetOK
  <1>4. \A i \in DOMAIN runs : ChargeOK(runs[i])'
    BY DEF IInv, ChargeOK
  <1>5. overlap \subseteq overlap' /\ Posted' = Posted
    BY OverlapGrows, SameRuns
  <1>6. ASSUME NEW t \in Sessions \ {s}
        PROVE  RunningOK(t)'
    <2> SUFFICES ASSUME sess[t].op = "run"
                 PROVE  RunningOK(t)'
      BY <1>1 DEF RunningOK
    <2>1. ChargeOK(sess[t])'
      BY <1>1 DEF IInv, RunningOK, ChargeOK
    <2>2. ASSUME "run" \notin overlap'
          PROVE  \A u \in Sessions \ {t} : sess'[u].op # "run"
      BY <1>1, <1>5, <2>2 DEF IInv, RunningOK
    <2>3. ASSUME "cancel" \notin overlap'
          PROVE  /\ \A u \in Sessions : sess'[u].op # "cancel"
                 /\ sess[t].basis \subseteq Posted
      BY <1>1, <1>5, <2>3 DEF IInv, RunningOK
    <2> QED BY <1>1, <1>5, <2>1, <2>2, <2>3 DEF RunningOK, ChargeOK
  <1>7. ASSUME NEW t \in Sessions \ {s}
        PROVE  CancellingOK(t)'
    BY <1>1, <1>5, SameRuns DEF IInv, CancellingOK
  <1>8. ASSUME NEW t \in Sessions \ {s}
        PROVE  PatchingOK(t)'
    BY <1>1 DEF IInv, PatchingOK
  <1>9. PostedStandsOnPosted'
    BY SameStanding
  <1> QED BY <1>2, <1>3, <1>4, <1>6, <1>7, <1>8, <1>9 DEF IInv

LEMMA BeginRunKeeps ==
    ASSUME IInv, [Next]_vars, NEW s \in Sessions, NEW p \in Periods, BeginRun(s, p)
    PROVE  IInv'
  <1> DEFINE charge == [a \in AssetIds |-> calculateForAsset(a, asset[a])]
             request == [op |-> "run", period |-> p, charge |-> charge, basis |-> Posted]
  <1>1. \A a \in AssetIds : /\ charge[a] \in Nat
                            /\ (asset[a].status = "none" => charge[a] = 0)
    BY Capped DEF IInv, Rows, AssetOK
  <1>2. charge \in [AssetIds -> Nat]
    BY <1>1
  <1>3. Posted \subseteq Nat
    BY PostedFacts DEF IInv, Rows
  <1>4. Start(s, request) /\ UNCHANGED <<asset, runs, gl>>
    BY DEF BeginRun
  <1> HIDE DEF charge
  <1>5. request \in Session /\ request.op = "run" /\ request.charge = charge
        /\ request.basis = Posted
    BY <1>2, <1>3 DEF Session
  <1>6. overlap' = overlap \cup InFlight
    BY <1>4 DEF Start, Overlapping
  <1> HIDE DEF request
  <1>7. /\ sess'[s] = request /\ \A t \in Sessions \ {s} : sess'[t] = sess[t]
        /\ sess[s].op = "idle"
    BY <1>4, <1>5, Starting DEF IInv
  <1>8. "run" \notin overlap' => \A t \in Sessions \ {s} : sess[t].op # "run"
    BY <1>6, InFlightFacts
  <1>9. "cancel" \notin overlap' => \A t \in Sessions : sess'[t].op # "cancel"
    BY <1>5, <1>6, <1>7, InFlightFacts
  <1>10. /\ \A a \in AssetIds : asset'[a].status = "none" => sess'[s].charge[a] = 0
         /\ sess'[s].basis = Posted /\ Posted \subseteq DOMAIN runs'
    BY <1>1, <1>4, <1>5, <1>7, PostedFacts
  <1>11. RunningOK(s)'
    <2>1. ChargeOK(sess[s])'
      BY <1>10 DEF ChargeOK
    <2>2. Posted' = Posted
      BY <1>4, SameRuns
    <2>3. \A t \in Sessions \ {s} : sess'[t] = sess[t]
      BY <1>7
    <2> QED BY <1>8, <1>9, <1>10, <2>1, <2>2, <2>3 DEF RunningOK
  <1>12. CancellingOK(s)' /\ PatchingOK(s)'
    BY <1>5, <1>7 DEF CancellingOK, PatchingOK
  <1> QED BY <1>4, <1>5, <1>8, <1>11, <1>12, StartKeeps

LEMMA BeginCancelKeeps ==
    ASSUME IInv, [Next]_vars, NEW s \in Sessions, NEW i \in DOMAIN runs, BeginCancel(s, i)
    PROVE  IInv'
  <1> DEFINE request == [op |-> "cancel", run |-> i]
  <1>1. Start(s, request) /\ UNCHANGED <<asset, runs, gl>> /\ ~RunLocked(i) /\ Cancellable(i)
    BY DEF BeginCancel
  <1>2. request \in Session /\ request.op = "cancel" /\ request.run = i
    BY DEF Session, IInv, Rows
  <1>3. overlap' = overlap \cup (IF "run" \in InFlight THEN {"cancel"} ELSE {})
    BY <1>1 DEF Start, Overlapping
  <1> HIDE DEF request
  <1>4. /\ sess'[s] = request /\ \A t \in Sessions \ {s} : sess'[t] = sess[t]
        /\ sess[s].op = "idle"
    BY <1>1, <1>2, Starting DEF IInv
  <1>5. "cancel" \notin overlap' => \A t \in Sessions \ {s} : sess[t].op # "run"
    BY <1>3, InFlightFacts
  <1>6. \A t \in Sessions : sess[t].op = "cancel" => sess[t].run # i
    BY <1>1 DEF RunLocked
  <1>7. i \in Posted
    BY <1>1, PostedFacts DEF Cancellable
  <1>8. CancellingOK(s)'
    BY <1>1, <1>2, <1>4, <1>6, <1>7, SameRuns DEF CancellingOK
  <1>9. RunningOK(s)' /\ PatchingOK(s)'
    BY <1>2, <1>4 DEF RunningOK, PatchingOK
  <1> QED BY <1>1, <1>2, <1>5, <1>6, <1>8, <1>9, StartKeeps

LEMMA BeginPatchKeeps ==
    ASSUME IInv, [Next]_vars, NEW s \in Sessions, NEW a \in AssetIds, NEW p \in Edited,
           BeginPatch(s, a, p)
    PROVE  IInv'
  <1> DEFINE request == [op |-> "patch", asset |-> a, locked |-> CostLocked(a), price |-> p]
  <1>1. /\ Start(s, request) /\ UNCHANGED <<asset, runs, gl>> /\ asset[a].status # "none"
    BY DEF BeginPatch
  <1>2. CostLocked(a) \in BOOLEAN
    BY DEF CostLocked
  <1>3. request \in Session /\ request.op = "patch" /\ request.asset = a
    BY <1>2 DEF Session
  <1> HIDE DEF request
  <1>4. sess'[s] = request
    BY <1>1, <1>3, Starting DEF IInv
  <1>5. RunningOK(s)' /\ CancellingOK(s)' /\ PatchingOK(s)'
    BY <1>1, <1>3, <1>4 DEF RunningOK, CancellingOK, PatchingOK
  <1> QED BY <1>1, <1>3, <1>5, StartKeeps

(* A request that ends takes nothing from what the others have read, if no *)
(* asset and no run disappears and no posted run is cancelled.             *)
LEMMA EndKeepsRead ==
    ASSUME IInv, NEW s \in Sessions, End(s),
           \A a \in AssetIds : asset'[a].status = asset[a].status,
           DOMAIN runs \subseteq DOMAIN runs', Posted \subseteq Posted',
           runs' = runs \/ sess[s].op = "run"
    PROVE  \A t \in Sessions : RunningOK(t)' /\ CancellingOK(t)' /\ PatchingOK(t)'
  <1>1. /\ sess' \in [Sessions -> Session] /\ sess'[s].op = "idle"
        /\ \A t \in Sessions \ {s} : sess'[t] = sess[t]
        /\ overlap' = overlap
    BY Ending DEF IInv
  <1>2. RunningOK(s)' /\ CancellingOK(s)' /\ PatchingOK(s)'
    BY <1>1 DEF RunningOK, CancellingOK, PatchingOK
  <1>3. ASSUME NEW t \in Sessions \ {s}
        PROVE  RunningOK(t)'
    <2> SUFFICES ASSUME sess[t].op = "run"
                 PROVE  RunningOK(t)'
      BY <1>1 DEF RunningOK
    <2>1. ChargeOK(sess[t])'
      BY <1>1 DEF IInv, RunningOK, ChargeOK
    <2>2. ASSUME "run" \notin overlap
          PROVE  \A u \in Sessions \ {t} : sess'[u].op # "run"
      BY <1>1, <2>2 DEF IInv, RunningOK
    <2>3. ASSUME "cancel" \notin overlap
          PROVE  /\ \A u \in Sessions : sess'[u].op # "cancel"
                 /\ sess[t].basis \subseteq Posted'
      BY <1>1, <2>3 DEF IInv, RunningOK
    <2> QED BY <1>1, <2>1, <2>2, <2>3 DEF RunningOK
  <1>4. ASSUME NEW t \in Sessions \ {s}
        PROVE  CancellingOK(t)'
    <2> SUFFICES ASSUME sess[t].op = "cancel"
                 PROVE  CancellingOK(t)'
      BY <1>1 DEF CancellingOK
    <2>1. /\ sess[t].run \in Posted'
          /\ \A u \in Sessions \ {t} : sess'[u].op = "cancel" => sess'[u].run # sess[t].run
      BY <1>1 DEF IInv, CancellingOK
    <2>2. ASSUME "cancel" \notin overlap
          PROVE  Cancellable(sess[t].run) /\ runs' = runs
      BY <2>2 DEF IInv, CancellingOK, RunningOK
    <2> QED BY <1>1, <2>1, <2>2, SameRuns DEF CancellingOK
  <1>5. ASSUME NEW t \in Sessions \ {s}
        PROVE  PatchingOK(t)'
    <2> SUFFICES ASSUME sess[t].op = "patch"
                 PROVE  asset'[sess[t].asset].status # "none"
      BY <1>1 DEF PatchingOK
    <2>1. sess[t].asset \in AssetIds
      BY SessionFields DEF IInv, Rows
    <2> QED BY <2>1 DEF IInv, PatchingOK
  <1> QED BY <1>2, <1>3, <1>4, <1>5

LEMMA RollbackKeeps ==
    ASSUME IInv, [Next]_vars, NEW s \in Sessions, Rollback(s)
    PROVE  IInv'
  <1>1. End(s) /\ UNCHANGED <<asset, runs, gl>>
    BY DEF Rollback
  <1>2. Rows'
    BY <1>1, Ending DEF IInv, Rows
  <1>3. /\ \A a \in AssetIds : AssetOK(a)'
        /\ \A i \in DOMAIN runs' : ChargeOK(runs[i])'
    BY <1>1 DEF IInv, AssetOK, ChargeOK
  <1> QED BY <1>1, <1>2, <1>3, EndKeepsRead, SameRuns, SameStanding DEF IInv

LEMMA FinishPatchKeeps ==
    ASSUME IInv, [Next]_vars, NEW s \in Sessions, FinishPatch(s)
    PROVE  IInv'
  <1> DEFINE b == sess[s].asset
             p == sess[s].price
  <1>1. End(s) /\ UNCHANGED <<runs, gl>> /\ sess[s].op = "patch"
    BY DEF FinishPatch
  <1>2. b \in AssetIds /\ p \in Edited
    BY <1>1, SessionFields DEF IInv, Rows
  <1>3. asset' = asset \/ asset' = [asset EXCEPT ![b].cost = p[1], ![b].salvage = p[2]]
    BY DEF FinishPatch
  <1> HIDE DEF b, p
  <1>4. p[1] \in Nat /\ p[2] \in Nat /\ p[2] <= p[1]
    BY <1>2, Constants
  <1>5. asset' \in [AssetIds -> AssetRow]
    <2>1. asset \in [AssetIds -> AssetRow]
      BY DEF IInv, Rows
    <2> DEFINE row == [asset[b] EXCEPT !.cost = p[1], !.salvage = p[2]]
    <2>2. row \in AssetRow
      BY ONLY <1>2, <1>4, <2>1 DEF AssetRow
    <2>3. asset' = asset \/ asset' = [asset EXCEPT ![b] = row]
      BY <1>3
    <2> HIDE DEF row
    <2> QED BY ONLY <2>1, <2>2, <2>3
  <1>6. \A a \in AssetIds : /\ asset'[a].status = asset[a].status
                            /\ asset'[a].acc = asset[a].acc
                            /\ asset'[a].salvage <= asset'[a].cost
    <2> SUFFICES ASSUME NEW a \in AssetIds
                 PROVE  /\ asset'[a].status = asset[a].status
                        /\ asset'[a].acc = asset[a].acc
                        /\ asset'[a].salvage <= asset'[a].cost
      OBVIOUS
    <2>1. asset \in [AssetIds -> AssetRow] /\ asset[a].salvage <= asset[a].cost
      BY DEF IInv, Rows, AssetOK
    <2>2. asset' = asset \/ a # b \/ asset'[a] = [asset[a] EXCEPT !.cost = p[1], !.salvage = p[2]]
      BY <1>2, <1>3, <2>1
    <2>3. asset' = asset \/ a = b \/ asset'[a] = asset[a]
      BY <1>2, <1>3, <2>1
    <2> QED BY <1>4, <2>1, <2>2, <2>3 DEF AssetRow
  <1>7. Rows'
    BY <1>1, <1>5, Ending DEF IInv, Rows
  <1>8. /\ \A a \in AssetIds : AssetOK(a)'
        /\ \A i \in DOMAIN runs' : ChargeOK(runs[i])'
    BY <1>1, <1>6 DEF IInv, AssetOK, ChargeOK
  <1> QED BY <1>1, <1>6, <1>7, <1>8, EndKeepsRead, SameRuns, SameStanding DEF IInv

LEMMA DisposeKeeps ==
    ASSUME IInv, [Next]_vars, NEW b \in AssetIds, Dispose(b)
    PROVE  IInv'
  <1>1. /\ asset' = [asset EXCEPT ![b].status = "disposed"] /\ UNCHANGED <<runs, sess>>
        /\ asset[b].status = "active"
    BY DEF Dispose
  <1>2. Rows'
    BY <1>1 DEF IInv, Rows, AssetRow
  <1>3. \A a \in AssetIds : /\ (asset'[a].status = "none" <=> asset[a].status = "none")
                            /\ asset'[a].acc = asset[a].acc
                            /\ asset'[a].cost = asset[a].cost
                            /\ asset'[a].salvage = asset[a].salvage
    BY <1>1 DEF IInv, Rows, AssetRow
  <1>4. /\ \A a \in AssetIds : AssetOK(a)'
        /\ \A i \in DOMAIN runs' : ChargeOK(runs[i])'
    BY <1>1, <1>3 DEF IInv, AssetOK, ChargeOK
  <1>5. overlap \subseteq overlap' /\ Posted' = Posted
    BY <1>1, OverlapGrows, SameRuns
  <1>6. ASSUME NEW t \in Sessions
        PROVE  RunningOK(t)'
    <2> SUFFICES ASSUME sess[t].op = "run"
                 PROVE  RunningOK(t)'
      BY <1>1 DEF RunningOK
    <2>1. ChargeOK(sess[t])'
      BY <1>1, <1>3 DEF IInv, RunningOK, ChargeOK
    <2> QED BY <1>1, <1>5, <2>1 DEF IInv, RunningOK
  <1>7. \A t \in Sessions : CancellingOK(t)'
    BY <1>1, <1>5, SameRuns DEF IInv, CancellingOK
  <1>8. ASSUME NEW t \in Sessions
        PROVE  PatchingOK(t)'
    <2> SUFFICES ASSUME sess[t].op = "patch"
                 PROVE  asset'[sess[t].asset].status # "none"
      BY <1>1 DEF PatchingOK
    <2>1. sess[t].asset \in AssetIds
      BY SessionFields DEF IInv, Rows
    <2> QED BY <2>1, <1>3 DEF IInv, PatchingOK
  <1> QED BY <1>1, <1>2, <1>4, <1>6, <1>7, <1>8, SameStanding DEF IInv

(* The new run stands on what was posted when it was computed; that is     *)
(* still posted, as no cancellation overlapped it.                         *)
LEMMA FinishRunKeeps ==
    ASSUME IInv, [Next]_vars, NEW s \in Sessions, FinishRun(s)
    PROVE  IInv'
  <1> DEFINE r == sess[s]
             new == [period |-> r.period, status |-> "posted", charge |-> r.charge,
                     basis |-> r.basis]
             n == Len(runs) + 1
  <1>1. r.op = "run" /\ runs' = Append(runs, new) /\ End(s)
        /\ asset' = [a \in AssetIds |-> [asset[a] EXCEPT !.acc = @ + r.charge[a]]]
    BY DEF FinishRun
  <1>2. r.charge \in [AssetIds -> Nat] /\ r.period \in Periods /\ r.basis \in SUBSET Nat
    BY <1>1, SessionFields DEF IInv, Rows
  <1>3. new \in Run /\ new.status = "posted" /\ new.charge = r.charge /\ new.basis = r.basis
    BY <1>2 DEF Run
  <1>4. ChargeOK(r) /\ ("cancel" \notin overlap => r.basis \subseteq Posted)
    BY <1>1 DEF IInv, RunningOK
  <1> HIDE DEF r, new
  <1>5. /\ runs \in Seq(Run) /\ runs' \in Seq(Run) /\ n \in Nat
        /\ DOMAIN runs' = DOMAIN runs \cup {n} /\ n \notin DOMAIN runs
        /\ \A i \in DOMAIN runs : runs'[i] = runs[i]
        /\ runs'[n] = new
    BY <1>1, <1>3 DEF IInv, Rows
  <1> HIDE DEF n
  <1>6. Posted' = Posted \cup {n}
    BY <1>3, <1>5 DEF Posted
  <1>7. ASSUME NEW a \in AssetIds
        PROVE  /\ asset'[a] \in AssetRow
               /\ asset'[a].status = asset[a].status
               /\ asset'[a].cost = asset[a].cost /\ asset'[a].salvage = asset[a].salvage
               /\ asset'[a].acc = asset[a].acc + r.charge[a]
    <2>1. asset[a] \in AssetRow /\ r.charge[a] \in Nat
      BY <1>2 DEF IInv, Rows
    <2>2. asset'[a] = [asset[a] EXCEPT !.acc = @ + r.charge[a]]
      BY <1>1
    <2> QED BY <2>1, <2>2 DEF AssetRow
  <1>8. Rows'
    <2>1. asset' \in [AssetIds -> AssetRow]
      BY <1>1, <1>7
    <2> QED BY <1>1, <1>5, <2>1, Ending DEF IInv, Rows
  <1>9. \A a \in AssetIds : AssetOK(a)'
    <2> SUFFICES ASSUME NEW a \in AssetIds
                 PROVE  AssetOK(a)'
      OBVIOUS
    <2>1. asset[a].status = "none" => r.charge[a] = 0
      BY <1>4 DEF ChargeOK
    <2>2. AssetOK(a)
      BY DEF IInv
    <2> QED BY <1>7, <2>1, <2>2 DEF AssetOK
  <1>10. ASSUME NEW i \in DOMAIN runs'
         PROVE  ChargeOK(runs[i])'
    BY <1>3, <1>4, <1>5, <1>7 DEF IInv, ChargeOK
  <1>11. \A t \in Sessions : RunningOK(t)' /\ CancellingOK(t)' /\ PatchingOK(t)'
    BY <1>1, <1>5, <1>6, <1>7, EndKeepsRead DEF r
  <1>12. PostedStandsOnPosted'
    <2> SUFFICES ASSUME "cancel" \notin overlap, NEW j \in Posted', NEW i \in runs'[j].basis,
                        Later(i, j)'
                 PROVE  i \in Posted'
      BY OverlapGrows DEF PostedStandsOnPosted
    <2>1. CASE j = n
      BY <1>3, <1>4, <1>5, <1>6, <2>1
    <2>2. CASE j \in Posted
      <3>1. j \in DOMAIN runs /\ runs'[j] = runs[j] /\ i \in DOMAIN runs /\ runs'[i] = runs[i]
        BY <1>5, <2>2, PostedFacts DEF IInv, ChargeOK
      <3>2. Later(i, j)
        BY <3>1 DEF Later
      <3> QED BY <1>6, <2>2, <3>1, <3>2 DEF IInv, PostedStandsOnPosted
    <2> QED BY <1>6, <2>1, <2>2
  <1> QED BY <1>8, <1>9, <1>10, <1>11, <1>12 DEF IInv

(* The run that is cancelled still has no later one above it, unless a run *)
(* overlapped the cancellation.                                            *)
LEMMA FinishCancelKeeps ==
    ASSUME IInv, [Next]_vars, NEW s \in Sessions, FinishCancel(s)
    PROVE  IInv'
  <1> DEFINE i == sess[s].run
  <1>1. /\ sess[s].op = "cancel" /\ runs' = [runs EXCEPT ![i].status = "cancelled"] /\ End(s)
        /\ asset' = [a \in AssetIds |-> [asset[a] EXCEPT !.acc = @ - Reversed(i)[a]]]
    BY DEF FinishCancel
  <1>2. i \in Posted /\ ("cancel" \notin overlap => Cancellable(i))
    BY <1>1 DEF IInv, CancellingOK
  <1>3. i \in DOMAIN runs /\ runs \in Seq(Run) /\ runs[i] \in Run
    BY <1>2, PostedFacts DEF IInv, Rows
  <1>4. runs[i].charge \in [AssetIds -> Nat] /\ Reversed(i) = runs[i].charge
    BY <1>3, RunFields DEF Reversed
  <1>5. \A t \in Sessions \ {s} : sess[t].op = "cancel" => sess[t].run # i
    BY <1>1 DEF IInv, CancellingOK
  <1>6. /\ sess' \in [Sessions -> Session] /\ sess'[s].op = "idle"
        /\ \A t \in Sessions \ {s} : sess'[t] = sess[t]
        /\ overlap' = overlap
    BY <1>1, Ending DEF IInv
  <1> HIDE DEF i
  <1>7. [runs[i] EXCEPT !.status = "cancelled"] \in Run
    BY <1>3 DEF Run
  <1>8. /\ runs' \in Seq(Run) /\ DOMAIN runs' = DOMAIN runs
        /\ \A k \in DOMAIN runs \ {i} : runs'[k] = runs[k]
        /\ runs'[i] = [runs[i] EXCEPT !.status = "cancelled"]
    BY <1>1, <1>3, <1>7
  <1>9. /\ runs'[i].status = "cancelled" /\ runs'[i].charge = runs[i].charge
        /\ runs'[i].period = runs[i].period /\ runs'[i].basis = runs[i].basis
    BY <1>3, <1>8 DEF Run
  <1>10. \A k \in DOMAIN runs : /\ runs'[k].charge = runs[k].charge
                                /\ runs'[k].period = runs[k].period
                                /\ runs'[k].basis = runs[k].basis
    BY <1>8, <1>9
  <1>11. Posted' = Posted \ {i}
    BY <1>8, <1>9 DEF Posted
  <1>12. ASSUME NEW a \in AssetIds
         PROVE  /\ asset'[a] \in AssetRow
                /\ asset'[a].status = asset[a].status
                /\ asset'[a].cost = asset[a].cost /\ asset'[a].salvage = asset[a].salvage
                /\ asset'[a].acc = asset[a].acc - runs[i].charge[a]
    <2>1. asset[a] \in AssetRow /\ runs[i].charge[a] \in Nat
      BY <1>4 DEF IInv, Rows
    <2>2. asset'[a] = [asset[a] EXCEPT !.acc = @ - runs[i].charge[a]]
      BY <1>1, <1>4
    <2> QED BY <2>1, <2>2 DEF AssetRow
  <1>13. Rows'
    <2>1. asset' \in [AssetIds -> AssetRow]
      BY <1>1, <1>12
    <2> QED BY <1>6, <1>8, <2>1 DEF Rows
  <1>14. \A a \in AssetIds : AssetOK(a)'
    <2> SUFFICES ASSUME NEW a \in AssetIds
                 PROVE  AssetOK(a)'
      OBVIOUS
    <2>1. asset[a].status = "none" => runs[i].charge[a] = 0
      BY <1>3 DEF IInv, ChargeOK
    <2>2. AssetOK(a)
      BY DEF IInv
    <2> QED BY <1>12, <2>1, <2>2 DEF AssetOK
  <1>15. ASSUME NEW k \in DOMAIN runs'
         PROVE  ChargeOK(runs[k])'
    BY <1>8, <1>10, <1>12 DEF IInv, ChargeOK
  <1>16. \A t \in Sessions : RunningOK(t)'
    <2> SUFFICES ASSUME NEW t \in Sessions \ {s}, sess[t].op = "run"
                 PROVE  RunningOK(t)'
      BY <1>6 DEF RunningOK
    <2>1. ChargeOK(sess[t])'
      BY <1>6, <1>8, <1>12 DEF IInv, RunningOK, ChargeOK
    <2>2. "cancel" \in overlap
      BY <1>1 DEF IInv, RunningOK
    <2>3. "run" \notin overlap => \A u \in Sessions \ {t} : sess'[u].op # "run"
      BY <1>6 DEF IInv, RunningOK
    <2> QED BY <1>6, <2>1, <2>2, <2>3 DEF RunningOK
  <1>17. \A t \in Sessions : CancellingOK(t)'
    <2> SUFFICES ASSUME NEW t \in Sessions \ {s}, sess[t].op = "cancel"
                 PROVE  CancellingOK(t)'
      BY <1>6 DEF CancellingOK
    <2>0. PICK k : k = sess[t].run
      OBVIOUS
    <2>1. /\ k \in Posted /\ k # i
          /\ \A u \in Sessions \ {t} : sess[u].op = "cancel" => sess[u].run # k
          /\ ("cancel" \notin overlap => Cancellable(k))
      BY <1>5, <2>0 DEF IInv, CancellingOK
    <2>2. Cancellable(k) => Cancellable(k)'
      <3> SUFFICES ASSUME Cancellable(k), NEW j \in Posted', Later(k, j)'
                   PROVE  FALSE
        BY <1>8, <2>1, PostedFacts DEF Cancellable
      <3>1. j \in Posted /\ j \in DOMAIN runs /\ k \in DOMAIN runs
        BY <1>11, <2>1, PostedFacts
      <3>2. Later(k, j)
        BY <1>10, <3>1 DEF Later
      <3> QED BY <3>1, <3>2 DEF Cancellable
    <2>3. k \in Posted' /\ \A u \in Sessions \ {t} : sess'[u].op = "cancel" => sess'[u].run # k
      BY <1>6, <1>11, <2>1
    <2> QED BY <1>6, <2>0, <2>1, <2>2, <2>3 DEF CancellingOK, Cancellable
  <1>18. \A t \in Sessions : PatchingOK(t)'
    <2> SUFFICES ASSUME NEW t \in Sessions \ {s}, sess[t].op = "patch"
                 PROVE  asset'[sess[t].asset].status # "none"
      BY <1>6 DEF PatchingOK
    <2>1. sess[t].asset \in AssetIds
      BY SessionFields DEF IInv, Rows
    <2> QED BY <1>12, <2>1 DEF IInv, PatchingOK
  <1>19. PostedStandsOnPosted'
    <2> SUFFICES ASSUME "cancel" \notin overlap, NEW j \in Posted', NEW k \in runs'[j].basis,
                        Later(k, j)'
                 PROVE  k \in Posted'
      BY <1>6 DEF PostedStandsOnPosted
    <2>1. j \in Posted /\ j \in DOMAIN runs /\ k \in runs[j].basis
      BY <1>10, <1>11, PostedFacts
    <2>2. k \in DOMAIN runs
      BY <2>1 DEF IInv, ChargeOK
    <2>3. Later(k, j)
      BY <1>10, <2>1, <2>2 DEF Later
    <2>4. k \in Posted
      BY <2>1, <2>3 DEF IInv, PostedStandsOnPosted
    <2>5. k # i
      BY <1>2, <2>1, <2>3 DEF Cancellable
    <2> QED BY <1>11, <2>4, <2>5
  <1> QED BY <1>13, <1>14, <1>15, <1>16, <1>17, <1>18, <1>19 DEF IInv

-----------------------------------------------------------------------------
LEMMA InitIInv ==
    ASSUME Init
    PROVE  IInv
  <1>1. Rows
    BY IdleType DEF Init, Rows, AssetRow
  <1>2. /\ \A a \in AssetIds : AssetOK(a)
        /\ \A i \in DOMAIN runs : ChargeOK(runs[i])
        /\ \A s \in Sessions : RunningOK(s) /\ CancellingOK(s) /\ PatchingOK(s)
    BY IdleType DEF Init, AssetOK, ChargeOK, RunningOK, CancellingOK, PatchingOK
  <1>3. PostedStandsOnPosted
    BY DEF Init, PostedStandsOnPosted, Posted
  <1> QED BY <1>1, <1>2, <1>3 DEF IInv

LEMMA StepIInv ==
    ASSUME IInv, [Next]_vars
    PROVE  IInv'
  <1>1. ASSUME NEW a \in AssetIds, NEW p \in Entered, AddAsset(a, p)
        PROVE  IInv'
    BY <1>1, AddAssetKeeps
  <1>2. ASSUME NEW a \in AssetIds, Dispose(a)
        PROVE  IInv'
    BY <1>2, DisposeKeeps
  <1>3. ASSUME NEW s \in Sessions, NEW p \in Periods, BeginRun(s, p)
        PROVE  IInv'
    BY <1>3, BeginRunKeeps
  <1>4. ASSUME NEW s \in Sessions, NEW i \in DOMAIN runs, BeginCancel(s, i)
        PROVE  IInv'
    BY <1>4, BeginCancelKeeps
  <1>5. ASSUME NEW s \in Sessions, NEW a \in AssetIds, NEW p \in Edited, BeginPatch(s, a, p)
        PROVE  IInv'
    BY <1>5, BeginPatchKeeps
  <1>6. ASSUME NEW s \in Sessions, FinishRun(s)
        PROVE  IInv'
    BY <1>6, FinishRunKeeps
  <1>7. ASSUME NEW s \in Sessions, FinishCancel(s)
        PROVE  IInv'
    BY <1>7, FinishCancelKeeps
  <1>8. ASSUME NEW s \in Sessions, FinishPatch(s) \/ Rollback(s)
        PROVE  IInv'
    BY <1>8, FinishPatchKeeps, RollbackKeeps
  <1>9. ASSUME UNCHANGED vars
        PROVE  IInv'
    BY <1>9 DEF vars, IInv, Rows, AssetOK, ChargeOK, RunningOK, CancellingOK, PatchingOK,
                PostedStandsOnPosted, Posted, Cancellable, Later
  <1> QED BY <1>1, <1>2, <1>3, <1>4, <1>5, <1>6, <1>7, <1>8, <1>9 DEF Next

(* What requests in flight have read stays true, but for the overlaps that *)
(* are recorded.                                                           *)
THEOREM AssetsInvariant == Spec => []IInv
  BY InitIInv, StepIInv, PTL DEF Spec

(* Whatever the methods, rates, prices and periods: unless a cancellation  *)
(* overlapped a run, a posted run never stands on a cancelled run of an    *)
(* earlier period (POST /depreciation-runs/:id/cancel looks for later      *)
(* runs, and a run looks at what is posted, each before it writes).        *)
THEOREM PostedStand == Spec => []PostedStandsOnPosted
  <1>1. IInv => PostedStandsOnPosted
    BY DEF IInv
  <1> QED BY <1>1, AssetsInvariant, PTL

-----------------------------------------------------------------------------
(* What the posted runs charge, and what posting or cancelling one does    *)
(* to it.                                                                  *)

LEMMA RunRows ==
    ASSUME Rows
    PROVE  /\ IsFiniteSet(DOMAIN runs) /\ IsFiniteSet(Posted) /\ Posted \in SUBSET DOMAIN runs
           /\ \A i \in DOMAIN runs : runs[i] \in Run /\ runs[i].charge \in [AssetIds -> Nat]
  <1>1. runs \in Seq(Run)
    BY DEF Rows
  <1>2. Len(runs) \in Nat /\ DOMAIN runs = 1..Len(runs) /\ \A i \in DOMAIN runs : runs[i] \in Run
    BY <1>1
  <1>3. IsFiniteSet(DOMAIN runs)
    BY <1>2, FS_Interval
  <1>4. Posted \in SUBSET DOMAIN runs
    BY PostedFacts
  <1> QED BY <1>2, <1>3, <1>4, FS_Subset, RunFields

LEMMA ChargedNat ==
    ASSUME Rows, NEW a \in AssetIds
    PROVE  /\ Charged(a, Posted) \in Nat
           /\ ~CostLocked(a) => Charged(a, Posted) = 0
  <1> DEFINE f == [i \in DOMAIN runs |-> runs[i].charge[a]]
  <1>1. \A i \in Posted : f[i] \in Nat /\ f[i] = runs[i].charge[a]
    BY RunRows
  <1>2. Charged(a, Posted) = SumFunctionOnSet(f, Posted)
    BY DEF Charged
  <1> HIDE DEF f
  <1>3. SumFunctionOnSet(f, Posted) \in Nat
    BY <1>1, RunRows, SumNat
  <1>4. ASSUME ~CostLocked(a) PROVE SumFunctionOnSet(f, Posted) = 0
    <2>1. \A i \in Posted : f[i] = 0
      BY <1>1, <1>4 DEF CostLocked
    <2> QED BY <2>1, RunRows, SumZero
  <1> QED BY <1>2, <1>3, <1>4

LEMMA SameCharged ==
    ASSUME runs' = runs, NEW a \in AssetIds
    PROVE  Charged(a, Posted)' = Charged(a, Posted)
  BY DEF Charged, Posted

LEMMA ChargedNatAfter ==
    ASSUME Rows', NEW a \in AssetIds
    PROVE  Charged(a, Posted)' \in Nat
  <1> DEFINE f == [i \in DOMAIN runs' |-> runs'[i].charge[a]]
  <1>1. /\ runs' \in Seq(Run) /\ Len(runs') \in Nat /\ DOMAIN runs' = 1..Len(runs')
        /\ \A i \in DOMAIN runs' : runs'[i] \in Run
    BY DEF Rows
  <1>2. Posted' \in SUBSET DOMAIN runs' /\ IsFiniteSet(DOMAIN runs')
    BY <1>1, FS_Interval DEF Posted
  <1>3. \A i \in Posted' : f[i] \in Nat
    BY <1>1, <1>2, RunFields
  <1>4. Charged(a, Posted)' = SumFunctionOnSet(f, Posted')
    BY DEF Charged
  <1> HIDE DEF f
  <1> QED BY <1>2, <1>3, <1>4, FS_Subset, SumNat

(* A run that is posted adds its lines, and nothing else changes them.     *)
LEMMA Posting ==
    ASSUME IInv, NEW s \in Sessions, FinishRun(s)
    PROVE  /\ sess[s].op = "run" /\ End(s)
           /\ sess[s].charge \in [AssetIds -> Nat]
           /\ \A a \in AssetIds :
                 /\ asset'[a].status = asset[a].status
                 /\ asset'[a].cost = asset[a].cost /\ asset'[a].salvage = asset[a].salvage
                 /\ asset'[a].acc = asset[a].acc + sess[s].charge[a]
                 /\ Charged(a, Posted)' = Charged(a, Posted) + sess[s].charge[a]
           /\ gl' = [accum |-> gl.accum + Total(sess[s].charge),
                     expense |-> gl.expense + Total(sess[s].charge)]
           /\ Posted \subseteq Posted'
  <1> DEFINE c == sess[s].charge
             new == [period |-> sess[s].period, status |-> "posted", charge |-> c,
                     basis |-> sess[s].basis]
             n == Len(runs) + 1
  <1>1. /\ sess[s].op = "run" /\ runs' = Append(runs, new) /\ End(s)
        /\ asset' = [a \in AssetIds |-> [asset[a] EXCEPT !.acc = @ + c[a]]]
        /\ gl' = [accum |-> gl.accum + Total(c), expense |-> gl.expense + Total(c)]
    BY DEF FinishRun
  <1>2. c \in [AssetIds -> Nat] /\ sess[s].period \in Periods /\ sess[s].basis \in SUBSET Nat
    BY <1>1, SessionFields DEF IInv, Rows
  <1>3. new \in Run /\ new.status = "posted" /\ new.charge = c
    BY <1>2 DEF Run
  <1> HIDE DEF c, new
  <1>4. /\ n \in Nat /\ n \notin DOMAIN runs /\ DOMAIN runs' = DOMAIN runs \cup {n}
        /\ \A i \in DOMAIN runs : runs'[i] = runs[i]
        /\ runs'[n] = new
    <2>1. runs \in Seq(Run)
      BY DEF IInv, Rows
    <2> QED BY <1>1, <1>3, <2>1, AppendRow
  <1> HIDE DEF n
  <1>5. Posted' = Posted \cup {n} /\ n \notin Posted
    BY <1>3, <1>4 DEF Posted
  <1>6. ASSUME NEW a \in AssetIds
        PROVE  /\ asset'[a].status = asset[a].status
               /\ asset'[a].cost = asset[a].cost /\ asset'[a].salvage = asset[a].salvage
               /\ asset'[a].acc = asset[a].acc + c[a]
    <2>1. asset[a] \in AssetRow /\ asset'[a] = [asset[a] EXCEPT !.acc = @ + c[a]]
      BY <1>1 DEF IInv, Rows
    <2> QED BY <2>1 DEF AssetRow
  <1>7. ASSUME NEW a \in AssetIds
        PROVE  Charged(a, Posted)' = Charged(a, Posted) + c[a]
    <2> DEFINE f == [i \in DOMAIN runs |-> runs[i].charge[a]]
               g == [i \in DOMAIN runs' |-> runs'[i].charge[a]]
    <2>1. /\ IsFiniteSet(Posted) /\ Posted \in SUBSET DOMAIN runs
          /\ \A i \in DOMAIN runs : f[i] \in Int
      <3>1. Rows
        BY DEF IInv
      <3> QED BY <3>1, RunRows
    <2>2. \A i \in Posted : g[i] = f[i] /\ f[i] \in Int
      BY <1>4, <2>1
    <2>3. g[n] = c[a] /\ c[a] \in Int
      BY <1>2, <1>3, <1>4
    <2>4. Charged(a, Posted) = SumFunctionOnSet(f, Posted)
      BY DEF Charged
    <2>5. Charged(a, Posted)' = SumFunctionOnSet(g, Posted')
      BY DEF Charged
    <2> HIDE DEF f, g
    <2>6. Charged(a, Posted)' = SumFunctionOnSet(g, Posted \cup {n})
      BY <1>5, <2>5
    <2>7. \A i \in Posted : g[i] \in Int
      BY <2>2
    <2>8. SumFunctionOnSet(g, Posted \cup {n}) = SumFunctionOnSet(g, Posted) + g[n]
      BY <1>5, <2>1, <2>3, <2>7, SumAdd
    <2>9. SumFunctionOnSet(g, Posted) = SumFunctionOnSet(f, Posted)
      BY <2>1, <2>2, SumSame
    <2> QED BY <2>3, <2>4, <2>6, <2>8, <2>9
  <1> QED BY <1>1, <1>2, <1>5, <1>6, <1>7 DEF c

(* A run that is cancelled takes back its lines.                           *)
LEMMA Cancelling ==
    ASSUME IInv, NEW s \in Sessions, FinishCancel(s)
    PROVE  /\ sess[s].op = "cancel" /\ End(s) /\ sess[s].run \in Posted
           /\ runs[sess[s].run].charge \in [AssetIds -> Nat]
           /\ \A a \in AssetIds :
                 /\ asset'[a].status = asset[a].status
                 /\ asset'[a].cost = asset[a].cost /\ asset'[a].salvage = asset[a].salvage
                 /\ asset'[a].acc = asset[a].acc - runs[sess[s].run].charge[a]
                 /\ Charged(a, Posted)' = Charged(a, Posted) - runs[sess[s].run].charge[a]
           /\ gl' = [accum |-> gl.accum - Total(runs[sess[s].run].charge),
                     expense |-> gl.expense - Total(runs[sess[s].run].charge)]
           /\ Posted' = Posted \ {sess[s].run}
  <1> DEFINE k == sess[s].run
             c == runs[k].charge
  <1>1. /\ sess[s].op = "cancel" /\ runs' = [runs EXCEPT ![k].status = "cancelled"] /\ End(s)
        /\ asset' = [a \in AssetIds |-> [asset[a] EXCEPT !.acc = @ - c[a]]]
        /\ gl' = [accum |-> gl.accum - Total(c), expense |-> gl.expense - Total(c)]
    BY DEF FinishCancel, Reversed
  <1>2. k \in Posted
    BY <1>1 DEF IInv, CancellingOK
  <1>3. /\ IsFiniteSet(DOMAIN runs) /\ IsFiniteSet(Posted) /\ Posted \in SUBSET DOMAIN runs
        /\ runs \in Seq(Run)
        /\ \A i \in DOMAIN runs : runs[i] \in Run /\ runs[i].charge \in [AssetIds -> Nat]
    BY RunRows DEF IInv, Rows
  <1>4. c \in [AssetIds -> Nat] /\ k \in DOMAIN runs /\ runs[k] \in Run
    BY <1>2, <1>3
  <1> HIDE DEF k
  <1>5. [runs[k] EXCEPT !.status = "cancelled"] \in Run
    BY <1>4 DEF Run
  <1>6. /\ DOMAIN runs' = DOMAIN runs
        /\ \A i \in DOMAIN runs \ {k} : runs'[i] = runs[i]
        /\ runs'[k] = [runs[k] EXCEPT !.status = "cancelled"]
    BY <1>1, <1>3, <1>4
  <1>7. runs'[k].status = "cancelled" /\ runs'[k].charge = runs[k].charge
    BY <1>4, <1>6 DEF Run
  <1>8. Posted' = Posted \ {k}
    BY <1>6, <1>7 DEF Posted
  <1> HIDE DEF c
  <1>9. ASSUME NEW a \in AssetIds
        PROVE  /\ asset'[a].status = asset[a].status
               /\ asset'[a].cost = asset[a].cost /\ asset'[a].salvage = asset[a].salvage
               /\ asset'[a].acc = asset[a].acc - c[a]
    <2>1. asset[a] \in AssetRow /\ asset'[a] = [asset[a] EXCEPT !.acc = @ - c[a]]
      BY <1>1 DEF IInv, Rows
    <2> QED BY <2>1 DEF AssetRow
  <1>10. ASSUME NEW a \in AssetIds
         PROVE  Charged(a, Posted)' = Charged(a, Posted) - c[a]
    <2> DEFINE f == [i \in DOMAIN runs |-> runs[i].charge[a]]
               g == [i \in DOMAIN runs' |-> runs'[i].charge[a]]
               U == Posted \ {k}
    <2>0. ASSUME NEW i \in DOMAIN runs
          PROVE  runs'[i].charge = runs[i].charge /\ runs[i].charge[a] \in Nat
      BY <1>3, <1>6, <1>7
    <2>1. \A i \in DOMAIN runs : f[i] \in Int /\ g[i] = f[i]
      BY <1>6, <2>0
    <2>2. f[k] = c[a] /\ c[a] \in Int
      BY <1>4 DEF c
    <2>3. Charged(a, Posted) = SumFunctionOnSet(f, Posted)
      BY DEF Charged
    <2>4. Charged(a, Posted)' = SumFunctionOnSet(g, Posted')
      BY DEF Charged
    <2> HIDE DEF f, g
    <2>5. Charged(a, Posted)' = SumFunctionOnSet(g, Posted \ {k})
      BY <1>8, <2>4
    <2>6. IsFiniteSet(Posted) /\ k \in Posted /\ \A i \in Posted : f[i] \in Int /\ g[i] = f[i]
      BY <1>2, <1>3, <2>1
    <2>7. SumFunctionOnSet(f, Posted) = f[k] + SumFunctionOnSet(f, Posted \ {k})
      BY <2>6, SumRemove
    <2>8. IsFiniteSet(U) /\ \A i \in U : f[i] \in Int /\ f[i] = g[i]
      BY <2>6, FS_Subset
    <2>9. SumFunctionOnSet(f, U) = SumFunctionOnSet(g, U) /\ SumFunctionOnSet(f, U) \in Int
      BY <2>8, SumSame, SumInt
    <2> QED BY <2>2, <2>3, <2>5, <2>7, <2>9
  <1> QED BY <1>1, <1>2, <1>4, <1>8, <1>9, <1>10 DEF c, k

-----------------------------------------------------------------------------
(* The posted runs explain what the assets have accumulated and what the   *)
(* ledger has expensed.                                                    *)

BooksInv == gl \in [accum : Int, expense : Int] /\ RunsExplainBooks

LEMMA TotalInt ==
    ASSUME NEW c \in [AssetIds -> Nat]
    PROVE  Total(c) = SumFunctionOnSet(c, AssetIds) /\ Total(c) \in Nat
  <1>1. IsFiniteSet(AssetIds) /\ DOMAIN c = AssetIds /\ \A a \in AssetIds : c[a] \in Nat
    BY AssetsAssumption
  <1>2. Total(c) = SumFunctionOnSet(c, AssetIds)
    BY <1>1, Zenon DEF Total, SumFunction
  <1> QED BY <1>1, <1>2, SumNat

Expensed == SumFunction([a \in AssetIds |-> Charged(a, Posted)])

(* What is expensed moves by the total of what each asset is charged.      *)
LEMMA ExpensedMoves ==
    ASSUME Rows, NEW c \in [AssetIds -> Nat]
    PROVE  /\ (\A a \in AssetIds : Charged(a, Posted)' = Charged(a, Posted) + c[a])
                => Expensed' = Expensed + Total(c)
           /\ (\A a \in AssetIds : Charged(a, Posted)' = Charged(a, Posted) - c[a])
                => Expensed' = Expensed - Total(c)
           /\ (\A a \in AssetIds : Charged(a, Posted)' = Charged(a, Posted))
                => Expensed' = Expensed
           /\ Expensed \in Int
  <1> DEFINE f == [a \in AssetIds |-> Charged(a, Posted)]
             g == [a \in AssetIds |-> Charged(a, Posted)']
  <1>1. /\ IsFiniteSet(AssetIds) /\ DOMAIN f = AssetIds /\ DOMAIN g = AssetIds
    BY AssetsAssumption
  <1>2. Expensed = SumFunctionOnSet(f, DOMAIN f) /\ Expensed' = SumFunctionOnSet(g, DOMAIN g)
    BY DEF Expensed, SumFunction
  <1>3. \A a \in AssetIds : Charged(a, Posted) \in Nat
    BY ChargedNat
  <1>4. \A a \in AssetIds : /\ f[a] = Charged(a, Posted) /\ g[a] = Charged(a, Posted)'
                            /\ f[a] \in Int /\ c[a] \in Int
    BY <1>3
  <1> HIDE DEF f, g
  <1>5. Expensed = SumFunctionOnSet(f, AssetIds) /\ Expensed' = SumFunctionOnSet(g, AssetIds)
    BY <1>1, <1>2, Zenon
  <1>6. SumFunctionOnSet(f, AssetIds) \in Int
    BY <1>1, <1>4, SumInt
  <1>7. ASSUME \A a \in AssetIds : Charged(a, Posted)' = Charged(a, Posted) + c[a]
        PROVE  Expensed' = Expensed + Total(c)
    <2>1. \A a \in AssetIds : f[a] \in Int /\ c[a] \in Int /\ g[a] = f[a] + c[a]
      BY <1>4, <1>7
    <2> QED BY <1>1, <1>5, <2>1, SumPlus, TotalInt
  <1>8. ASSUME \A a \in AssetIds : Charged(a, Posted)' = Charged(a, Posted) - c[a]
        PROVE  Expensed' = Expensed - Total(c)
    <2>1. \A a \in AssetIds : g[a] \in Int /\ c[a] \in Int /\ f[a] = g[a] + c[a]
      BY <1>4, <1>8
    <2>2. SumFunctionOnSet(f, AssetIds) = SumFunctionOnSet(g, AssetIds) + SumFunctionOnSet(c, AssetIds)
      BY <1>1, <2>1, SumPlus
    <2>3. SumFunctionOnSet(g, AssetIds) \in Int
      BY <1>1, <2>1, SumInt
    <2> QED BY <1>5, <2>2, <2>3, TotalInt
  <1>9. ASSUME \A a \in AssetIds : Charged(a, Posted)' = Charged(a, Posted)
        PROVE  Expensed' = Expensed
    <2>1. \A a \in AssetIds : f[a] \in Int /\ f[a] = g[a]
      BY <1>4, <1>9
    <2> QED BY <1>1, <1>5, <2>1, SumSame
  <1> QED BY <1>5, <1>6, <1>7, <1>8, <1>9

LEMMA PatchKeepsStatus ==
    ASSUME IInv, NEW s \in Sessions, FinishPatch(s), NEW a \in AssetIds
    PROVE  asset'[a].status = asset[a].status /\ asset'[a].acc = asset[a].acc
  <1> DEFINE b == sess[s].asset
             p == sess[s].price
  <1>1. asset' = asset \/ asset' = [asset EXCEPT ![b].cost = p[1], ![b].salvage = p[2]]
    BY DEF FinishPatch
  <1>2. b \in AssetIds /\ asset \in [AssetIds -> AssetRow]
    BY SessionFields DEF FinishPatch, IInv, Rows
  <1> HIDE DEF b, p
  <1>3. \/ asset'[a] = asset[a]
        \/ asset'[a] = [asset[a] EXCEPT !.cost = p[1], !.salvage = p[2]]
    BY <1>1, <1>2
  <1> QED BY <1>2, <1>3 DEF AssetRow

(* Steps that neither post nor cancel a run leave the runs, the expense    *)
(* and what the assets have accumulated alone.                             *)
LEMMA OtherSteps ==
    ASSUME IInv, gl \in [accum : Int, expense : Int], [Next]_vars,
           \A s \in Sessions : ~FinishRun(s) /\ ~FinishCancel(s)
    PROVE  /\ runs' = runs /\ gl' \in [accum : Int, expense : Int]
           /\ gl'.expense = gl.expense
           /\ \A a \in AssetIds : asset'[a].acc = asset[a].acc
  <1>1. ASSUME NEW b \in AssetIds, NEW p \in Entered, AddAsset(b, p)
        PROVE  /\ runs' = runs /\ gl' = gl
               /\ \A a \in AssetIds : asset'[a].acc = asset[a].acc
    BY <1>1 DEF AddAsset, IInv, Rows, AssetOK
  <1>2. ASSUME NEW b \in AssetIds, Dispose(b)
        PROVE  /\ runs' = runs /\ gl' \in [accum : Int, expense : Int]
               /\ gl'.expense = gl.expense
               /\ \A a \in AssetIds : asset'[a].acc = asset[a].acc
    <2>1. /\ asset \in [AssetIds -> AssetRow] /\ asset' = [asset EXCEPT ![b].status = "disposed"]
          /\ runs' = runs /\ gl' = [gl EXCEPT !.accum = @ - asset[b].acc]
      BY <1>2 DEF Dispose, Cleared, IInv, Rows
    <2>2. \A a \in AssetIds : asset'[a].acc = asset[a].acc /\ asset[a].acc \in Int
      BY <2>1 DEF AssetRow
    <2> QED BY <2>1, <2>2
  <1>3. ASSUME NEW s \in Sessions, FinishPatch(s)
        PROVE  /\ runs' = runs /\ gl' = gl
               /\ \A a \in AssetIds : asset'[a].acc = asset[a].acc
    <2>1. runs' = runs /\ gl' = gl
      BY <1>3 DEF FinishPatch
    <2> QED BY <1>3, <2>1, PatchKeepsStatus
  <1>4. ASSUME \/ UNCHANGED vars
               \/ \E s \in Sessions :
                     \/ \E p \in Periods : BeginRun(s, p)
                     \/ \E i \in DOMAIN runs : BeginCancel(s, i)
                     \/ \E a \in AssetIds, p \in Edited : BeginPatch(s, a, p)
                     \/ Rollback(s)
        PROVE  UNCHANGED <<asset, runs, gl>>
    BY <1>4 DEF vars, BeginRun, BeginCancel, BeginPatch, Rollback
  <1> QED BY <1>1, <1>2, <1>3, <1>4 DEF Next

LEMMA InitBooks ==
    ASSUME Init
    PROVE  BooksInv
  <1>1. Rows
    BY InitIInv DEF IInv
  <1>2. \A a \in AssetIds : ~CostLocked(a) /\ asset[a].acc = 0
    BY DEF Init, CostLocked, Posted
  <1>3. \A a \in AssetIds : Charged(a, Posted) = 0
    BY <1>1, <1>2, ChargedNat
  <1> DEFINE f == [a \in AssetIds |-> Charged(a, Posted)]
  <1>4. Expensed = SumFunctionOnSet(f, DOMAIN f)
    BY DEF Expensed, SumFunction
  <1>5. DOMAIN f = AssetIds /\ (\A a \in AssetIds : f[a] = 0) /\ IsFiniteSet(AssetIds)
    BY <1>3, AssetsAssumption
  <1> HIDE DEF f
  <1>6. Expensed = SumFunctionOnSet(f, AssetIds)
    BY <1>4, <1>5, Zenon
  <1>7. Expensed = 0
    BY <1>5, <1>6, SumZero
  <1>8. gl \in [accum : Int, expense : Int] /\ gl.expense = 0
    BY DEF Init
  <1> QED BY <1>2, <1>3, <1>7, <1>8 DEF BooksInv, RunsExplainBooks, Expensed

(* By posting and cancelling, the books and the runs move by the same      *)
(* lines.                                                                  *)
LEMMA StepBooks ==
    ASSUME IInv, BooksInv, [Next]_vars
    PROVE  BooksInv'
  <1>1. /\ Rows /\ gl \in [accum : Int, expense : Int] /\ gl.expense = Expensed
        /\ \A a \in AssetIds : asset[a].acc = Charged(a, Posted)
    BY DEF IInv, BooksInv, RunsExplainBooks, Expensed
  <1> SUFFICES /\ gl' \in [accum : Int, expense : Int] /\ gl'.expense = Expensed'
               /\ \A a \in AssetIds : asset'[a].acc = Charged(a, Posted)'
    BY DEF BooksInv, RunsExplainBooks, Expensed
  <1>2. ASSUME NEW s \in Sessions, FinishRun(s)
        PROVE  /\ gl' \in [accum : Int, expense : Int] /\ gl'.expense = Expensed'
               /\ \A a \in AssetIds : asset'[a].acc = Charged(a, Posted)'
    <2> DEFINE c == sess[s].charge
    <2>1. /\ c \in [AssetIds -> Nat]
          /\ \A a \in AssetIds : /\ asset'[a].acc = asset[a].acc + c[a]
                                 /\ Charged(a, Posted)' = Charged(a, Posted) + c[a]
          /\ gl' = [accum |-> gl.accum + Total(c), expense |-> gl.expense + Total(c)]
      BY <1>2, Posting
    <2> HIDE DEF c
    <2>2. Total(c) \in Nat /\ Expensed' = Expensed + Total(c)
      BY <1>1, <2>1, TotalInt, ExpensedMoves
    <2> QED BY <1>1, <2>1, <2>2
  <1>3. ASSUME NEW s \in Sessions, FinishCancel(s)
        PROVE  /\ gl' \in [accum : Int, expense : Int] /\ gl'.expense = Expensed'
               /\ \A a \in AssetIds : asset'[a].acc = Charged(a, Posted)'
    <2> DEFINE c == runs[sess[s].run].charge
    <2>1. /\ c \in [AssetIds -> Nat]
          /\ \A a \in AssetIds : /\ asset'[a].acc = asset[a].acc - c[a]
                                 /\ Charged(a, Posted)' = Charged(a, Posted) - c[a]
          /\ gl' = [accum |-> gl.accum - Total(c), expense |-> gl.expense - Total(c)]
      BY <1>3, Cancelling
    <2> HIDE DEF c
    <2>2. Total(c) \in Nat /\ Expensed' = Expensed - Total(c)
      BY <1>1, <2>1, TotalInt, ExpensedMoves
    <2> QED BY <1>1, <2>1, <2>2
  <1>4. ASSUME \A s \in Sessions : ~FinishRun(s) /\ ~FinishCancel(s)
        PROVE  /\ gl' \in [accum : Int, expense : Int] /\ gl'.expense = Expensed'
               /\ \A a \in AssetIds : asset'[a].acc = Charged(a, Posted)'
    <2>1. /\ runs' = runs /\ gl' \in [accum : Int, expense : Int]
          /\ gl'.expense = gl.expense
          /\ \A a \in AssetIds : asset'[a].acc = asset[a].acc
      BY <1>1, <1>4, OtherSteps
    <2>2. \A a \in AssetIds : Charged(a, Posted)' = Charged(a, Posted)
      BY <2>1, SameCharged
    <2>3. PICK c \in [AssetIds -> Nat] : TRUE
      <3>1. [a \in AssetIds |-> 0] \in [AssetIds -> Nat]
        OBVIOUS
      <3> QED BY <3>1
    <2>4. Expensed' = Expensed
      BY <1>1, <2>2, <2>3, ExpensedMoves
    <2> QED BY <1>1, <2>1, <2>2, <2>4
  <1> QED BY <1>2, <1>3, <1>4

THEOREM BooksInvariant == Spec => [](IInv /\ BooksInv)
  BY InitIInv, StepIInv, InitBooks, StepBooks, PTL DEF Spec

(* Whatever the methods, rates, prices and periods, and however runs and   *)
(* cancellations overlap: an asset has accumulated, and the ledger has     *)
(* expensed, what the posted runs charge (createDepreciationRun moves both *)
(* by its lines, cancelDepreciationRun takes back the lines it finds).     *)
THEOREM RunsExplain == Spec => []RunsExplainBooks
  <1>1. BooksInv => RunsExplainBooks
    BY DEF BooksInv
  <1> QED BY <1>1, BooksInvariant, PTL

-----------------------------------------------------------------------------
(* Depreciation stops at the salvage value: no asset has accumulated more  *)
(* than may be depreciated, nor will it once the run in flight is posted;  *)
(* and an edit of a cost that was found unlocked meets an asset that has   *)
(* accumulated nothing.                                                    *)

NoOverlap == overlap \cap {"run", "patch"} = {}
Room(a) == asset[a].cost - asset[a].salvage - asset[a].acc

RunWithin(s) == sess[s].op = "run" => \A a \in AssetIds : sess[s].charge[a] <= Room(a)
PatchWithin(s) ==
    sess[s].op = "patch" =>
        /\ \A t \in Sessions : sess[t].op # "run"
        /\ (~sess[s].locked => asset[sess[s].asset].acc = 0)

Within ==
    NoOverlap => /\ \A a \in AssetIds : Room(a) >= 0
                 /\ \A s \in Sessions : RunWithin(s) /\ PatchWithin(s)

LEMMA AccumulatedNat ==
    ASSUME IInv, BooksInv, NEW a \in AssetIds
    PROVE  /\ asset[a].acc \in Nat /\ asset[a].cost \in Nat /\ asset[a].salvage \in Nat
           /\ (~CostLocked(a) => asset[a].acc = 0)
  <1>1. Rows /\ asset[a].acc = Charged(a, Posted) /\ asset[a] \in AssetRow
    BY DEF IInv, Rows, BooksInv, RunsExplainBooks
  <1> QED BY <1>1, ChargedNat, AssetFields

LEMMA NoOverlapBefore ==
    ASSUME [Next]_vars, NoOverlap'
    PROVE  NoOverlap
  BY OverlapGrows DEF NoOverlap

(* Steps that start no run and no edit, charge nothing and change no cost. *)
LEMMA WithinKept ==
    ASSUME IInv, BooksInv, Within, [Next]_vars,
           \A a \in AssetIds : /\ asset'[a].cost = asset[a].cost
                               /\ asset'[a].salvage = asset[a].salvage
                               /\ asset'[a].acc \in Nat /\ asset'[a].acc <= asset[a].acc,
           \A s \in Sessions : sess'[s] = sess[s] \/ sess'[s].op \in {"idle", "cancel"}
    PROVE  Within'
  <1> SUFFICES ASSUME NoOverlap'
               PROVE  /\ \A a \in AssetIds : Room(a)' >= 0
                      /\ \A s \in Sessions : RunWithin(s)' /\ PatchWithin(s)'
    BY DEF Within
  <1>1. /\ \A a \in AssetIds : Room(a) >= 0
        /\ \A s \in Sessions : RunWithin(s) /\ PatchWithin(s)
    BY NoOverlapBefore DEF Within
  <1>2. \A a \in AssetIds : /\ asset[a].acc \in Nat
                            /\ asset[a].cost \in Nat /\ asset[a].salvage \in Nat
    BY AccumulatedNat
  <1>3. \A a \in AssetIds : Room(a) \in Int /\ Room(a)' \in Int /\ Room(a)' >= Room(a)
    BY <1>2 DEF Room
  <1>4. \A a \in AssetIds : Room(a)' >= 0
    BY <1>1, <1>3
  <1>5. ASSUME NEW s \in Sessions
        PROVE  RunWithin(s)'
    <2> SUFFICES ASSUME sess[s].op = "run", sess'[s] = sess[s], NEW a \in AssetIds
                 PROVE  sess[s].charge[a] <= Room(a)'
      BY DEF RunWithin
    <2>1. sess[s].charge[a] \in Nat
      BY SessionFields DEF IInv, Rows
    <2>2. sess[s].charge[a] <= Room(a)
      BY <1>1 DEF RunWithin
    <2> QED BY <1>3, <2>1, <2>2
  <1>6. ASSUME NEW s \in Sessions
        PROVE  PatchWithin(s)'
    <2> SUFFICES ASSUME sess[s].op = "patch", sess'[s] = sess[s]
                 PROVE  PatchWithin(s)'
      BY DEF PatchWithin
    <2>1. /\ \A t \in Sessions : sess[t].op # "run"
          /\ (~sess[s].locked => asset[sess[s].asset].acc = 0)
      BY <1>1 DEF PatchWithin
    <2>2. \A t \in Sessions : sess'[t].op # "run"
      BY <2>1
    <2>3. sess[s].asset \in AssetIds
      BY SessionFields DEF IInv, Rows
    <2> DEFINE b == sess[s].asset
    <2>4. asset[b].acc = 0 => asset'[b].acc = 0
      BY <1>2, <2>3
    <2> QED BY <2>1, <2>2, <2>4 DEF PatchWithin
  <1> QED BY <1>4, <1>5, <1>6

LEMMA SameAssetsWithin ==
    ASSUME IInv, BooksInv, Within, [Next]_vars, UNCHANGED asset,
           \A s \in Sessions : sess'[s] = sess[s] \/ sess'[s].op \in {"idle", "cancel"}
    PROVE  Within'
  <1>1. \A a \in AssetIds : asset[a].acc \in Nat
    BY AccumulatedNat
  <1> QED BY <1>1, WithinKept

(* Nothing in flight charges or edits an asset that is not there yet.      *)
LEMMA AddAssetWithin ==
    ASSUME IInv, BooksInv, Within, [Next]_vars, NEW b \in AssetIds, NEW p \in Entered,
           AddAsset(b, p)
    PROVE  Within'
  <1> DEFINE new == [status |-> "active", cost |-> p[1], salvage |-> p[2], acc |-> 0]
  <1>1. asset' = [asset EXCEPT ![b] = new] /\ UNCHANGED <<runs, sess, overlap>>
        /\ asset[b].status = "none"
    BY DEF AddAsset
  <1>2. \A a \in AssetIds : asset'[a] = IF a = b THEN new ELSE asset[a]
    BY <1>1 DEF IInv, Rows
  <1>3. /\ p[1] \in Nat /\ p[2] \in Nat /\ p[2] <= p[1]
        /\ new.cost = p[1] /\ new.salvage = p[2] /\ new.acc = 0
    BY Constants
  <1> HIDE DEF new
  <1>4. \A s \in Sessions : sess[s].op = "run" => sess[s].charge[b] = 0
    BY <1>1 DEF IInv, RunningOK, ChargeOK
  <1>5. \A s \in Sessions : sess[s].op = "patch" => sess[s].asset # b
    BY <1>1 DEF IInv, PatchingOK
  <1>6. \A s \in Sessions : sess[s].op = "patch" => sess[s].asset \in AssetIds
    BY SessionFields DEF IInv, Rows
  <1> SUFFICES ASSUME NoOverlap
               PROVE  /\ \A a \in AssetIds : Room(a)' >= 0
                      /\ \A s \in Sessions : RunWithin(s)' /\ PatchWithin(s)'
    BY <1>1 DEF Within, NoOverlap
  <1>7. /\ \A a \in AssetIds : Room(a) >= 0
        /\ \A s \in Sessions : RunWithin(s) /\ PatchWithin(s)
    BY DEF Within
  <1>8. \A a \in AssetIds : IF a = b THEN Room(a)' \in Nat ELSE Room(a)' = Room(a)
    BY <1>2, <1>3 DEF Room
  <1>9. \A s \in Sessions : RunWithin(s)'
    BY <1>1, <1>4, <1>7, <1>8 DEF RunWithin
  <1>10. \A s \in Sessions : PatchWithin(s)'
    BY <1>1, <1>2, <1>5, <1>6, <1>7 DEF PatchWithin
  <1> QED BY <1>7, <1>8, <1>9, <1>10

(* A run in flight alone charges each asset at most what was left of it.   *)
LEMMA BeginRunWithin ==
    ASSUME IInv, BooksInv, Within, [Next]_vars, NEW s \in Sessions, NEW p \in Periods,
           BeginRun(s, p)
    PROVE  Within'
  <1> DEFINE charge == [a \in AssetIds |-> calculateForAsset(a, asset[a])]
             request == [op |-> "run", period |-> p, charge |-> charge, basis |-> Posted]
  <1>1. Start(s, request) /\ UNCHANGED <<asset, runs, gl>>
    BY DEF BeginRun
  <1>2. /\ sess'[s] = request /\ overlap' = overlap \cup InFlight
        /\ \A t \in Sessions \ {s} : sess'[t] = sess[t]
    BY <1>1 DEF Start, Overlapping, IInv, Rows
  <1>3. request.charge = charge /\ request.op = "run"
    OBVIOUS
  <1>4. ASSUME NEW a \in AssetIds
        PROVE  charge[a] \in Nat /\ (charge[a] = 0 \/ charge[a] <= Room(a))
    BY <1>4, Capped DEF IInv, Rows, AssetOK, maxDepreciable, Room
  <1> HIDE DEF charge, request
  <1> SUFFICES ASSUME NoOverlap'
               PROVE  /\ \A a \in AssetIds : Room(a)' >= 0
                      /\ \A t \in Sessions : RunWithin(t)' /\ PatchWithin(t)'
    BY DEF Within
  <1>5. \A a \in AssetIds : Room(a) >= 0 /\ Room(a)' = Room(a)
    BY <1>1, NoOverlapBefore DEF Within, Room
  <1>6. \A t \in Sessions : sess[t].op # "run" /\ sess[t].op # "patch"
    BY <1>2, InFlightFacts DEF NoOverlap
  <1>7. RunWithin(s)' /\ PatchWithin(s)'
    BY <1>2, <1>3, <1>4, <1>5 DEF RunWithin, PatchWithin
  <1>8. \A t \in Sessions \ {s} : RunWithin(t)' /\ PatchWithin(t)'
    BY <1>2, <1>6 DEF RunWithin, PatchWithin
  <1> QED BY <1>5, <1>7, <1>8

(* An edit that starts while no run is in flight, and finds the cost       *)
(* unlocked, finds no posted charge.                                       *)
LEMMA BeginPatchWithin ==
    ASSUME IInv, BooksInv, Within, [Next]_vars, NEW s \in Sessions, NEW b \in AssetIds,
           NEW p \in Edited, BeginPatch(s, b, p)
    PROVE  Within'
  <1> DEFINE request == [op |-> "patch", asset |-> b, locked |-> CostLocked(b), price |-> p]
  <1>1. Start(s, request) /\ UNCHANGED <<asset, runs, gl>>
    BY DEF BeginPatch
  <1>2. /\ sess'[s] = request
        /\ overlap' = overlap \cup (IF "run" \in InFlight THEN {"patch"} ELSE {})
        /\ \A t \in Sessions \ {s} : sess'[t] = sess[t]
    BY <1>1 DEF Start, Overlapping, IInv, Rows
  <1>3. request.op = "patch" /\ request.asset = b /\ request.locked = CostLocked(b)
    OBVIOUS
  <1> HIDE DEF request
  <1> SUFFICES ASSUME NoOverlap'
               PROVE  /\ \A a \in AssetIds : Room(a)' >= 0
                      /\ \A t \in Sessions : RunWithin(t)' /\ PatchWithin(t)'
    BY DEF Within
  <1>4. /\ \A a \in AssetIds : Room(a) >= 0 /\ Room(a)' = Room(a)
        /\ \A t \in Sessions : RunWithin(t) /\ PatchWithin(t)
    BY <1>1, NoOverlapBefore DEF Within, Room
  <1>5. \A t \in Sessions : sess[t].op # "run"
    BY <1>2, InFlightFacts DEF NoOverlap
  <1>6. \A t \in Sessions : sess'[t].op # "run"
    BY <1>2, <1>3, <1>5
  <1>7. ~CostLocked(b) => asset[b].acc = 0
    BY AccumulatedNat
  <1>8. RunWithin(s)' /\ PatchWithin(s)'
    BY <1>1, <1>2, <1>3, <1>6, <1>7 DEF RunWithin, PatchWithin
  <1>9. \A t \in Sessions \ {s} : RunWithin(t)' /\ PatchWithin(t)'
    BY <1>1, <1>2, <1>4, <1>6 DEF RunWithin, PatchWithin
  <1> QED BY <1>4, <1>8, <1>9

(* An edit of a cost meets an asset that has accumulated nothing.          *)
LEMMA FinishPatchWithin ==
    ASSUME IInv, BooksInv, Within, [Next]_vars, NEW s \in Sessions, FinishPatch(s)
    PROVE  Within'
  <1> DEFINE b == sess[s].asset
             p == sess[s].price
             locked == sess[s].locked
  <1>1. /\ sess[s].op = "patch" /\ End(s) /\ runs' = runs
        /\ asset' = IF locked THEN asset
                    ELSE [asset EXCEPT ![b].cost = p[1], ![b].salvage = p[2]]
    BY DEF FinishPatch
  <1>2. b \in AssetIds /\ p \in Edited /\ locked \in BOOLEAN
    BY <1>1, SessionFields DEF IInv, Rows
  <1>3. /\ sess'[s].op = "idle" /\ overlap' = overlap
        /\ \A t \in Sessions \ {s} : sess'[t] = sess[t]
    BY <1>1, Ending DEF IInv
  <1>4. p[1] \in Nat /\ p[2] \in Nat /\ p[2] <= p[1]
    BY <1>2, Constants
  <1> SUFFICES ASSUME NoOverlap'
               PROVE  /\ \A a \in AssetIds : Room(a)' >= 0
                      /\ \A t \in Sessions : RunWithin(t)' /\ PatchWithin(t)'
    BY DEF Within
  <1>5. /\ \A a \in AssetIds : Room(a) >= 0
        /\ \A t \in Sessions : RunWithin(t) /\ PatchWithin(t)
    BY NoOverlapBefore DEF Within
  <1>6. /\ \A t \in Sessions : sess[t].op # "run"
        /\ (~locked => asset[b].acc = 0)
    BY <1>1, <1>5 DEF PatchWithin
  <1> HIDE DEF b, p, locked
  <1>7. ASSUME NEW a \in AssetIds
        PROVE  asset'[a].acc = asset[a].acc /\ Room(a)' >= 0
    <2>1. asset[a] \in AssetRow /\ asset \in [AssetIds -> AssetRow]
      BY DEF IInv, Rows
    <2>2. CASE a # b \/ locked
      <3>1. asset'[a] = asset[a]
        BY <1>1, <1>2, <2>1, <2>2
      <3> QED BY <1>5, <3>1 DEF Room
    <2>3. CASE a = b /\ ~locked
      <3>1. asset'[a] = [asset[a] EXCEPT !.cost = p[1], !.salvage = p[2]]
        BY <1>1, <1>2, <2>1, <2>3
      <3>2. /\ asset'[a].acc = asset[a].acc
            /\ asset'[a].cost = p[1] /\ asset'[a].salvage = p[2]
        BY <2>1, <3>1 DEF AssetRow
      <3> QED BY <1>4, <1>6, <2>3, <3>2 DEF Room
    <2> QED BY <2>2, <2>3
  <1>8. \A t \in Sessions : sess'[t].op # "run"
    BY <1>3, <1>6
  <1>9. ASSUME NEW t \in Sessions
        PROVE  PatchWithin(t)'
    <2> SUFFICES ASSUME sess[t].op = "patch", sess'[t] = sess[t]
                 PROVE  PatchWithin(t)'
      BY <1>3 DEF PatchWithin
    <2>1. sess[t].asset \in AssetIds
      BY SessionFields DEF IInv, Rows
    <2>2. ~sess[t].locked => asset[sess[t].asset].acc = 0
      BY <1>5 DEF PatchWithin
    <2>3. asset'[sess[t].asset].acc = asset[sess[t].asset].acc
      BY <1>7, <2>1
    <2> QED BY <1>8, <2>2, <2>3 DEF PatchWithin
  <1> QED BY <1>7, <1>8, <1>9 DEF RunWithin

LEMMA FinishRunWithin ==
    ASSUME IInv, BooksInv, Within, [Next]_vars, NEW s \in Sessions, FinishRun(s)
    PROVE  Within'
  <1> DEFINE c == sess[s].charge
  <1>1. /\ sess[s].op = "run" /\ End(s) /\ c \in [AssetIds -> Nat]
        /\ \A a \in AssetIds :
              /\ asset'[a].cost = asset[a].cost /\ asset'[a].salvage = asset[a].salvage
              /\ asset'[a].acc = asset[a].acc + c[a]
    BY Posting
  <1>2. /\ sess'[s].op = "idle" /\ \A t \in Sessions \ {s} : sess'[t] = sess[t]
        /\ overlap' = overlap
    BY <1>1, Ending DEF IInv
  <1> SUFFICES ASSUME NoOverlap'
               PROVE  /\ \A a \in AssetIds : Room(a)' >= 0
                      /\ \A t \in Sessions : RunWithin(t)' /\ PatchWithin(t)'
    BY DEF Within
  <1>3. NoOverlap
    BY NoOverlapBefore
  <1>4. \A t \in Sessions \ {s} : sess[t].op # "run"
    BY <1>1, <1>3 DEF NoOverlap, IInv, RunningOK
  <1>5. \A t \in Sessions : sess[t].op # "patch"
    BY <1>1, <1>3 DEF Within, PatchWithin
  <1>6. \A a \in AssetIds : c[a] <= Room(a)
    BY <1>1, <1>3 DEF Within, RunWithin
  <1> HIDE DEF c
  <1>7. \A a \in AssetIds : Room(a)' >= 0
    <2> SUFFICES ASSUME NEW a \in AssetIds
                 PROVE  Room(a)' >= 0
      OBVIOUS
    <2>1. asset[a].acc \in Nat /\ asset[a].cost \in Nat /\ asset[a].salvage \in Nat
      BY AccumulatedNat
    <2>2. c[a] \in Nat
      BY <1>1
    <2> QED BY <1>1, <1>6, <2>1, <2>2 DEF Room
  <1> QED BY <1>2, <1>4, <1>5, <1>7 DEF RunWithin, PatchWithin

LEMMA FinishCancelWithin ==
    ASSUME IInv, BooksInv, Within, [Next]_vars, NEW s \in Sessions, FinishCancel(s)
    PROVE  Within'
  <1> DEFINE c == runs[sess[s].run].charge
  <1>1. /\ End(s) /\ c \in [AssetIds -> Nat]
        /\ \A a \in AssetIds :
              /\ asset'[a].cost = asset[a].cost /\ asset'[a].salvage = asset[a].salvage
              /\ asset'[a].acc = asset[a].acc - c[a]
    BY Cancelling
  <1> HIDE DEF c
  <1>2. \A t \in Sessions : sess'[t] = sess[t] \/ sess'[t].op \in {"idle", "cancel"}
    BY <1>1, Ending DEF IInv
  <1>3. ASSUME NEW a \in AssetIds
        PROVE  asset'[a].acc \in Nat /\ asset'[a].acc <= asset[a].acc
    <2>1. asset[a].acc \in Nat /\ c[a] \in Nat
      BY <1>1, AccumulatedNat
    <2>2. IInv' /\ BooksInv'
      BY StepIInv, StepBooks
    <2>3. Rows' /\ asset'[a].acc = Charged(a, Posted)'
      BY <2>2 DEF IInv, BooksInv, RunsExplainBooks
    <2>4. Charged(a, Posted)' \in Nat
      BY <2>3, ChargedNatAfter
    <2> QED BY <1>1, <2>1, <2>3, <2>4
  <1> QED BY <1>1, <1>2, <1>3, WithinKept

LEMMA DisposeWithin ==
    ASSUME IInv, BooksInv, Within, [Next]_vars, NEW b \in AssetIds, Dispose(b)
    PROVE  Within'
  <1>1. asset' = [asset EXCEPT ![b].status = "disposed"] /\ sess' = sess
    BY DEF Dispose
  <1>2. \A a \in AssetIds : /\ asset'[a].cost = asset[a].cost
                            /\ asset'[a].salvage = asset[a].salvage
                            /\ asset'[a].acc = asset[a].acc
    BY <1>1 DEF IInv, Rows, AssetRow
  <1>3. \A a \in AssetIds : asset'[a].acc \in Nat /\ asset'[a].acc <= asset[a].acc
    BY <1>2, AccumulatedNat
  <1> QED BY <1>1, <1>2, <1>3, WithinKept

LEMMA StepWithin ==
    ASSUME IInv, BooksInv, Within, [Next]_vars
    PROVE  Within'
  <1>1. ASSUME NEW a \in AssetIds, NEW p \in Entered, AddAsset(a, p)
        PROVE  Within'
    BY <1>1, AddAssetWithin
  <1>2. ASSUME NEW a \in AssetIds, Dispose(a)
        PROVE  Within'
    BY <1>2, DisposeWithin
  <1>3. ASSUME NEW s \in Sessions, NEW p \in Periods, BeginRun(s, p)
        PROVE  Within'
    BY <1>3, BeginRunWithin
  <1>4. ASSUME NEW s \in Sessions, NEW i \in DOMAIN runs, BeginCancel(s, i)
        PROVE  Within'
    <2>1. UNCHANGED asset /\ sess' = [sess EXCEPT ![s] = [op |-> "cancel", run |-> i]]
      BY <1>4 DEF BeginCancel, Start
    <2>2. \A t \in Sessions : sess'[t] = sess[t] \/ sess'[t].op \in {"idle", "cancel"}
      BY <2>1 DEF IInv, Rows
    <2> QED BY <2>1, <2>2, SameAssetsWithin
  <1>5. ASSUME NEW s \in Sessions, NEW a \in AssetIds, NEW p \in Edited, BeginPatch(s, a, p)
        PROVE  Within'
    BY <1>5, BeginPatchWithin
  <1>6. ASSUME NEW s \in Sessions, FinishRun(s)
        PROVE  Within'
    BY <1>6, FinishRunWithin
  <1>7. ASSUME NEW s \in Sessions, FinishCancel(s)
        PROVE  Within'
    BY <1>7, FinishCancelWithin
  <1>8. ASSUME NEW s \in Sessions, FinishPatch(s)
        PROVE  Within'
    BY <1>8, FinishPatchWithin
  <1>9. ASSUME NEW s \in Sessions, Rollback(s)
        PROVE  Within'
    <2>1. /\ UNCHANGED asset
          /\ \A t \in Sessions : sess'[t] = sess[t] \/ sess'[t].op \in {"idle", "cancel"}
      BY <1>9, Ending DEF Rollback, IInv
    <2> QED BY <2>1, SameAssetsWithin
  <1>10. ASSUME UNCHANGED vars
         PROVE  Within'
    BY <1>10, SameAssetsWithin DEF vars
  <1> QED BY <1>1, <1>2, <1>3, <1>4, <1>5, <1>6, <1>7, <1>8, <1>9, <1>10 DEF Next

(* Whatever the methods, rates, prices and periods: depreciation stops at  *)
(* the salvage value, unless two runs overlapped or a run overlapped an    *)
(* edit of a cost (calculateForAsset caps the charge before the            *)
(* transaction of the run begins; PATCH /fixed-assets/:id looks for posted *)
(* runs before its UPDATE).                                                *)
THEOREM StopsAtSalvage == Spec => []NeverOverDepreciated
  <1>1. Init => Within
    BY IdleType DEF Init, Within, Room, RunWithin, PatchWithin
  <1>2. IInv /\ BooksInv /\ Within /\ [Next]_vars => Within'
    BY StepWithin
  <1>3. IInv /\ BooksInv /\ Within => NeverOverDepreciated
    BY AccumulatedNat DEF Within, NoOverlap, Room, NeverOverDepreciated
  <1> QED BY <1>1, <1>2, <1>3, BooksInvariant, PTL DEF Spec

-----------------------------------------------------------------------------
(* The accumulated depreciation in the ledger moves with that of the       *)
(* active assets.                                                          *)

(* What a run in flight charges, it charges to active assets, unless a     *)
(* disposal overlapped it.                                                 *)
Charges ==
    "dispose" \notin overlap =>
        \A s \in Sessions : sess[s].op = "run" =>
            \A a \in AssetIds : sess[s].charge[a] > 0 => asset[a].status = "active"

(* Only a disposal takes the status of an asset away, and only a start     *)
(* brings a run into flight.                                               *)
LEMMA Statuses ==
    ASSUME IInv, [Next]_vars
    PROVE  /\ \/ \E b \in AssetIds : Dispose(b)
              \/ \A a \in AssetIds : asset[a].status = "active" => asset'[a].status = "active"
           /\ \/ \E s \in Sessions, p \in Periods : BeginRun(s, p)
              \/ \A s \in Sessions : sess'[s] = sess[s] \/ sess'[s].op # "run"
  <1>1. ASSUME NEW b \in AssetIds, NEW p \in Entered, AddAsset(b, p)
        PROVE  /\ \A a \in AssetIds : asset[a].status = "active" => asset'[a].status = "active"
               /\ sess' = sess
    BY <1>1 DEF AddAsset, IInv, Rows
  <1>2. ASSUME NEW b \in AssetIds, Dispose(b)
        PROVE  sess' = sess
    BY <1>2 DEF Dispose
  <1>3. ASSUME NEW s \in Sessions, NEW p \in Periods, BeginRun(s, p)
        PROVE  asset' = asset
    BY <1>3 DEF BeginRun
  <1>4. ASSUME NEW s \in Sessions, NEW i \in DOMAIN runs, BeginCancel(s, i)
        PROVE  asset' = asset /\ \A t \in Sessions : sess'[t] = sess[t] \/ sess'[t].op # "run"
    <2>1. asset' = asset /\ sess' = [sess EXCEPT ![s] = [op |-> "cancel", run |-> i]]
      BY <1>4 DEF BeginCancel, Start
    <2> QED BY <2>1 DEF IInv, Rows
  <1>5. ASSUME NEW s \in Sessions, NEW b \in AssetIds, NEW p \in Edited, BeginPatch(s, b, p)
        PROVE  asset' = asset /\ \A t \in Sessions : sess'[t] = sess[t] \/ sess'[t].op # "run"
    <2> DEFINE request == [op |-> "patch", asset |-> b, locked |-> CostLocked(b), price |-> p]
    <2>1. asset' = asset /\ sess' = [sess EXCEPT ![s] = request] /\ request.op = "patch"
      BY <1>5 DEF BeginPatch, Start
    <2> HIDE DEF request
    <2> QED BY <2>1 DEF IInv, Rows
  <1>6. ASSUME NEW s \in Sessions, FinishRun(s)
        PROVE  /\ \A a \in AssetIds : asset'[a].status = asset[a].status
               /\ \A t \in Sessions : sess'[t] = sess[t] \/ sess'[t].op # "run"
    BY <1>6, Posting, Ending DEF IInv
  <1>7. ASSUME NEW s \in Sessions, FinishCancel(s)
        PROVE  /\ \A a \in AssetIds : asset'[a].status = asset[a].status
               /\ \A t \in Sessions : sess'[t] = sess[t] \/ sess'[t].op # "run"
    BY <1>7, Cancelling, Ending DEF IInv
  <1>8. ASSUME NEW s \in Sessions, FinishPatch(s)
        PROVE  /\ \A a \in AssetIds : asset'[a].status = asset[a].status
               /\ \A t \in Sessions : sess'[t] = sess[t] \/ sess'[t].op # "run"
    <2>1. End(s)
      BY <1>8 DEF FinishPatch
    <2> QED BY <1>8, <2>1, PatchKeepsStatus, Ending DEF IInv
  <1>9. ASSUME NEW s \in Sessions, Rollback(s)
        PROVE  asset' = asset /\ \A t \in Sessions : sess'[t] = sess[t] \/ sess'[t].op # "run"
    BY <1>9, Ending DEF Rollback, IInv
  <1>10. ASSUME UNCHANGED vars
         PROVE  asset' = asset /\ sess' = sess
    BY <1>10 DEF vars
  <1> QED BY <1>1, <1>2, <1>3, <1>4, <1>5, <1>6, <1>7, <1>8, <1>9, <1>10 DEF Next

LEMMA StepCharges ==
    ASSUME IInv, Charges, [Next]_vars
    PROVE  Charges'
  <1> SUFFICES ASSUME "dispose" \notin overlap', NEW s \in Sessions, sess'[s].op = "run",
                      NEW a \in AssetIds, sess'[s].charge[a] > 0
               PROVE  asset'[a].status = "active"
    BY DEF Charges
  <1>1. ASSUME NEW t \in Sessions, NEW p \in Periods, BeginRun(t, p), t = s
        PROVE  asset'[a].status = "active"
    <2> DEFINE charge == [b \in AssetIds |-> calculateForAsset(b, asset[b])]
               request == [op |-> "run", period |-> p, charge |-> charge, basis |-> Posted]
    <2>1. Start(s, request) /\ asset' = asset
      BY <1>1 DEF BeginRun
    <2>2. sess'[s].charge = charge
      BY <2>1 DEF Start, IInv, Rows
    <2>3. charge[a] > 0 => asset[a].status = "active"
      BY DEF calculateForAsset
    <2> QED BY <2>1, <2>2, <2>3
  <1>2. CASE sess'[s] = sess[s]
    <2>1. asset[a].status = "active"
      BY <1>2, OverlapGrows DEF Charges
    <2>2. ASSUME NEW b \in AssetIds, Dispose(b)
          PROVE  FALSE
      <3>1. "run" \in InFlight
        BY <1>2, InFlightFacts
      <3> QED BY <2>2, <3>1 DEF Dispose, Overlapping
    <2> QED BY <2>1, <2>2, Statuses
  <1>3. ASSUME NEW t \in Sessions, NEW p \in Periods, BeginRun(t, p), t # s
        PROVE  sess'[s] = sess[s]
    BY <1>3 DEF BeginRun, Start, IInv, Rows
  <1> QED BY <1>1, <1>2, <1>3, Statuses

(* A sum over the active assets, as a sum over all of them.                *)
Counted(rows) == [a \in AssetIds |-> IF rows[a].status = "active" THEN rows[a].acc ELSE 0]

LEMMA CountedSum ==
    ASSUME NEW rows, \A a \in AssetIds : rows[a].acc \in Int
    PROVE  SumFunction([a \in {b \in AssetIds : rows[b].status = "active"} |-> rows[a].acc])
             = SumFunctionOnSet(Counted(rows), AssetIds)
  <1> DEFINE D == {b \in AssetIds : rows[b].status = "active"}
             f == [a \in D |-> rows[a].acc]
             g == Counted(rows)
  <1>1. IsFiniteSet(AssetIds) /\ D \in SUBSET AssetIds
    BY AssetsAssumption
  <1>2. IsFiniteSet(D) /\ IsFiniteSet(AssetIds \ D)
    BY <1>1, FS_Subset
  <1>3. /\ \A a \in AssetIds : g[a] \in Int
        /\ \A a \in D : f[a] \in Int /\ f[a] = g[a]
        /\ \A a \in AssetIds \ D : g[a] = 0
    BY DEF Counted
  <1>4. SumFunction(f) = SumFunctionOnSet(f, DOMAIN f)
    BY DEF SumFunction
  <1>5. DOMAIN f = D
    OBVIOUS
  <1> HIDE DEF D, f, g
  <1>6. SumFunction(f) = SumFunctionOnSet(f, D)
    BY <1>4, <1>5, Zenon
  <1>7. SumFunctionOnSet(f, D) = SumFunctionOnSet(g, D)
    BY <1>2, <1>3, SumSame
  <1>8. SumFunctionOnSet(g, AssetIds) = SumFunctionOnSet(g, D) + SumFunctionOnSet(g, AssetIds \ D)
    BY <1>1, <1>3, SumSplit
  <1>9. SumFunctionOnSet(g, AssetIds \ D) = 0 /\ SumFunctionOnSet(g, D) \in Int
    <2>1. \A a \in D : g[a] \in Int
      BY <1>3
    <2> QED BY <1>2, <1>3, <2>1, SumZero, SumInt
  <1> QED BY <1>6, <1>7, <1>8, <1>9 DEF f, g, D

(* What the active assets have accumulated moves by the total of what each *)
(* one that counts moves by.                                               *)
LEMMA ActiveMoves ==
    ASSUME NEW d, \A a \in AssetIds : /\ asset[a].acc \in Int /\ d[a] \in Int
                                      /\ asset'[a].acc \in Int
                                      /\ Counted(asset')[a] = Counted(asset)[a] + d[a]
    PROVE  /\ ActiveAccumulated \in Int
           /\ ActiveAccumulated' = ActiveAccumulated + SumFunctionOnSet(d, AssetIds)
  <1>1. ActiveAccumulated = SumFunctionOnSet(Counted(asset), AssetIds)
    BY CountedSum DEF ActiveAccumulated
  <1>2. ActiveAccumulated' = SumFunctionOnSet(Counted(asset'), AssetIds)
    BY CountedSum DEF ActiveAccumulated
  <1>3. IsFiniteSet(AssetIds) /\ \A a \in AssetIds : Counted(asset)[a] \in Int
    BY AssetsAssumption DEF Counted
  <1>4. SumFunctionOnSet(Counted(asset), AssetIds) \in Int
    BY <1>3, SumInt
  <1>5. SumFunctionOnSet(Counted(asset'), AssetIds)
          = SumFunctionOnSet(Counted(asset), AssetIds) + SumFunctionOnSet(d, AssetIds)
    BY <1>3, SumPlus
  <1> QED BY <1>1, <1>2, <1>4, <1>5

LEMMA Follow ==
    ASSUME IInv, BooksInv, Charges, Charges', [Next]_vars
    PROVE  \/ CancelsDisposed \/ "dispose" \in overlap'
           \/ gl'.accum - gl.accum = ActiveAccumulated' - ActiveAccumulated
  <1> SUFFICES ASSUME ~CancelsDisposed, "dispose" \notin overlap'
               PROVE  gl'.accum - gl.accum = ActiveAccumulated' - ActiveAccumulated
    OBVIOUS
  <1>1. /\ \A a \in AssetIds : asset[a].acc \in Int /\ asset[a] \in AssetRow
        /\ \A a \in AssetIds : asset'[a].acc \in Int
    <2>1. IInv'
      BY StepIInv
    <2> QED BY <2>1, AssetFields DEF IInv, Rows
  <1>2. gl.accum \in Int /\ gl.expense \in Int
    BY DEF BooksInv
  <1>3. IsFiniteSet(AssetIds)
    BY AssetsAssumption
  <1>4. ASSUME gl' = gl, \A a \in AssetIds : Counted(asset')[a] = Counted(asset)[a]
        PROVE  gl'.accum - gl.accum = ActiveAccumulated' - ActiveAccumulated
    <2> DEFINE d == [a \in AssetIds |-> 0]
    <2>1. \A a \in AssetIds : d[a] = 0
      OBVIOUS
    <2>2. \A a \in AssetIds : d[a] \in Int /\ Counted(asset')[a] = Counted(asset)[a] + d[a]
      BY <1>1, <1>4, <2>1 DEF Counted
    <2> HIDE DEF d
    <2>3. SumFunctionOnSet(d, AssetIds) = 0
      BY <1>3, <2>1, SumZero
    <2>4. /\ ActiveAccumulated \in Int
          /\ ActiveAccumulated' = ActiveAccumulated + SumFunctionOnSet(d, AssetIds)
      BY <1>1, <2>2, ActiveMoves
    <2> QED BY <1>2, <1>4, <2>3, <2>4
  <1>5. ASSUME NEW b \in AssetIds, NEW p \in Entered, AddAsset(b, p)
        PROVE  gl' = gl /\ \A a \in AssetIds : Counted(asset')[a] = Counted(asset)[a]
    <2> DEFINE new == [status |-> "active", cost |-> p[1], salvage |-> p[2], acc |-> 0]
    <2>1. /\ asset \in [AssetIds -> AssetRow] /\ asset' = [asset EXCEPT ![b] = new] /\ gl' = gl
          /\ asset[b].status = "none" /\ new.acc = 0
      BY <1>5 DEF AddAsset, IInv, Rows
    <2> HIDE DEF new
    <2>2. \A a \in AssetIds : asset'[a] = IF a = b THEN new ELSE asset[a]
      BY <2>1
    <2> QED BY <2>1, <2>2 DEF Counted
  <1>6. ASSUME NEW b \in AssetIds, Dispose(b)
        PROVE  gl'.accum - gl.accum = ActiveAccumulated' - ActiveAccumulated
    <2> DEFINE z == [a \in AssetIds |-> 0]
               d == [a \in AssetIds |-> IF a = b THEN 0 - asset[b].acc ELSE 0]
    <2>1. /\ asset \in [AssetIds -> AssetRow] /\ asset' = [asset EXCEPT ![b].status = "disposed"]
          /\ asset[b].status = "active" /\ gl' = [gl EXCEPT !.accum = @ - asset[b].acc]
      BY <1>6 DEF Dispose, Cleared, IInv, Rows
    <2>2. /\ \A a \in AssetIds : /\ d[a] \in Int /\ z[a] = 0
                                 /\ (a # b => d[a] = z[a])
          /\ d[b] = 0 - asset[b].acc
      BY <1>1
    <2>3. \A a \in AssetIds : d[a] = IF a = b THEN 0 - asset[b].acc ELSE 0
      OBVIOUS
    <2> HIDE DEF d, z
    <2>4. SumFunctionOnSet(d, AssetIds) = 0 - asset[b].acc
      <3>1. SumFunctionOnSet(z, AssetIds) = 0
        BY <1>3, <2>2, SumZero
      <3>2. \A a \in AssetIds : z[a] \in Int /\ d[a] \in Int /\ (a # b => d[a] = z[a])
        BY <2>2
      <3>3. SumFunctionOnSet(d, AssetIds) = SumFunctionOnSet(z, AssetIds) + d[b] - z[b]
        BY <1>3, <3>2, SumChange
      <3> QED BY <1>1, <2>2, <3>1, <3>3
    <2>5. \A a \in AssetIds : Counted(asset')[a] = Counted(asset)[a] + d[a]
      <3> SUFFICES ASSUME NEW a \in AssetIds
                   PROVE  Counted(asset')[a] = Counted(asset)[a] + d[a]
        OBVIOUS
      <3>1. CASE a = b
        <4>1. asset'[a] = [asset[a] EXCEPT !.status = "disposed"]
          BY <2>1, <3>1
        <4>2. asset'[a].status = "disposed"
          BY <4>1 DEF AssetRow
        <4> QED BY <1>1, <2>1, <2>3, <3>1, <4>2 DEF Counted
      <3>2. CASE a # b
        <4>1. asset'[a] = asset[a]
          BY <2>1, <3>2
        <4> QED BY <1>1, <2>3, <3>2, <4>1 DEF Counted
      <3> QED BY <3>1, <3>2
    <2>6. /\ ActiveAccumulated \in Int
          /\ ActiveAccumulated' = ActiveAccumulated + SumFunctionOnSet(d, AssetIds)
      BY <1>1, <2>2, <2>5, ActiveMoves
    <2>7. gl'.accum = gl.accum - asset[b].acc
      BY <1>2, <2>1 DEF BooksInv
    <2> QED BY <1>1, <1>2, <2>4, <2>6, <2>7
  <1>7. ASSUME NEW s \in Sessions, FinishRun(s)
        PROVE  gl'.accum - gl.accum = ActiveAccumulated' - ActiveAccumulated
    <2> DEFINE c == sess[s].charge
    <2>1. /\ sess[s].op = "run" /\ c \in [AssetIds -> Nat]
          /\ \A a \in AssetIds : /\ asset'[a].status = asset[a].status
                                 /\ asset'[a].acc = asset[a].acc + c[a]
          /\ gl' = [accum |-> gl.accum + Total(c), expense |-> gl.expense + Total(c)]
      BY <1>7, Posting
    <2>2. \A a \in AssetIds : c[a] > 0 => asset[a].status = "active"
      BY <2>1, OverlapGrows DEF Charges
    <2> HIDE DEF c
    <2>3. \A a \in AssetIds : c[a] \in Int /\ Counted(asset')[a] = Counted(asset)[a] + c[a]
      BY <1>1, <2>1, <2>2 DEF Counted
    <2>4. /\ ActiveAccumulated \in Int
          /\ ActiveAccumulated' = ActiveAccumulated + SumFunctionOnSet(c, AssetIds)
      BY <1>1, <2>3, ActiveMoves
    <2>5. Total(c) = SumFunctionOnSet(c, AssetIds) /\ Total(c) \in Nat
      BY <2>1, TotalInt
    <2> QED BY <1>2, <2>1, <2>4, <2>5
  <1>8. ASSUME NEW s \in Sessions, FinishCancel(s)
        PROVE  gl'.accum - gl.accum = ActiveAccumulated' - ActiveAccumulated
    <2> DEFINE k == sess[s].run
               c == runs[k].charge
               d == [a \in AssetIds |-> -c[a]]
    <2>1. /\ c \in [AssetIds -> Nat] /\ k \in Posted /\ Posted' = Posted \ {k}
          /\ \A a \in AssetIds : /\ asset'[a].status = asset[a].status
                                 /\ asset'[a].acc = asset[a].acc - c[a]
          /\ gl' = [accum |-> gl.accum - Total(c), expense |-> gl.expense - Total(c)]
      BY <1>8, Cancelling
    <2>2. \A a \in AssetIds : c[a] > 0 => asset[a].status = "active"
      <3> SUFFICES ASSUME NEW a \in AssetIds, c[a] > 0, asset[a].status # "active"
                   PROVE  FALSE
        OBVIOUS
      <3>1. k \in DOMAIN runs
        BY <2>1, PostedFacts
      <3>2. asset[a].status # "none"
        BY <3>1 DEF IInv, ChargeOK
      <3>3. asset[a].status = "disposed"
        BY <1>1, <3>2, AssetFields
      <3> QED BY <2>1, <3>3 DEF CancelsDisposed
    <2>3. \A a \in AssetIds : d[a] = -c[a] /\ c[a] \in Int /\ d[a] \in Int
      BY <2>1
    <2> HIDE DEF c, d, k
    <2>4. \A a \in AssetIds : Counted(asset')[a] = Counted(asset)[a] + d[a]
      BY <1>1, <2>1, <2>2, <2>3 DEF Counted
    <2>5. /\ ActiveAccumulated \in Int
          /\ ActiveAccumulated' = ActiveAccumulated + SumFunctionOnSet(d, AssetIds)
      BY <1>1, <2>3, <2>4, ActiveMoves
    <2>6. Total(c) = SumFunctionOnSet(c, AssetIds) /\ Total(c) \in Nat
      BY <2>1, TotalInt
    <2>7. SumFunctionOnSet(d, AssetIds) = 0 - SumFunctionOnSet(c, AssetIds)
      BY <1>3, <2>3, SumMinus
    <2> QED BY <1>2, <2>1, <2>5, <2>6, <2>7
  <1>9. ASSUME NEW s \in Sessions, FinishPatch(s)
        PROVE  gl' = gl /\ \A a \in AssetIds : Counted(asset')[a] = Counted(asset)[a]
    <2>1. gl' = gl
      BY <1>9 DEF FinishPatch
    <2> QED BY <1>9, <2>1, PatchKeepsStatus DEF Counted
  <1>10. ASSUME UNCHANGED <<asset, gl>>
         PROVE  gl' = gl /\ \A a \in AssetIds : Counted(asset')[a] = Counted(asset)[a]
    BY <1>10
  <1>11. ASSUME \/ UNCHANGED vars
                \/ \E s \in Sessions :
                     \/ \E p \in Periods : BeginRun(s, p)
                     \/ \E i \in DOMAIN runs : BeginCancel(s, i)
                     \/ \E a \in AssetIds, p \in Edited : BeginPatch(s, a, p)
                     \/ Rollback(s)
         PROVE  UNCHANGED <<asset, gl>>
    BY <1>11 DEF vars, BeginRun, BeginCancel, BeginPatch, Rollback
  <1> QED BY <1>4, <1>5, <1>6, <1>7, <1>8, <1>9, <1>10, <1>11 DEF Next

(* Whatever the methods, rates, prices and periods: in every step, the     *)
(* accumulated depreciation in the ledger moves with that of the active    *)
(* assets, unless a disposal overlapped a run or a run of an asset that is *)
(* disposed by then is cancelled (the disposal clears what the asset has   *)
(* accumulated when it locks it).                                          *)
THEOREM FollowAssets == Spec => BooksFollowAssets
  <1>1. Init => Charges
    BY IdleType DEF Init, Charges
  <1>2. IInv /\ Charges /\ [Next]_vars => Charges'
    BY StepCharges
  <1>3. IInv /\ BooksInv /\ Charges /\ Charges' /\ [Next]_vars
          => [CancelsDisposed \/ "dispose" \in overlap'
                 \/ gl'.accum - gl.accum = ActiveAccumulated' - ActiveAccumulated]_vars
    BY Follow
  <1> QED BY <1>1, <1>2, <1>3, BooksInvariant, PTL DEF Spec, BooksFollowAssets

=============================================================================
