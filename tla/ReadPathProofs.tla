--------------------------- MODULE ReadPathProofs ---------------------------
(***************************************************************************)
(* Proofs about the two ways in which a page gets to see data: the read    *)
(* path, for any requests, URLs, cache keys, lives of the entries and      *)
(* number of writes; and, at the end, the socket that tells it of changes, *)
(* for any hooks, rooms, sockets and bounds.                               *)
(***************************************************************************)
EXTENDS ReadPath, PageRooms, TableLemmas

-----------------------------------------------------------------------------
(* The inductive invariant, in four parts.                                 *)

Entry == [val : Value, life : Nat]

Types ==
    /\ req \in [Requests -> Request]
    /\ DOMAIN inflight \subseteq Urls
    /\ \A u \in DOMAIN inflight : inflight[u] \subseteq Requests
    /\ DOMAIN recent \subseteq Urls /\ \A u \in DOMAIN recent : recent[u] \in Entry
    /\ DOMAIN store \subseteq Keys /\ \A k \in DOMAIN store : store[k] \in Entry
    /\ DOMAIN inFlight \subseteq Keys /\ \A k \in DOMAIN inFlight : inFlight[k] \in Requests
    /\ db \in 0..MaxWrites /\ events \in 0..db
    /\ window \in Nat /\ lost \subseteq Requests

(* The lists of waiting requests: whoever is on one waits, for its URL.    *)
ListsOK ==
    /\ \A u \in DOMAIN inflight : \A x \in inflight[u] :
          req[x].stage = "waiting" /\ Url[x] = u
    /\ \A r \in Requests : req[r].stage = "idle" => ~req[r].headersSent /\ ~req[r].closed
    /\ WaitersHaveLeader

Announced == db - events

(* The computations: a computation in the table has not been overtaken by  *)
(* an invalidation, so what it has read is good for whoever joins it; and  *)
(* what is overtaken is never joined again.                                *)
PromiseOK(k) ==
    LET o == req[inFlight[k]]
    IN  /\ o.stage \in {"computing", "read"} /\ Key[Url[inFlight[k]]] = k
        /\ o.stage = "read" => ~o.raced
ReadOK(r) ==
    /\ req[r].since <= db
    /\ req[r].raced => req[r].stage = "read"
    /\ req[r].stage = "read" =>
          /\ ~req[r].val.missed => req[r].val.ver >= req[r].since
          /\ ~req[r].val.missed /\ ~req[r].raced => req[r].val.ver >= Announced
JoinedOK(x) ==
    req[x].stage = "joined" =>
        LET o == req[req[x].owner]
        IN  /\ o.stage \in {"computing", "read"}
            /\ o.stage = "read" /\ ~o.val.missed => o.val.ver >= req[x].since
StoredOK(k) == store[k].val.ok /\ ~store[k].val.missed => store[k].val.ver >= Announced

PromisesOK ==
    /\ \A k \in DOMAIN inFlight : PromiseOK(k)
    /\ \A r \in Requests : ReadOK(r) /\ JoinedOK(r)
    /\ \A k \in DOMAIN store : StoredOK(k)
    /\ SeesAnnouncedWrites

(* The ages: as an entry ages, its life shortens.                          *)
AgesOK ==
    /\ \A r \in Requests : req[r].val.age <= MaxCompute + CacheTtl
    /\ \A r \in Requests : req[r].stage = "read" => req[r].val.age <= MaxCompute
    /\ \A k \in DOMAIN store : store[k].val.age + store[k].life <= MaxCompute + CacheTtl
    /\ \A u \in DOMAIN recent :
          /\ recent[u].life >= 1
          /\ recent[u].val.age + recent[u].life <= MaxCompute + CacheTtl + DedupTtl

IInv == Types /\ ListsOK /\ PromisesOK /\ AgesOK

-----------------------------------------------------------------------------
(* Requests and maps.                                                      *)

LEMMA Constants ==
    /\ CacheTtl \in Nat /\ MaxCompute \in Nat /\ MaxWrites \in Nat
    /\ DedupTtl \in Nat \ {0} /\ EventTtl \in Nat \ {0}
    /\ \A r \in Requests : Url[r] \in Urls /\ Key[Url[r]] \in Keys
  BY ReadPathAssumption DEF Keys

LEMMA Values ==
    /\ Failure \in Value /\ ~Failure.ok /\ Failure.age = 0
    /\ \A v \in 0..MaxWrites : /\ Read(v) \in Value /\ Read(v).ver = v /\ Read(v).age = 0
                               /\ ~Read(v).missed /\ Read(v).ok
    /\ \A v \in Value : \A m \in BOOLEAN :
          /\ Missed(v, m) \in Value /\ Missed(v, m).ver = v.ver /\ Missed(v, m).age = v.age
          /\ Missed(v, m).ok = v.ok /\ Missed(v, m).missed = (v.missed \/ m)
    /\ \A v \in Value :
          /\ Older(v) \in Value /\ Older(v).ver = v.ver /\ Older(v).age = v.age + 1
          /\ Older(v).ok = v.ok /\ Older(v).missed = v.missed
    /\ \A r \in Requests : /\ Fresh(r) \in Request /\ Fresh(r).stage = "idle"
                           /\ ~Fresh(r).headersSent /\ ~Fresh(r).closed /\ ~Fresh(r).raced /\ Fresh(r).val = Failure /\ Fresh(r).since = 0
  BY Constants DEF Value, Failure, Read, Missed, Older, Fresh, Request, Stages

LEMMA Fields ==
    ASSUME NEW q \in Request
    PROVE  /\ q.stage \in Stages /\ q.val \in Value /\ q.owner \in Requests
           /\ q.raced \in BOOLEAN /\ q.since \in 0..MaxWrites
           /\ q.headersSent \in BOOLEAN /\ q.closed \in BOOLEAN
           /\ q.val.ok \in BOOLEAN /\ q.val.ver \in 0..MaxWrites /\ q.val.age \in Nat
           /\ q.val.missed \in BOOLEAN
  BY DEF Request, Value

-----------------------------------------------------------------------------
(* What a step that leaves the requests alone preserves.                   *)

(* The lists and the computations depend on the requests, on the tables    *)
(* and on what is announced, and on nothing else.                          *)
LEMMA ListsFrame ==
    ASSUME ListsOK, req' = req, inflight' = inflight, lost' = lost
    PROVE  ListsOK'
  BY DEF ListsOK, WaitersHaveLeader, Leads, Waiters, Has

LEMMA PromisesFrame ==
    ASSUME PromisesOK, req' = req, inFlight' = inFlight, store' = store, db' = db,
           events' = events
    PROVE  PromisesOK'
  BY DEF PromisesOK, PromiseOK, ReadOK, JoinedOK, StoredOK, SeesAnnouncedWrites, Announced

LEMMA AgesFrame ==
    ASSUME AgesOK, req' = req, store' = store, recent' = recent
    PROVE  AgesOK'
  BY DEF AgesOK

(* A request joins no list and leaves none.                                *)
LEMMA SameLists ==
    ASSUME Types, ListsOK, inflight' = inflight, lost' = lost,
           \A x \in Requests :
              /\ req'[x].headersSent = req[x].headersSent /\ req'[x].closed = req[x].closed
              /\ \/ req'[x].stage = req[x].stage
                 \/ req[x].stage \in Handler /\ req'[x].stage \in Handler
    PROVE  ListsOK'
<1>1. \A u \in DOMAIN inflight : \A x \in inflight[u] : x \in Requests
  BY DEF Types
<1>2. \A u \in DOMAIN inflight : \A x \in inflight[u] : req'[x].stage = "waiting" /\ Url[x] = u
  BY <1>1 DEF ListsOK, Handler
<1>3. \A r \in Requests : req'[r].stage = "idle" => ~req'[r].headersSent /\ ~req'[r].closed
  BY DEF ListsOK, Handler
<1>4. \A r \in Requests : req'[r].stage = "waiting" => r \in lost \/ r \in Waiters(Url[r])
  BY DEF ListsOK, WaitersHaveLeader, Leads, Handler
<1>5. \A u \in DOMAIN inflight : \E r \in Requests :
         Url[r] = u /\ Leads(r)'
  BY DEF ListsOK, WaitersHaveLeader, Leads
<1>. QED
  BY <1>2, <1>3, <1>4, <1>5 DEF ListsOK, WaitersHaveLeader, Leads, Waiters, Has

(* Requests that have nothing to do with a computation come and go.        *)
LEMMA SamePromises ==
    ASSUME Types, PromisesOK, inFlight' = inFlight, store' = store, db' = db, events' = events,
           \A x \in Requests :
              \/ /\ req'[x].stage = req[x].stage /\ req'[x].val = req[x].val
                 /\ req'[x].owner = req[x].owner /\ req'[x].raced = req[x].raced
                 /\ req'[x].since = req[x].since
              \/ /\ req[x].stage \notin {"computing", "read"}
                 /\ req'[x].stage \notin {"computing", "read", "joined", "ready"}
                 /\ req'[x].since <= db /\ ~req'[x].raced
    PROVE  PromisesOK'
<1>1. ASSUME NEW k \in DOMAIN inFlight PROVE PromiseOK(k)'
  BY DEF Types, PromisesOK, PromiseOK
<1>2. ASSUME NEW r \in Requests PROVE ReadOK(r)'
  BY DEF PromisesOK, ReadOK, Announced
<1>3. ASSUME NEW x \in Requests PROVE JoinedOK(x)'
  <2>. SUFFICES ASSUME req'[x].stage = "joined" PROVE JoinedOK(x)'
    BY DEF JoinedOK
  <2>1. req[x].stage = "joined" /\ req'[x].owner = req[x].owner /\ req'[x].since = req[x].since
    OBVIOUS
  <2>2. req[x].owner \in Requests
    BY Fields DEF Types
  <2>. QED
    BY <2>1, <2>2 DEF PromisesOK, JoinedOK
<1>4. ASSUME NEW k \in DOMAIN store PROVE StoredOK(k)'
  BY DEF PromisesOK, StoredOK, Announced
<1>5. SeesAnnouncedWrites'
  BY DEF PromisesOK, SeesAnnouncedWrites
<1>. QED
  BY <1>1, <1>2, <1>3, <1>4, <1>5 DEF PromisesOK

-----------------------------------------------------------------------------
(* requestDedup.                                                           *)

LEMMA ArriveKeeps ==
    ASSUME IInv, NEW r \in Requests, Arrive(r) PROVE IInv'
<1>. DEFINE u == Url[r]
<1>. USE DEF Arrive
<1>0. /\ Types /\ ListsOK /\ PromisesOK /\ AgesOK /\ req[r] \in Request /\ u \in Urls
      /\ req[r].stage = "idle"
      /\ UNCHANGED <<recent, store, inFlight, db, events, window, lost>>
  BY Constants DEF IInv, Types
<1>1. CASE Has(recent, u)
  <2>1. /\ req' = [req EXCEPT ![r] = Fresh(r)] /\ inflight' = inflight
    BY <1>1 DEF Answered
  <2>2. /\ req' \in [Requests -> Request] /\ req'[r] = Fresh(r)
        /\ \A x \in Requests \ {r} : req'[x] = req[x]
    BY <1>0, <2>1, Values DEF Types
  <2>3. Types'
    BY <1>0, <2>1, <2>2 DEF Types
  <2>4. ListsOK'
    <3>1. /\ ~req[r].headersSent /\ ~req[r].closed /\ req'[r].stage = "idle"
            /\ ~req'[r].headersSent /\ ~req'[r].closed
      BY <1>0, <2>2, Values DEF ListsOK
    <3>2. req[r].headersSent = req'[r].headersSent /\ req[r].closed = req'[r].closed
      BY <1>0, <2>2, <3>1, Fields DEF Types
    <3>. QED
      BY <1>0, <2>1, <2>2, <3>1, <3>2, SameLists
  <2>5. PromisesOK'
    BY <1>0, <2>1, <2>2, Values, SamePromises DEF Types
  <2>6. AgesOK'
    BY <1>0, <2>1, <2>2, Values, Constants DEF AgesOK
  <2>. QED
    BY <2>3, <2>4, <2>5, <2>6 DEF IInv
<1>2. CASE ~Has(recent, u)
  <2>. DEFINE stage == IF Has(inflight, u) THEN "waiting" ELSE "leading"
  <2>1. /\ req' = [req EXCEPT ![r].stage = stage]
        /\ Has(inflight, u) => inflight' = [inflight EXCEPT ![u] = @ \cup {r}]
        /\ ~Has(inflight, u) => inflight' = Put(inflight, u, {})
    BY <1>2 DEF At
  <2>2. /\ req' \in [Requests -> Request]
        /\ \A x \in Requests \ {r} : req'[x] = req[x]
        /\ req'[r].stage = stage /\ req'[r].val = req[r].val /\ req'[r].since = req[r].since
        /\ req'[r].headersSent = req[r].headersSent /\ req'[r].closed = req[r].closed /\ req'[r].raced = req[r].raced
    BY <1>0, <2>1 DEF Types, Request, Stages
  <2>3. /\ DOMAIN inflight' = DOMAIN inflight \cup {u}
        /\ inflight'[u] = IF Has(inflight, u) THEN inflight[u] \cup {r} ELSE {}
        /\ \A v \in DOMAIN inflight \ {u} : inflight'[v] = inflight[v]
    <3>1. CASE Has(inflight, u)
      BY <2>1, <3>1 DEF Has
    <3>2. CASE ~Has(inflight, u)
      BY <2>1, <3>2 DEF Has, Put
    <3>. QED
      BY <3>1, <3>2
  <2>4. Types'
    <3>1. DOMAIN inflight' \subseteq Urls /\ \A v \in DOMAIN inflight' : inflight'[v] \subseteq Requests
      BY <1>0, <2>3 DEF Types, Has
    <3>. QED
      BY <1>0, <2>2, <3>1 DEF Types
  <2>5. ListsOK'
    <3>1. ASSUME NEW v \in DOMAIN inflight', NEW x \in inflight'[v]
          PROVE  req'[x].stage = "waiting" /\ Url[x] = v
      <4>1. CASE x = r
        BY <1>0, <2>2, <2>3, <3>1, <4>1 DEF ListsOK, Has
      <4>2. CASE x # r
        BY <1>0, <2>2, <2>3, <3>1, <4>2 DEF ListsOK, Has, Types
      <4>. QED
        BY <4>1, <4>2
    <3>2. \A x \in Requests : req'[x].stage = "idle" => ~req'[x].headersSent /\ ~req'[x].closed
      BY <1>0, <2>2 DEF ListsOK
    <3>3. \A x \in Requests : req'[x].stage = "waiting" =>
             x \in lost \/ (Url[x] \in DOMAIN inflight' /\ x \in inflight'[Url[x]])
      BY <1>0, <2>2, <2>3 DEF ListsOK, WaitersHaveLeader, Leads, Waiters, Has
    <3>4. ASSUME NEW v \in DOMAIN inflight'
          PROVE  \E x \in Requests :
                    Url[x] = v /\ Leads(x)'
      <4>1. CASE v \in DOMAIN inflight
        BY <1>0, <2>2, <4>1 DEF ListsOK, WaitersHaveLeader, Leads, Handler
      <4>2. CASE v \notin DOMAIN inflight
        BY <1>0, <2>2, <2>3, <4>2 DEF ListsOK, Leads, Handler, Has
      <4>. QED
        BY <4>1, <4>2
    <3>. QED
      BY <1>0, <3>1, <3>2, <3>3, <3>4 DEF ListsOK, WaitersHaveLeader, Leads, Waiters, Has
  <2>6. PromisesOK'
    <3>1. req'[r].stage \notin {"computing", "read", "joined", "ready"}
      BY <2>2
    <3>2. req[r].since <= db /\ ~req[r].raced
      BY <1>0 DEF PromisesOK, ReadOK
    <3>. QED
      BY <1>0, <2>2, <3>1, <3>2, SamePromises
  <2>7. AgesOK'
    BY <1>0, <2>2 DEF AgesOK
  <2>. QED
    BY <2>4, <2>5, <2>6, <2>7 DEF IInv
<1>. QED
  BY <1>1, <1>2

(* What a leader does to its list: everybody on it is answered.            *)
LEMMA AnswerKeeps ==
    ASSUME IInv, NEW r \in Requests, NEW what \in Request,
           req[r].stage \in Handler \cup {"sent"},
           req' = WaitersAnswered(Url[r], r, what), inflight' = Delete(inflight, Url[r]),
           UNCHANGED <<store, inFlight, db, events, lost>>,
           what.stage = "idle" => ~what.headersSent /\ ~what.closed,
           \/ /\ what.stage = req[r].stage /\ what.val = req[r].val /\ what.owner = req[r].owner
              /\ what.raced = req[r].raced /\ what.since = req[r].since
           \/ /\ what.stage \in {"idle", "sent"} /\ what.val = Failure /\ what.since = 0
              /\ ~what.raced /\ req[r].stage \in {"ready", "sent"}
    PROVE  /\ req' \in [Requests -> Request]
           /\ DOMAIN inflight' \subseteq Urls
           /\ \A u \in DOMAIN inflight' : inflight'[u] \subseteq Requests
           /\ ListsOK' /\ PromisesOK'
           /\ \A x \in Requests : req'[x].val = req[x].val \/ req'[x].val = Failure
           /\ \A x \in Requests : req'[x].stage = "read" =>
                 req[x].stage = "read" /\ req'[x].val = req[x].val
<1>. DEFINE u == Url[r]
<1>1. Types /\ ListsOK /\ PromisesOK /\ u \in Urls
  BY Constants DEF IInv
<1>2. \A x \in Requests : req'[x] = IF x = r THEN what
                                    ELSE IF x \in Waiters(u) THEN Fresh(x) ELSE req[x]
  BY DEF WaitersAnswered, Answered
<1>3. req' \in [Requests -> Request]
  BY <1>1, Values DEF WaitersAnswered, Answered, Types
<1>4. /\ DOMAIN inflight' = DOMAIN inflight \ {u}
      /\ \A v \in DOMAIN inflight \ {u} : inflight'[v] = inflight[v]
  BY DEF Delete
<1>5. \A x \in Waiters(u) : x \in Requests /\ req[x].stage = "waiting" /\ Url[x] = u /\ x # r
  BY <1>1 DEF Waiters, Has, ListsOK, Types, Handler
<1>6. DOMAIN inflight' \subseteq Urls /\ \A v \in DOMAIN inflight' : inflight'[v] \subseteq Requests
  BY <1>1, <1>4 DEF Types
<1>7. what.stage # "waiting"
  BY DEF Handler
<1>8. ListsOK'
  <2>1. ASSUME NEW v \in DOMAIN inflight', NEW x \in inflight'[v]
        PROVE  req'[x].stage = "waiting" /\ Url[x] = v
    <3>1. v \in DOMAIN inflight /\ v # u /\ x \in inflight[v]
      BY <1>4, <2>1
    <3>2. x \in Requests /\ req[x].stage = "waiting" /\ Url[x] = v
      BY <1>1, <3>1 DEF ListsOK, Types
    <3>3. x # r /\ x \notin Waiters(u)
      BY <1>5, <3>1, <3>2
    <3>. QED
      BY <1>2, <3>2, <3>3
  <2>2. \A x \in Requests : req'[x].stage = "idle" => ~req'[x].headersSent /\ ~req'[x].closed
    BY <1>1, <1>2, Values DEF ListsOK
  <2>3. ASSUME NEW x \in Requests, req'[x].stage = "waiting"
        PROVE  x \in lost \/ (Url[x] \in DOMAIN inflight' /\ x \in inflight'[Url[x]])
    <3>1. x # r /\ x \notin Waiters(u) /\ req[x].stage = "waiting"
      BY <1>2, <1>7, <2>3, Values
    <3>2. x \in lost \/ (Url[x] \in DOMAIN inflight /\ x \in inflight[Url[x]])
      BY <1>1, <3>1 DEF ListsOK, WaitersHaveLeader, Leads, Waiters, Has
    <3>. QED
      BY <1>4, <3>1, <3>2 DEF Waiters, Has
  <2>4. ASSUME NEW v \in DOMAIN inflight'
        PROVE  \E x \in Requests : Url[x] = v /\ Leads(x)'
    <3>1. v \in DOMAIN inflight /\ v # u
      BY <1>4, <2>4
    <3>2. PICK x \in Requests : Url[x] = v /\ Leads(x)
      BY <1>1, <3>1 DEF ListsOK, WaitersHaveLeader, Leads
    <3>3. x # r /\ x \notin Waiters(u)
      BY <1>5, <3>1, <3>2 DEF Leads, Handler
    <3>. QED
      BY <1>2, <3>2, <3>3 DEF Leads
  <2>. QED
    BY <2>1, <2>2, <2>3, <2>4 DEF ListsOK, WaitersHaveLeader, Leads, Waiters, Has
<1>9. PromisesOK'
  <2>1. db \in Nat
    BY <1>1, Constants DEF Types
  <2>2. ASSUME NEW x \in Waiters(u)
        PROVE  /\ req[x].stage \notin {"computing", "read"}
               /\ req'[x].stage \notin {"computing", "read", "joined", "ready"}
               /\ req'[x].since <= db /\ ~req'[x].raced
    BY <1>2, <1>5, <2>1, Values
  <2>3. req'[r] = what /\ \A x \in Requests \ {r} : x \notin Waiters(u) => req'[x] = req[x]
    BY <1>2
  <2>. QED
    BY <1>1, <2>1, <2>2, <2>3, SamePromises
<1>10. /\ \A x \in Requests : req'[x].val = req[x].val \/ req'[x].val = Failure
       /\ \A x \in Requests : req'[x].stage = "read" =>
             req[x].stage = "read" /\ req'[x].val = req[x].val
  BY <1>2, Values
<1>. QED
  BY <1>3, <1>6, <1>8, <1>9, <1>10

(* What res.json keeps is no older than what the handler has.              *)
LEMMA JsonKeeps ==
    ASSUME Types, AgesOK, NEW u \in Urls, NEW v \in Value, Json(u, v),
           v.age <= MaxCompute + CacheTtl
    PROVE  /\ DOMAIN recent' \subseteq Urls /\ \A w \in DOMAIN recent' : recent'[w] \in Entry
           /\ \A w \in DOMAIN recent' :
                 /\ recent'[w].life >= 1
                 /\ recent'[w].val.age + recent'[w].life <= MaxCompute + CacheTtl + DedupTtl
<1>. DEFINE answer == [val |-> v, life |-> DedupTtl]
<1>1. answer \in Entry /\ answer.life >= 1 /\ answer.life = DedupTtl /\ answer.val = v
  BY Constants DEF Entry
<1>2. recent' = Put(recent, u, answer)
  BY DEF Json
<1>. HIDE DEF answer
<1>3. /\ DOMAIN recent' = DOMAIN recent \cup {u} /\ recent'[u] = answer
      /\ \A w \in DOMAIN recent \ {u} : recent'[w] = recent[w]
  BY <1>2 DEF Put
<1>4. DOMAIN recent' \subseteq Urls /\ \A w \in DOMAIN recent' : recent'[w] \in Entry
  BY <1>1, <1>3 DEF Types
<1>5. v.age \in Nat
  BY DEF Value
<1>. QED
  BY <1>1, <1>3, <1>4, <1>5, Constants DEF AgesOK

LEMMA OverIs ==
    ASSUME NEW r \in Requests
    PROVE  /\ Over(r) \in Request /\ Over(r).stage \in {"idle", "sent"} /\ Over(r).val = Failure
           /\ Over(r).since = 0 /\ ~Over(r).headersSent /\ ~Over(r).closed /\ ~Over(r).raced
  BY Values DEF Over, Fresh, Request, Stages

LEMMA RespondKeeps ==
    ASSUME IInv, NEW r \in Requests, Respond(r) PROVE IInv'
<1>1. /\ Types /\ ListsOK /\ PromisesOK /\ AgesOK /\ Url[r] \in Urls
      /\ req[r].stage = "ready" /\ req[r] \in Request
      /\ Json(Url[r], req[r].val) /\ inflight' = Delete(inflight, Url[r])
      /\ req' = WaitersAnswered(Url[r], r, Over(r))
      /\ UNCHANGED <<store, inFlight, db, events, window, lost>>
  BY Constants DEF Respond, Json, IInv, Types
<1>2. PICK over \in Request : over = Over(r)
  BY OverIs
<1>3. /\ req' \in [Requests -> Request]
      /\ DOMAIN inflight' \subseteq Urls
      /\ \A u \in DOMAIN inflight' : inflight'[u] \subseteq Requests
      /\ ListsOK' /\ PromisesOK'
      /\ \A x \in Requests : req'[x].val = req[x].val \/ req'[x].val = Failure
      /\ \A x \in Requests : req'[x].stage = "read" =>
            req[x].stage = "read" /\ req'[x].val = req[x].val
  <2>1. /\ over.stage \in {"idle", "sent"} /\ over.val = Failure /\ over.since = 0
        /\ ~over.headersSent /\ ~over.closed /\ ~over.raced
    BY <1>2, OverIs
  <2>2. req' = WaitersAnswered(Url[r], r, over)
    BY <1>1, <1>2
  <2>. QED
    BY <1>1, <2>1, <2>2, AnswerKeeps DEF Handler
<1>4. /\ req[r].val \in Value /\ req[r].val.age <= MaxCompute + CacheTtl
  BY <1>1, Fields DEF AgesOK
<1>5. /\ DOMAIN recent' \subseteq Urls /\ \A u \in DOMAIN recent' : recent'[u] \in Entry
      /\ \A u \in DOMAIN recent' :
            /\ recent'[u].life >= 1
            /\ recent'[u].val.age + recent'[u].life <= MaxCompute + CacheTtl + DedupTtl
  BY <1>1, <1>4, JsonKeeps
<1>6. Types'
  BY <1>1, <1>3, <1>5 DEF Types
<1>7. AgesOK'
  BY <1>1, <1>3, <1>5, Values, Constants DEF AgesOK
<1>. QED
  BY <1>3, <1>6, <1>7 DEF IInv

(* The 408 answers for a handler that goes on.                             *)
LEMMA TimeOutKeeps ==
    ASSUME IInv, NEW r \in Requests, TimeOut(r) PROVE IInv'
<1>1. /\ Types /\ ListsOK /\ PromisesOK /\ AgesOK /\ Url[r] \in Urls
      /\ req[r].stage \in Handler /\ req[r] \in Request
      /\ Json(Url[r], Failure) /\ inflight' = Delete(inflight, Url[r])
      /\ UNCHANGED <<store, inFlight, db, events, window, lost>>
  BY Constants DEF TimeOut, Json, IInv, Types
<1>2. PICK what : what = [req[r] EXCEPT !.headersSent = TRUE]
  OBVIOUS
<1>3. /\ what \in Request /\ what.stage = req[r].stage /\ what.val = req[r].val
      /\ what.owner = req[r].owner /\ what.raced = req[r].raced /\ what.since = req[r].since
      /\ what.stage # "idle"
  BY <1>1, <1>2 DEF Request, Handler
<1>4. req' = WaitersAnswered(Url[r], r, what)
  BY <1>2 DEF TimeOut
<1>5. /\ req' \in [Requests -> Request]
      /\ DOMAIN inflight' \subseteq Urls
      /\ \A u \in DOMAIN inflight' : inflight'[u] \subseteq Requests
      /\ ListsOK' /\ PromisesOK'
      /\ \A x \in Requests : req'[x].val = req[x].val \/ req'[x].val = Failure
      /\ \A x \in Requests : req'[x].stage = "read" =>
            req[x].stage = "read" /\ req'[x].val = req[x].val
  BY <1>1, <1>3, <1>4, AnswerKeeps
<1>6. Failure \in Value /\ Failure.age <= MaxCompute + CacheTtl
  BY Values, Constants
<1>7. /\ DOMAIN recent' \subseteq Urls /\ \A u \in DOMAIN recent' : recent'[u] \in Entry
      /\ \A u \in DOMAIN recent' :
            /\ recent'[u].life >= 1
            /\ recent'[u].val.age + recent'[u].life <= MaxCompute + CacheTtl + DedupTtl
  BY <1>1, <1>6, JsonKeeps
<1>8. Types'
  BY <1>1, <1>5, <1>7 DEF Types
<1>9. AgesOK'
  BY <1>1, <1>5, <1>7, Values, Constants DEF AgesOK
<1>. QED
  BY <1>5, <1>8, <1>9 DEF IInv

(* The answer after the 408 takes a list and answers nobody: who was on it *)
(* is on none, and the other lists have the leaders they had.              *)
LEMMA RespondLateKeeps ==
    ASSUME IInv, NEW r \in Requests, RespondLate(r) PROVE IInv'
<1>. DEFINE u == Url[r]
<1>1. /\ Types /\ ListsOK /\ PromisesOK /\ AgesOK /\ u \in Urls
      /\ req[r].stage = "ready" /\ req[r].headersSent /\ req[r] \in Request
      /\ inflight' = Delete(inflight, u) /\ lost' = lost \cup Waiters(u)
      /\ req' = [req EXCEPT ![r] = Over(r)]
      /\ UNCHANGED <<store, inFlight, db, events, window>>
  BY Constants DEF RespondLate, Json, IInv, Types
<1>2. PICK over \in Request : over = Over(r)
  BY OverIs
<1>3. /\ over.stage \in {"idle", "sent"} /\ over.val = Failure /\ over.since = 0
      /\ ~over.headersSent /\ ~over.closed /\ ~over.raced
  BY <1>2, OverIs
<1>4. /\ req' \in [Requests -> Request] /\ req'[r] = over
      /\ \A x \in Requests \ {r} : req'[x] = req[x]
  BY <1>1, <1>2 DEF Types
<1>5. /\ DOMAIN inflight' = DOMAIN inflight \ {u}
      /\ \A v \in DOMAIN inflight \ {u} : inflight'[v] = inflight[v]
  BY <1>1 DEF Delete
<1>6. PICK v \in Value : Json(u, v) /\ v.age <= MaxCompute + CacheTtl
  <2>1. PICK v \in {req[r].val, Failure} : Json(u, v)
    BY DEF RespondLate
  <2>2. /\ req[r].val \in Value /\ req[r].val.age <= MaxCompute + CacheTtl
        /\ Failure \in Value /\ Failure.age <= MaxCompute + CacheTtl
    <3>1. 0 <= MaxCompute + CacheTtl
      BY Constants
    <3>2. req[r].val \in Value /\ Failure \in Value /\ Failure.age = 0
      BY <1>1, Fields, Values
    <3>. QED
      BY <1>1, <3>1, <3>2 DEF AgesOK
  <2>. QED
    BY <2>1, <2>2
<1>7. /\ DOMAIN recent' \subseteq Urls /\ \A w \in DOMAIN recent' : recent'[w] \in Entry
      /\ \A w \in DOMAIN recent' :
            /\ recent'[w].life >= 1
            /\ recent'[w].val.age + recent'[w].life <= MaxCompute + CacheTtl + DedupTtl
  BY <1>1, <1>6, JsonKeeps
<1>8. Types'
  <2>1. Waiters(u) \subseteq Requests
    BY <1>1 DEF Types, Waiters, Has
  <2>. QED
    BY <1>1, <1>4, <1>5, <1>7, <2>1 DEF Types
<1>9. ListsOK'
  <2>1. \A w \in DOMAIN inflight' : \A x \in inflight'[w] :
           req'[x].stage = "waiting" /\ Url[x] = w
    BY <1>1, <1>4, <1>5 DEF ListsOK, Types
  <2>2. \A x \in Requests : req'[x].stage = "idle" => ~req'[x].headersSent /\ ~req'[x].closed
    BY <1>1, <1>3, <1>4 DEF ListsOK
  <2>3. \A x \in Requests : req'[x].stage = "waiting" =>
           x \in lost' \/ (Url[x] \in DOMAIN inflight' /\ x \in inflight'[Url[x]])
    BY <1>1, <1>3, <1>4, <1>5 DEF ListsOK, WaitersHaveLeader, Waiters, Has
  <2>4. ASSUME NEW w \in DOMAIN inflight' PROVE \E x \in Requests : Url[x] = w /\ Leads(x)'
    <3>1. PICK x \in Requests : Url[x] = w /\ Leads(x)
      BY <1>1, <1>5 DEF ListsOK, WaitersHaveLeader
    <3>2. x # r
      BY <1>1, <3>1 DEF Leads
    <3>. QED
      BY <1>4, <3>1, <3>2 DEF Leads
  <2>. QED
    BY <2>1, <2>2, <2>3, <2>4 DEF ListsOK, WaitersHaveLeader, Waiters, Has
<1>10. PromisesOK'
  <2>1. db \in Nat
    BY <1>1, Constants DEF Types
  <2>2. /\ req[r].stage \notin {"computing", "read"}
        /\ req'[r].stage \notin {"computing", "read", "joined", "ready"}
        /\ req'[r].since <= db /\ ~req'[r].raced
    BY <1>1, <1>3, <1>4, <2>1
  <2>. QED
    BY <1>1, <1>4, <2>2, SamePromises
<1>11. AgesOK'
  BY <1>1, <1>3, <1>4, <1>7, Values, Constants DEF AgesOK
<1>. QED
  BY <1>8, <1>9, <1>10, <1>11 DEF IInv

LEMMA LeaderClosesKeeps ==
    ASSUME IInv, NEW r \in Requests, LeaderCloses(r) PROVE IInv'
<1>. DEFINE after == IF req[r].stage = "sent" THEN Fresh(r) ELSE [req[r] EXCEPT !.closed = TRUE]
<1>1. /\ Types /\ ListsOK /\ PromisesOK /\ AgesOK /\ req[r] \in Request
      /\ req[r].stage \in Handler \cup {"sent"} /\ inflight' = Delete(inflight, Url[r])
      /\ req' = WaitersAnswered(Url[r], r, after)
      /\ UNCHANGED <<recent, store, inFlight, db, events, window, lost>>
  BY DEF LeaderCloses, IInv, Types
<1>2. /\ after \in Request
      /\ after.stage = "idle" => ~after.headersSent /\ ~after.closed
      /\ \/ /\ after.stage = req[r].stage /\ after.val = req[r].val /\ after.owner = req[r].owner
            /\ after.raced = req[r].raced /\ after.since = req[r].since
         \/ /\ after.stage \in {"idle", "sent"} /\ after.val = Failure /\ after.since = 0
            /\ ~after.raced /\ req[r].stage \in {"ready", "sent"}
  <2>1. CASE req[r].stage = "sent"
    BY <2>1, Values
  <2>2. CASE req[r].stage # "sent"
    BY <1>1, <2>2 DEF Request, Handler
  <2>. QED
    BY <2>1, <2>2
<1>. HIDE DEF after
<1>3. /\ req' \in [Requests -> Request]
      /\ DOMAIN inflight' \subseteq Urls
      /\ \A u \in DOMAIN inflight' : inflight'[u] \subseteq Requests
      /\ ListsOK' /\ PromisesOK'
      /\ \A x \in Requests : req'[x].val = req[x].val \/ req'[x].val = Failure
      /\ \A x \in Requests : req'[x].stage = "read" =>
            req[x].stage = "read" /\ req'[x].val = req[x].val
  BY <1>1, <1>2, AnswerKeeps
<1>4. Types'
  BY <1>1, <1>3 DEF Types
<1>5. AgesOK'
  BY <1>1, <1>3, Values, Constants DEF AgesOK
<1>. QED
  BY <1>3, <1>4, <1>5 DEF IInv

LEMMA WaiterClosesKeeps ==
    ASSUME IInv, NEW r \in Requests, WaiterCloses(r) PROVE IInv'
<1>. USE DEF WaiterCloses
<1>1. Types /\ ListsOK /\ PromisesOK /\ AgesOK /\ req[r] \in Request /\ req[r].stage = "waiting"
  BY DEF IInv, Types
<1>2. /\ req' \in [Requests -> Request] /\ \A x \in Requests \ {r} : req'[x] = req[x]
      /\ req'[r].stage = "waiting" /\ req'[r].val = req[r].val /\ req'[r].since = req[r].since
      /\ req'[r].raced = req[r].raced
  BY <1>1 DEF Types, Request
<1>3. Types'
  BY <1>1, <1>2 DEF Types
<1>4. ListsOK'
  <2>1. \A x \in Requests : req'[x].stage = req[x].stage
    BY <1>1, <1>2
  <2>2. \A x \in Requests : req[x].stage # "waiting" => req'[x].headersSent = req[x].headersSent /\ req'[x].closed = req[x].closed
    BY <1>1, <1>2
  <2>3. \A u \in DOMAIN inflight : inflight[u] \subseteq Requests
    BY <1>1 DEF Types
  <2>. QED
    BY <1>1, <2>1, <2>2, <2>3 DEF ListsOK, WaitersHaveLeader, Leads, Waiters, Has, Handler
<1>5. PromisesOK'
  <2>1. req[r].since <= db /\ ~req[r].raced
    BY <1>1 DEF PromisesOK, ReadOK
  <2>. QED
    BY <1>1, <1>2, <2>1, SamePromises
<1>6. AgesOK'
  BY <1>1, <1>2 DEF AgesOK
<1>. QED
  BY <1>3, <1>4, <1>5, <1>6 DEF IInv

-----------------------------------------------------------------------------
(* cache.get.                                                              *)

(* What was announced when the cache was asked: no more than is written.   *)
LEMMA AnnouncedBound ==
    ASSUME Types
    PROVE  Announced \in 0..MaxWrites /\ Announced <= db /\ db \in Nat
  BY Constants DEF Types, Announced

LEMMA LookupKeeps ==
    ASSUME IInv, NEW r \in Requests, Lookup(r) PROVE IInv'
<1>. DEFINE k == Key[Url[r]]
            ask == [req[r] EXCEPT !.since = db - events]
<1>. USE DEF Lookup
<1>1. /\ Types /\ ListsOK /\ PromisesOK /\ AgesOK /\ req[r] \in Request /\ k \in Keys
      /\ req[r].stage = "leading"
      /\ UNCHANGED <<inflight, recent, db, events, window, lost>>
  BY Constants DEF IInv, Types
<1>2. Announced \in 0..MaxWrites /\ Announced <= db /\ db \in Nat
  BY <1>1, AnnouncedBound
<1>3. /\ ask \in Request /\ ask.since = Announced /\ ask.headersSent = req[r].headersSent /\ ask.closed = req[r].closed
      /\ ask.val = req[r].val /\ ask.owner = req[r].owner /\ ~ask.raced
  BY <1>1, <1>2 DEF Request, Announced, PromisesOK, ReadOK
<1>4. CASE Has(store, k)
  <2>1. req' = [req EXCEPT ![r] = [ask EXCEPT !.stage = "ready", !.val = store[k].val]]
        /\ store' = Put(store, k, store[k]) /\ inFlight' = inFlight
    BY <1>4 DEF Touched
  <2>2. DOMAIN store' = DOMAIN store /\ \A x \in DOMAIN store : store'[x] = store[x]
    BY <1>4, <2>1 DEF Put, Has
  <2>3. store[k] \in Entry /\ store[k].val \in Value
    BY <1>1, <1>4 DEF Types, Has, Entry
  <2>4. /\ req' \in [Requests -> Request] /\ \A x \in Requests \ {r} : req'[x] = req[x]
        /\ req'[r].stage = "ready" /\ req'[r].val = store[k].val /\ req'[r].since = Announced
        /\ req'[r].headersSent = req[r].headersSent /\ req'[r].closed = req[r].closed /\ ~req'[r].raced
    BY <1>1, <1>3, <2>1, <2>3 DEF Types, Request, Stages
  <2>5. Types'
    BY <1>1, <2>1, <2>2, <2>4 DEF Types
  <2>6. ListsOK'
    BY <1>1, <2>4, SameLists DEF Handler
  <2>7. PromisesOK'
    <3>1. \A x \in DOMAIN inFlight : PromiseOK(x)'
      BY <1>1, <2>1, <2>4 DEF Types, PromisesOK, PromiseOK
    <3>2. \A x \in Requests : ReadOK(x)'
      BY <1>1, <1>2, <2>4 DEF PromisesOK, ReadOK, Announced
    <3>3. \A x \in Requests : JoinedOK(x)'
      BY <1>1, <2>4, Fields DEF Types, PromisesOK, JoinedOK
    <3>4. \A x \in DOMAIN store' : StoredOK(x)'
      BY <1>1, <2>2 DEF PromisesOK, StoredOK, Announced
    <3>5. SeesAnnouncedWrites'
      BY <1>1, <1>4, <2>4 DEF PromisesOK, StoredOK, SeesAnnouncedWrites, Has
    <3>. QED
      BY <2>1, <3>1, <3>2, <3>3, <3>4, <3>5 DEF PromisesOK
  <2>8. AgesOK'
    <3>1. store[k].val.age <= MaxCompute + CacheTtl
      BY <1>1, <1>4, <2>3, Constants DEF AgesOK, Has, Entry, Value
    <3>. QED
      BY <1>1, <2>2, <2>4, <3>1 DEF AgesOK
  <2>. QED
    BY <2>5, <2>6, <2>7, <2>8 DEF IInv
<1>5. CASE ~Has(store, k) /\ Has(inFlight, k)
  <2>1. req' = [req EXCEPT ![r] = [ask EXCEPT !.stage = "joined", !.owner = inFlight[k]]]
        /\ store' = store /\ inFlight' = inFlight
    BY <1>5
  <2>2. inFlight[k] \in Requests /\ PromiseOK(k)
    BY <1>1, <1>5 DEF Types, PromisesOK, Has
  <2>3. /\ req' \in [Requests -> Request] /\ \A x \in Requests \ {r} : req'[x] = req[x]
        /\ req'[r].stage = "joined" /\ req'[r].val = req[r].val /\ req'[r].since = Announced
        /\ req'[r].headersSent = req[r].headersSent /\ req'[r].closed = req[r].closed /\ req'[r].owner = inFlight[k]
        /\ ~req'[r].raced
    BY <1>1, <1>3, <2>1, <2>2 DEF Types, Request, Stages
  <2>4. Types'
    BY <1>1, <2>1, <2>3 DEF Types
  <2>5. ListsOK'
    BY <1>1, <2>3, SameLists DEF Handler
  <2>6. PromisesOK'
    <3>1. \A x \in DOMAIN inFlight : PromiseOK(x)'
      BY <1>1, <2>1, <2>3 DEF Types, PromisesOK, PromiseOK
    <3>2. \A x \in Requests : ReadOK(x)'
      BY <1>1, <1>2, <2>3 DEF PromisesOK, ReadOK, Announced
    <3>3. ASSUME NEW x \in Requests PROVE JoinedOK(x)'
      <4>1. CASE x = r
        <5>. DEFINE o == inFlight[k]
        <5>1. o # r /\ req'[o] = req[o] /\ req[o].stage \in {"computing", "read"}
          BY <1>1, <2>2, <2>3 DEF PromiseOK
        <5>2. req[o].stage = "read" /\ ~req[o].val.missed => req[o].val.ver >= Announced
          BY <1>1, <2>2 DEF PromiseOK, PromisesOK, ReadOK
        <5>. QED
          BY <2>3, <4>1, <5>1, <5>2 DEF JoinedOK
      <4>2. CASE x # r
        BY <1>1, <2>3, <4>2, Fields DEF Types, PromisesOK, JoinedOK
      <4>. QED
        BY <4>1, <4>2
    <3>4. \A x \in DOMAIN store : StoredOK(x)'
      BY <1>1, <2>1 DEF PromisesOK, StoredOK, Announced
    <3>5. SeesAnnouncedWrites'
      BY <1>1, <2>3 DEF PromisesOK, SeesAnnouncedWrites
    <3>. QED
      BY <2>1, <3>1, <3>2, <3>3, <3>4, <3>5 DEF PromisesOK
  <2>7. AgesOK'
    BY <1>1, <2>1, <2>3 DEF AgesOK
  <2>. QED
    BY <2>4, <2>5, <2>6, <2>7 DEF IInv
<1>6. CASE ~Has(store, k) /\ ~Has(inFlight, k)
  <2>1. req' = [req EXCEPT ![r] = [ask EXCEPT !.stage = "computing"]]
        /\ store' = store /\ inFlight' = Put(inFlight, k, r)
    BY <1>6
  <2>2. /\ req' \in [Requests -> Request] /\ \A x \in Requests \ {r} : req'[x] = req[x]
        /\ req'[r].stage = "computing" /\ req'[r].val = req[r].val
        /\ req'[r].since = Announced /\ req'[r].headersSent = req[r].headersSent /\ req'[r].closed = req[r].closed
        /\ ~req'[r].raced
    BY <1>1, <1>3, <2>1 DEF Types, Request, Stages
  <2>3. /\ DOMAIN inFlight' = DOMAIN inFlight \cup {k} /\ inFlight'[k] = r
        /\ \A x \in DOMAIN inFlight \ {k} : inFlight'[x] = inFlight[x]
    BY <2>1 DEF Put
  <2>4. Types'
    BY <1>1, <2>1, <2>2, <2>3 DEF Types
  <2>5. ListsOK'
    BY <1>1, <2>2, SameLists DEF Handler
  <2>6. PromisesOK'
    <3>1. \A x \in DOMAIN inFlight' : PromiseOK(x)'
      BY <1>1, <2>2, <2>3 DEF Types, PromisesOK, PromiseOK
    <3>2. \A x \in Requests : ReadOK(x)'
      BY <1>1, <1>2, <2>2 DEF PromisesOK, ReadOK, Announced
    <3>3. \A x \in Requests : JoinedOK(x)'
      BY <1>1, <2>2, Fields DEF Types, PromisesOK, JoinedOK
    <3>4. \A x \in DOMAIN store : StoredOK(x)'
      BY <1>1, <2>1 DEF PromisesOK, StoredOK, Announced
    <3>5. SeesAnnouncedWrites'
      BY <1>1, <2>2 DEF PromisesOK, SeesAnnouncedWrites
    <3>. QED
      BY <2>1, <3>1, <3>2, <3>3, <3>4, <3>5 DEF PromisesOK
  <2>7. AgesOK'
    BY <1>1, <2>1, <2>2 DEF AgesOK
  <2>. QED
    BY <2>4, <2>5, <2>6, <2>7 DEF IInv
<1>. QED
  BY <1>4, <1>5, <1>6

LEMMA FetchKeeps ==
    ASSUME IInv, NEW r \in Requests, Fetch(r) PROVE IInv'
<1>. USE DEF Fetch
<1>1. /\ Types /\ ListsOK /\ PromisesOK /\ AgesOK /\ req[r] \in Request
      /\ req[r].stage = "computing"
  BY DEF IInv, Types
<1>2. Announced <= db /\ db \in Nat /\ Announced \in Nat /\ db \in 0..MaxWrites
  BY <1>1, AnnouncedBound DEF Types
<1>3. /\ req' \in [Requests -> Request] /\ \A x \in Requests \ {r} : req'[x] = req[x]
      /\ req'[r].stage = "read" /\ req'[r].val = Read(db) /\ req'[r].since = req[r].since
      /\ req'[r].headersSent = req[r].headersSent /\ req'[r].closed = req[r].closed /\ req'[r].raced = req[r].raced
  <2>. DEFINE new == [req[r] EXCEPT !.stage = "read", !.val = Read(db)]
  <2>1. Read(db) \in Value
    BY <1>2, Values
  <2>2. /\ new \in Request /\ new.stage = "read" /\ new.val = Read(db)
        /\ new.since = req[r].since /\ new.headersSent = req[r].headersSent /\ new.closed = req[r].closed /\ new.raced = req[r].raced
    BY <1>1, <2>1 DEF Request, Stages
  <2>3. req' = [req EXCEPT ![r] = new]
    BY <1>1 DEF Types, Request
  <2>. HIDE DEF new
  <2>. QED
    BY <1>1, <2>2, <2>3 DEF Types
<1>4. Types'
  BY <1>1, <1>3 DEF Types
<1>5. ListsOK'
  BY <1>1, <1>3, SameLists DEF Handler
<1>6. PromisesOK'
  <2>1. \A x \in DOMAIN inFlight : PromiseOK(x)'
    <3>1. ~req[r].raced
      BY <1>1 DEF PromisesOK, ReadOK
    <3>. QED
      BY <1>1, <1>3, <3>1 DEF Types, PromisesOK, PromiseOK
  <2>2. \A x \in Requests : ReadOK(x)'
    BY <1>1, <1>2, <1>3, Values DEF PromisesOK, ReadOK, Announced
  <2>3. \A x \in Requests : JoinedOK(x)'
    <3>. SUFFICES ASSUME NEW x \in Requests, req'[x].stage = "joined"
                  PROVE  JoinedOK(x)'
      BY DEF JoinedOK
    <3>1. x # r /\ req'[x] = req[x] /\ req[x].owner \in Requests
      BY <1>1, <1>3, Fields DEF Types
    <3>2. CASE req[x].owner = r
      <4>1. Read(db).ver >= req[x].since
        <5>1. req[x].since <= db
          BY <1>1 DEF PromisesOK, ReadOK
        <5>2. Read(db).ver = db
          BY <1>2, Values
        <5>3. req[x].since \in 0..MaxWrites
          BY <1>1, Fields DEF Types
        <5>. QED
          BY <1>2, <5>1, <5>2, <5>3, Constants
      <4>2. req'[x].owner = r /\ req'[x].since = req[x].since
        BY <3>1, <3>2
      <4>3. req'[r].stage = "read" /\ req'[r].val.ver >= req'[x].since
        BY <1>3, <4>1, <4>2
      <4>. QED
        BY <4>2, <4>3 DEF JoinedOK
    <3>3. CASE req[x].owner # r
      BY <1>1, <1>3, <3>1, <3>3 DEF PromisesOK, JoinedOK
    <3>. QED
      BY <3>2, <3>3
  <2>4. \A x \in DOMAIN store : StoredOK(x)'
    BY <1>1 DEF PromisesOK, StoredOK, Announced
  <2>5. SeesAnnouncedWrites'
    BY <1>1, <1>3 DEF PromisesOK, SeesAnnouncedWrites
  <2>. QED
    BY <2>1, <2>2, <2>3, <2>4, <2>5 DEF PromisesOK
<1>7. AgesOK'
  BY <1>1, <1>2, <1>3, Values, Constants DEF AgesOK
<1>. QED
  BY <1>4, <1>5, <1>6, <1>7 DEF IInv

(* A computation ends: its own request and those that joined it go on with *)
(* a value that is good for each of them.                                  *)
LEMMA SettleKeeps ==
    ASSUME IInv, NEW r \in Requests, NEW v \in Value,
           req[r].stage \in {"computing", "read"},
           req' = Settled(r, v), inFlight' = Delete(inFlight, Key[Url[r]]),
           UNCHANGED <<inflight, db, events, lost>>,
           v.ok /\ ~v.missed =>
              \A x \in Requests : x = r \/ (req[x].stage = "joined" /\ req[x].owner = r)
                 => v.ver >= req[x].since,
           v.age <= MaxCompute + CacheTtl,
           \A k \in DOMAIN store' : StoredOK(k)'
    PROVE  /\ req' \in [Requests -> Request]
           /\ DOMAIN inFlight' \subseteq Keys
           /\ \A k \in DOMAIN inFlight' : inFlight'[k] \in Requests
           /\ ListsOK' /\ PromisesOK'
           /\ \A x \in Requests : req'[x].val.age <= MaxCompute + CacheTtl
           /\ \A x \in Requests : req'[x].stage = "read" => req'[x].val.age <= MaxCompute
<1>. DEFINE Mine(x) == x = r \/ (req[x].stage = "joined" /\ req[x].owner = r)
<1>1. Types /\ ListsOK /\ PromisesOK /\ AgesOK
  BY DEF IInv
<1>2. ASSUME NEW x \in Requests, Mine(x)
      PROVE  /\ req'[x] \in Request /\ req'[x].stage = "ready" /\ req'[x].val = v
             /\ ~req'[x].raced /\ req'[x].headersSent = req[x].headersSent /\ req'[x].closed = req[x].closed
             /\ req'[x].since = req[x].since /\ req[x].stage \in Handler
  <2>1. req[x] \in Request
    BY <1>1 DEF Types
  <2>2. req'[x] = [req[x] EXCEPT !.stage = "ready", !.val = v, !.owner = x, !.raced = FALSE]
    BY <1>2 DEF Settled
  <2>. QED
    BY <1>2, <2>1, <2>2 DEF Request, Stages, Handler
<1>3. \A x \in Requests : ~Mine(x) => req'[x] = req[x]
  BY DEF Settled
<1>4. req' \in [Requests -> Request]
  <2>1. \A x \in Requests : req'[x] \in Request
    BY <1>1, <1>2, <1>3 DEF Types
  <2>2. req' = [x \in Requests |-> req'[x]]
    BY DEF Settled
  <2>. QED
    BY <2>1, <2>2
<1>5. /\ DOMAIN inFlight' = DOMAIN inFlight \ {Key[Url[r]]}
      /\ \A k \in DOMAIN inFlight' : inFlight'[k] = inFlight[k]
  BY DEF Delete
<1>6. DOMAIN inFlight' \subseteq Keys /\ \A k \in DOMAIN inFlight' : inFlight'[k] \in Requests
  BY <1>1, <1>5 DEF Types
<1>. HIDE DEF Mine
<1>7. ListsOK'
  <2>1. \A x \in Requests : /\ req'[x].headersSent = req[x].headersSent /\ req'[x].closed = req[x].closed
                            /\ \/ req'[x].stage = req[x].stage
                               \/ req[x].stage \in Handler /\ req'[x].stage \in Handler
    BY <1>2, <1>3 DEF Handler
  <2>. QED
    BY <1>1, <2>1, SameLists
<1>8. PromisesOK'
  <2>1. ASSUME NEW k \in DOMAIN inFlight' PROVE PromiseOK(k)'
    <3>. DEFINE o == inFlight[k]
    <3>1. PromiseOK(k) /\ o \in Requests /\ k # Key[Url[r]]
      BY <1>1, <1>5 DEF Types, PromisesOK
    <3>2. ~Mine(o)
      BY <3>1 DEF PromiseOK, Mine
    <3>. QED
      BY <1>3, <1>5, <3>1, <3>2 DEF PromiseOK
  <2>2. ASSUME NEW x \in Requests PROVE ReadOK(x)'
    BY <1>1, <1>2, <1>3 DEF PromisesOK, ReadOK, Announced
  <2>3. ASSUME NEW x \in Requests, req'[x].stage = "joined" PROVE JoinedOK(x)'
    <3>1. ~Mine(x) /\ req'[x] = req[x]
      BY <1>2, <1>3, <2>3
    <3>. DEFINE o == req[x].owner
    <3>2. JoinedOK(x) /\ o \in Requests
      BY <1>1, Fields DEF Types, PromisesOK
    <3>3. o # r /\ req[o].stage \in {"computing", "read"}
      BY <2>3, <3>1, <3>2 DEF JoinedOK, Mine
    <3>4. req'[o] = req[o]
      BY <1>3, <3>2, <3>3 DEF Mine
    <3>. QED
      BY <3>1, <3>2, <3>4 DEF JoinedOK
  <2>4. SeesAnnouncedWrites'
    BY <1>1, <1>2, <1>3 DEF PromisesOK, SeesAnnouncedWrites, Mine
  <2>. QED
    BY <2>1, <2>2, <2>3, <2>4 DEF PromisesOK, JoinedOK
<1>9. /\ \A x \in Requests : req'[x].val.age <= MaxCompute + CacheTtl
      /\ \A x \in Requests : req'[x].stage = "read" => req'[x].val.age <= MaxCompute
  BY <1>1, <1>2, <1>3 DEF AgesOK
<1>. QED
  BY <1>4, <1>6, <1>7, <1>8, <1>9

LEMMA StoreKeeps ==
    ASSUME IInv, NEW r \in Requests, Store(r) PROVE IInv'
<1>. DEFINE k == Key[Url[r]]
            v == req[r].val
            row == [val |-> Missed(v, req[r].raced), life |-> CacheTtl]
<1>1. /\ Types /\ ListsOK /\ PromisesOK /\ AgesOK /\ req[r] \in Request /\ k \in Keys
      /\ req[r].stage = "read" /\ store' = Put(store, k, row)
      /\ inFlight' = Delete(inFlight, k) /\ req' = Settled(r, v)
      /\ UNCHANGED <<inflight, recent, db, events, window, lost>>
  BY Constants DEF Store, IInv, Types
<1>2. v \in Value /\ v.age \in Nat /\ v.ver \in Nat /\ req[r].raced \in BOOLEAN
  BY <1>1, Fields, Constants
<1>3. v.age <= MaxCompute
  BY <1>1 DEF AgesOK
<1>4. /\ row \in Entry /\ row.life = CacheTtl /\ row.val.age = v.age /\ row.val.ver = v.ver
      /\ row.val.missed = (v.missed \/ req[r].raced)
  BY <1>2, Values, Constants DEF Entry
<1>. HIDE DEF row
<1>5. /\ DOMAIN store' = DOMAIN store \cup {k} /\ store'[k] = row
      /\ \A x \in DOMAIN store \ {k} : store'[x] = store[x]
  BY <1>1 DEF Put
<1>6. ASSUME NEW x \in DOMAIN store' PROVE StoredOK(x)'
  <2>1. CASE x = k
    <3>1. ~row.val.missed => v.ver >= Announced
      BY <1>1, <1>4 DEF PromisesOK, ReadOK
    <3>2. Announced' = Announced
      BY <1>1 DEF Announced
    <3>. QED
      BY <1>4, <1>5, <2>1, <3>1, <3>2 DEF StoredOK
  <2>2. CASE x # k
    BY <1>1, <1>5, <2>2 DEF PromisesOK, StoredOK, Announced
  <2>. QED
    BY <2>1, <2>2
<1>7. ~v.missed =>
         \A x \in Requests : x = r \/ (req[x].stage = "joined" /\ req[x].owner = r)
            => v.ver >= req[x].since
  BY <1>1 DEF PromisesOK, ReadOK, JoinedOK
<1>8. v.age <= MaxCompute + CacheTtl
  BY <1>2, <1>3, Constants
<1>9. /\ req' \in [Requests -> Request]
      /\ DOMAIN inFlight' \subseteq Keys
      /\ \A x \in DOMAIN inFlight' : inFlight'[x] \in Requests
      /\ ListsOK' /\ PromisesOK'
      /\ \A x \in Requests : req'[x].val.age <= MaxCompute + CacheTtl
      /\ \A x \in Requests : req'[x].stage = "read" => req'[x].val.age <= MaxCompute
  <2>. HIDE DEF v
  <2>. QED
    BY <1>1, <1>2, <1>6, <1>7, <1>8, SettleKeeps
<1>10. Types'
  BY <1>1, <1>4, <1>5, <1>9 DEF Types
<1>11. AgesOK'
  <2>1. row.val.age + row.life <= MaxCompute + CacheTtl
    BY <1>2, <1>3, <1>4, Constants
  <2>. QED
    BY <1>1, <1>5, <1>9, <2>1 DEF AgesOK
<1>. QED
  BY <1>9, <1>10, <1>11 DEF IInv

LEMMA FailKeeps ==
    ASSUME IInv, NEW r \in Requests, Fail(r) PROVE IInv'
<1>. DEFINE k == Key[Url[r]]
<1>1. /\ Types /\ ListsOK /\ PromisesOK /\ AgesOK
      /\ req[r].stage \in {"computing", "read"} /\ store' = Delete(store, k)
      /\ inFlight' = Delete(inFlight, k) /\ req' = Settled(r, Failure)
      /\ UNCHANGED <<inflight, recent, db, events, window, lost>>
  BY DEF Fail, IInv
<1>2. /\ DOMAIN store' \subseteq DOMAIN store
      /\ \A x \in DOMAIN store' : store'[x] = store[x]
  BY <1>1 DEF Delete
<1>3. ASSUME NEW x \in DOMAIN store' PROVE StoredOK(x)'
  BY <1>1, <1>2 DEF PromisesOK, StoredOK, Announced
<1>4. Failure.age <= MaxCompute + CacheTtl
  BY Values, Constants
<1>5. /\ req' \in [Requests -> Request]
      /\ DOMAIN inFlight' \subseteq Keys
      /\ \A x \in DOMAIN inFlight' : inFlight'[x] \in Requests
      /\ ListsOK' /\ PromisesOK'
      /\ \A x \in Requests : req'[x].val.age <= MaxCompute + CacheTtl
      /\ \A x \in Requests : req'[x].stage = "read" => req'[x].val.age <= MaxCompute
  BY <1>1, <1>3, <1>4, Values, SettleKeeps
<1>6. Types'
  BY <1>1, <1>2, <1>5 DEF Types
<1>7. AgesOK'
  BY <1>1, <1>2, <1>5 DEF AgesOK
<1>. QED
  BY <1>5, <1>6, <1>7 DEF IInv

LEMMA EvictKeeps ==
    ASSUME IInv, NEW k \in Keys, Evict(k) PROVE IInv'
<1>. USE DEF Evict
<1>1. Types /\ ListsOK /\ PromisesOK /\ AgesOK
  BY DEF IInv
<1>2. DOMAIN store' \subseteq DOMAIN store /\ \A x \in DOMAIN store' : store'[x] = store[x]
  BY DEF Delete
<1>3. Types'
  BY <1>1, <1>2 DEF Types
<1>4. PromisesOK'
  BY <1>1, <1>2 DEF PromisesOK, PromiseOK, ReadOK, JoinedOK, StoredOK, SeesAnnouncedWrites, Announced
<1>5. AgesOK'
  BY <1>1, <1>2 DEF AgesOK
<1>. QED
  BY <1>1, <1>3, <1>4, <1>5, ListsFrame DEF IInv

-----------------------------------------------------------------------------
(* Writes, their events, and time.                                         *)

LEMMA WriteKeeps ==
    ASSUME IInv, Write PROVE IInv'
<1>. USE DEF Write
<1>1. Types /\ ListsOK /\ PromisesOK /\ AgesOK /\ db \in Nat /\ events \in Nat /\ events <= db
  BY Constants DEF IInv, Types
<1>2. Types'
  BY <1>1, Constants DEF Types
<1>3. Announced' = Announced
  BY <1>1 DEF Announced
<1>4. \A r \in Requests : req[r].since <= db + 1
  <2>. SUFFICES ASSUME NEW r \in Requests PROVE req[r].since <= db + 1
    OBVIOUS
  <2>1. req[r].since <= db /\ req[r].since \in Int
    BY <1>1, Fields DEF PromisesOK, ReadOK, Types
  <2>. QED
    BY <1>1, <2>1
<1>5. PromisesOK'
  BY <1>1, <1>3, <1>4 DEF PromisesOK, PromiseOK, ReadOK, JoinedOK, StoredOK, SeesAnnouncedWrites
<1>. QED
  BY <1>1, <1>2, <1>5, ListsFrame, AgesFrame DEF IInv

(* What an invalidation, or a dropped one, does to the reads in flight:    *)
(* their values are marked, or their requests are; everything else stays.  *)
LEMMA ReadsMarked ==
    ASSUME Types, req' = Raced \/ req' = Overlooked
    PROVE  /\ req' \in [Requests -> Request]
           /\ \A x \in Requests :
                 /\ req[x].stage # "read" => req'[x] = req[x]
                 /\ req'[x].stage = req[x].stage /\ req'[x].headersSent = req[x].headersSent /\ req'[x].closed = req[x].closed
                 /\ req'[x].owner = req[x].owner /\ req'[x].since = req[x].since
                 /\ req'[x].val.ver = req[x].val.ver
                 /\ req[x].val.missed => req'[x].val.missed
           /\ \A x \in Requests : req[x].stage = "read" =>
                 /\ req' = Raced => req'[x].raced /\ req'[x].val = req[x].val
                 /\ req' = Overlooked =>
                       /\ req'[x].val.missed /\ req'[x].raced = req[x].raced
                       /\ req'[x].val.age = req[x].val.age
<1>1. \A x \in Requests : req[x] \in Request /\ req[x].val \in Value
  BY Fields DEF Types
<1>2. \A x \in Requests : /\ Missed(req[x].val, TRUE) \in Value
                          /\ Missed(req[x].val, TRUE).ver = req[x].val.ver
                          /\ Missed(req[x].val, TRUE).age = req[x].val.age
                          /\ Missed(req[x].val, TRUE).missed
  BY <1>1, Values
<1>3. CASE req' = Raced
  <2>1. req' \in [Requests -> Request]
    BY <1>1, <1>3 DEF Raced, Request
  <2>2. \A x \in Requests : req[x].stage = "read" =>
           /\ req'[x] = [req[x] EXCEPT !.raced = TRUE] /\ req'[x].raced
           /\ req'[x].stage = req[x].stage /\ req'[x].headersSent = req[x].headersSent /\ req'[x].closed = req[x].closed
           /\ req'[x].owner = req[x].owner /\ req'[x].since = req[x].since
           /\ req'[x].val = req[x].val
    BY <1>1, <1>3 DEF Raced, Request
  <2>3. \A x \in Requests : req[x].stage # "read" => req'[x] = req[x]
    BY <1>3 DEF Raced
  <2>4. \A x \in Requests : req[x].stage = "read" => (req' = Overlooked => req'[x].val.missed)
    BY <1>1, <1>2, <2>1 DEF Overlooked, Request
  <2>5. ASSUME req' = Overlooked, NEW x \in Requests, req[x].stage = "read"
        PROVE  req'[x].raced = req[x].raced /\ req'[x].val.age = req[x].val.age
    <3>1. req'[x] = [req[x] EXCEPT !.val = Missed(@, TRUE)]
      BY <2>5 DEF Overlooked
    <3>2. req'[x].raced = req[x].raced
      BY <1>1, <3>1 DEF Request
    <3>. QED
      BY <2>2, <2>5, <3>2
  <2>. QED
    BY <1>3, <2>1, <2>2, <2>3, <2>4, <2>5
<1>4. CASE req' = Overlooked /\ req' # Raced
  <2>1. req' \in [Requests -> Request]
    BY <1>1, <1>2, <1>4 DEF Overlooked, Request
  <2>2. \A x \in Requests : req[x].stage = "read" =>
           /\ req'[x].val = Missed(req[x].val, TRUE) /\ req'[x].raced = req[x].raced
           /\ req'[x].stage = req[x].stage /\ req'[x].headersSent = req[x].headersSent /\ req'[x].closed = req[x].closed
           /\ req'[x].owner = req[x].owner /\ req'[x].since = req[x].since
    <3>1. ASSUME NEW x \in Requests, req[x].stage = "read"
          PROVE  /\ req'[x].val = Missed(req[x].val, TRUE) /\ req'[x].raced = req[x].raced
                 /\ req'[x].stage = req[x].stage /\ req'[x].headersSent = req[x].headersSent /\ req'[x].closed = req[x].closed
                 /\ req'[x].owner = req[x].owner /\ req'[x].since = req[x].since
      <4>1. PICK r \in Request : r = req[x]
        BY <1>1
      <4>2. PICK v : v = Missed(r.val, TRUE)
        OBVIOUS
      <4>3. req'[x] = [r EXCEPT !.val = v]
        BY <1>4, <3>1, <4>1, <4>2 DEF Overlooked
      <4>4. /\ req'[x].val = v /\ req'[x].raced = r.raced /\ req'[x].stage = r.stage
            /\ req'[x].headersSent = r.headersSent /\ req'[x].closed = r.closed /\ req'[x].owner = r.owner /\ req'[x].since = r.since
        BY ONLY r \in Request, <4>3 DEF Request
      <4>. QED
        BY ONLY <4>1, <4>2, <4>4
    <3>. QED
      BY ONLY <3>1
  <2>3. \A x \in Requests : req[x].stage # "read" => req'[x] = req[x]
    BY <1>4 DEF Overlooked
  <2>4. ASSUME NEW x \in Requests
        PROVE  /\ req'[x].stage = req[x].stage /\ req'[x].headersSent = req[x].headersSent /\ req'[x].closed = req[x].closed
               /\ req'[x].owner = req[x].owner /\ req'[x].since = req[x].since
               /\ req'[x].val.ver = req[x].val.ver
               /\ req[x].val.missed => req'[x].val.missed
    <3>1. CASE req[x].stage = "read"
      BY ONLY <1>2, <2>2, <3>1, x \in Requests
    <3>2. CASE req[x].stage # "read"
      BY ONLY <2>3, <3>2, x \in Requests
    <3>. QED
      BY <3>1, <3>2
  <2>5. ASSUME NEW x \in Requests, req[x].stage = "read"
        PROVE  /\ req'[x].val.missed /\ req'[x].raced = req[x].raced
               /\ req'[x].val.age = req[x].val.age
    BY ONLY <1>2, <2>2, <2>5, x \in Requests
  <2>. QED
    BY ONLY <1>4, <2>1, <2>3, <2>4, <2>5
<1>. QED
  BY <1>3, <1>4

LEMMA InvalidateKeeps ==
    ASSUME Types, PromisesOK, req' = Raced, store' = Empty, inFlight' = Empty, db' = db
    PROVE  PromisesOK'
<1>1. DOMAIN store' = {} /\ DOMAIN inFlight' = {}
  BY DEF Empty
<1>2. ASSUME NEW x \in Requests PROVE ReadOK(x)' /\ JoinedOK(x)'
  <2>1. ReadOK(x)'
    <3>1. CASE req[x].stage = "read"
      BY <3>1, ReadsMarked DEF PromisesOK, ReadOK
    <3>2. CASE req[x].stage # "read"
      BY <3>2, ReadsMarked DEF PromisesOK, ReadOK
    <3>. QED
      BY <3>1, <3>2
  <2>2. JoinedOK(x)'
    <3>. SUFFICES ASSUME req[x].stage = "joined" PROVE JoinedOK(x)'
      BY ReadsMarked DEF JoinedOK
    <3>. DEFINE o == req[x].owner
    <3>1. o \in Requests /\ JoinedOK(x) /\ req'[x] = req[x]
      BY Fields, ReadsMarked DEF Types, PromisesOK
    <3>2. req'[o].stage = req[o].stage /\ req'[o].val.ver = req[o].val.ver
          /\ (req[o].val.missed => req'[o].val.missed)
      BY <3>1, ReadsMarked
    <3>. QED
      BY <3>1, <3>2 DEF JoinedOK
  <2>. QED
    BY <2>1, <2>2
<1>3. SeesAnnouncedWrites'
  BY ReadsMarked DEF PromisesOK, SeesAnnouncedWrites
<1>. QED
  BY <1>1, <1>2, <1>3 DEF PromisesOK

LEMMA DispatchKeeps ==
    ASSUME IInv, DispatchEvent PROVE IInv'
<1>. USE DEF DispatchEvent
<1>1. /\ Types /\ ListsOK /\ PromisesOK /\ AgesOK /\ db \in Nat /\ events \in Nat
      /\ events' = events - 1 /\ UNCHANGED <<inflight, recent, db, lost>>
      /\ events' \in 0..db
  BY Constants DEF IInv, Types
<1>2. CASE isDuplicate
  <2>1. /\ store' = [k \in DOMAIN store |-> [store[k] EXCEPT !.val = Missed(@, TRUE)]]
        /\ req' = Overlooked /\ inFlight' = inFlight /\ window' = window
    BY <1>2
  <2>2. /\ DOMAIN store' = DOMAIN store
        /\ \A k \in DOMAIN store : /\ store'[k] \in Entry /\ store'[k].val.missed
                                   /\ store'[k].life = store[k].life
                                   /\ store'[k].val.age = store[k].val.age
    <3>1. \A k \in DOMAIN store : store[k] \in Entry /\ store[k].val \in Value
      BY <1>1 DEF Types, Entry
    <3>2. \A k \in DOMAIN store : /\ Missed(store[k].val, TRUE) \in Value
                                  /\ Missed(store[k].val, TRUE).missed
                                  /\ Missed(store[k].val, TRUE).age = store[k].val.age
      BY <3>1, Values
    <3>. QED
      BY <2>1, <3>1, <3>2 DEF Entry
  <2>3. Types'
    BY <1>1, <2>1, <2>2, ReadsMarked DEF Types
  <2>4. ListsOK'
    BY <1>1, <2>1, ReadsMarked, SameLists
  <2>5. PromisesOK'
    <3>1. ASSUME NEW k \in DOMAIN inFlight PROVE PromiseOK(k)'
      <4>1. PromiseOK(k) /\ inFlight[k] \in Requests
        BY <1>1 DEF Types, PromisesOK
      <4>. QED
        BY <1>1, <2>1, <4>1, ReadsMarked DEF PromiseOK
    <3>2. ASSUME NEW x \in Requests PROVE ReadOK(x)'
      <4>1. CASE req[x].stage = "read"
        BY <1>1, <2>1, <4>1, ReadsMarked DEF PromisesOK, ReadOK
      <4>2. CASE req[x].stage # "read"
        BY <1>1, <2>1, <4>2, ReadsMarked DEF PromisesOK, ReadOK
      <4>. QED
        BY <4>1, <4>2
    <3>3. ASSUME NEW x \in Requests, req[x].stage = "joined" PROVE JoinedOK(x)'
      <4>. DEFINE o == req[x].owner
      <4>1. o \in Requests /\ JoinedOK(x) /\ req'[x] = req[x]
        BY <1>1, <2>1, <3>3, Fields, ReadsMarked DEF Types, PromisesOK
      <4>2. req'[o].stage = req[o].stage /\ req'[o].val.ver = req[o].val.ver
            /\ (req[o].val.missed => req'[o].val.missed)
        BY <1>1, <2>1, <4>1, ReadsMarked
      <4>. QED
        BY <3>3, <4>1, <4>2 DEF JoinedOK
    <3>4. \A x \in Requests : req[x].stage # "joined" => JoinedOK(x)'
      BY <1>1, <2>1, ReadsMarked DEF JoinedOK
    <3>5. \A k \in DOMAIN store' : StoredOK(k)'
      BY <2>2 DEF StoredOK
    <3>6. SeesAnnouncedWrites'
      BY <1>1, <2>1, ReadsMarked DEF PromisesOK, SeesAnnouncedWrites
    <3>. QED
      BY <2>1, <3>1, <3>2, <3>3, <3>4, <3>5, <3>6 DEF PromisesOK
  <2>6. AgesOK'
    <3>1. \A x \in Requests : req'[x].val.age = req[x].val.age
      BY <1>1, <2>1, ReadsMarked
    <3>2. \A x \in Requests : req'[x].stage = req[x].stage
      BY <1>1, <2>1, ReadsMarked
    <3>3. AgesOK /\ recent' = recent
      BY <1>1
    <3>. QED
      BY ONLY <2>2, <3>1, <3>2, <3>3 DEF AgesOK
  <2>. QED
    BY <2>3, <2>4, <2>5, <2>6 DEF IInv
<1>3. CASE ~isDuplicate
  <2>1. window' = EventTtl /\ store' = Empty /\ inFlight' = Empty /\ req' = Raced
    BY <1>3 DEF invalidatePrefix
  <2>2. DOMAIN store' = {} /\ DOMAIN inFlight' = {}
    BY <2>1 DEF Empty
  <2>3. Types'
    BY <1>1, <2>1, <2>2, ReadsMarked, Constants DEF Types
  <2>4. ListsOK'
    BY <1>1, <2>1, ReadsMarked, SameLists
  <2>5. PromisesOK'
    BY <1>1, <2>1, InvalidateKeeps
  <2>6. AgesOK'
    <3>1. \A x \in Requests : req'[x].val.age = req[x].val.age
      BY <1>1, <2>1, ReadsMarked
    <3>. QED
      BY <1>1, <2>2, <2>1, <3>1, ReadsMarked DEF AgesOK
  <2>. QED
    BY <2>3, <2>4, <2>5, <2>6 DEF IInv
<1>. QED
  BY <1>2, <1>3

LEMMA FlushKeeps ==
    ASSUME IInv, Flush PROVE IInv'
<1>. USE DEF Flush
<1>1. Types /\ ListsOK /\ PromisesOK /\ AgesOK
  BY DEF IInv
<1>2. /\ DOMAIN store' = {} /\ DOMAIN inFlight' = {}
      /\ DOMAIN recent' = {} /\ DOMAIN inflight' = {}
  BY DEF Empty
<1>3. Types'
  BY <1>1, <1>2, ReadsMarked DEF Types
<1>4. ListsOK'
  <2>1. \A r \in Requests : req'[r].stage = "waiting" => r \in lost'
    BY <1>1, ReadsMarked
  <2>2. \A r \in Requests : req'[r].stage = "idle" => ~req'[r].headersSent /\ ~req'[r].closed
    BY <1>1, ReadsMarked DEF ListsOK
  <2>. QED
    BY <1>2, <2>1, <2>2 DEF ListsOK, WaitersHaveLeader, Leads
<1>5. PromisesOK'
    BY <1>1, InvalidateKeeps
<1>6. AgesOK'
  <2>1. \A x \in Requests : req'[x].val.age = req[x].val.age
    BY <1>1, ReadsMarked
  <2>. QED
    BY <1>1, <1>2, <2>1, ReadsMarked DEF AgesOK
<1>. QED
  BY <1>3, <1>4, <1>5, <1>6 DEF IInv

(* What time leaves of a table: younger lives, older values.               *)
LEMMA LiveEntries ==
    ASSUME NEW map, NEW least \in Nat, \A k \in DOMAIN map : map[k] \in Entry
    PROVE  /\ DOMAIN Live(map, least) \subseteq DOMAIN map
           /\ \A k \in DOMAIN Live(map, least) :
                 /\ Live(map, least)[k] \in Entry
                 /\ Live(map, least)[k].life >= least
                 /\ Live(map, least)[k].life + 1 = map[k].life
                 /\ Live(map, least)[k].val.age = map[k].val.age + 1
                 /\ Live(map, least)[k].val.ver = map[k].val.ver
                 /\ Live(map, least)[k].val.ok = map[k].val.ok
                 /\ Live(map, least)[k].val.missed = map[k].val.missed
<1>. DEFINE L == Live(map, least)
<1>1. DOMAIN L \subseteq DOMAIN map
  BY DEF Live
<1>2. ASSUME NEW k \in DOMAIN L
      PROVE  /\ L[k] \in Entry /\ L[k].life >= least /\ L[k].life + 1 = map[k].life
             /\ L[k].val.age = map[k].val.age + 1 /\ L[k].val.ver = map[k].val.ver
             /\ L[k].val.ok = map[k].val.ok /\ L[k].val.missed = map[k].val.missed
  <2>. DEFINE v == map[k].val
              life == map[k].life
  <2>1. v \in Value /\ life \in Nat /\ map[k] = [val |-> v, life |-> life]
    BY <1>1 DEF Entry
  <2>2. life - 1 >= least
    BY DEF Live
  <2>3. L[k] = [map[k] EXCEPT !.val = Older(@), !.life = @ - 1]
    BY DEF Live
  <2>4. L[k] = [val |-> Older(v), life |-> life - 1]
    <3>. HIDE DEF L
    <3>. QED
      BY <2>1, <2>3
  <2>5. /\ Older(v) \in Value /\ Older(v).age = v.age + 1 /\ Older(v).ver = v.ver
        /\ Older(v).ok = v.ok /\ Older(v).missed = v.missed
    BY <2>1, Values
  <2>6. life - 1 \in Nat /\ (life - 1) + 1 = life
    BY <2>1, <2>2
  <2>. HIDE DEF L
  <2>. QED
    BY <2>2, <2>4, <2>5, <2>6 DEF Entry
<1>. QED
  BY <1>1, <1>2

LEMMA TickKeeps ==
    ASSUME IInv, Tick PROVE IInv'
<1>1. /\ Types /\ ListsOK /\ PromisesOK /\ AgesOK
      /\ \A r \in Requests : req[r] \in Request /\ req[r].val \in Value
  BY Fields DEF IInv, Types
<1>2. /\ \A r \in Requests : req[r].stage = "read" => req[r].val.age < MaxCompute
      /\ req' = [r \in Requests |-> IF req[r].stage = "read"
                                    THEN [req[r] EXCEPT !.val = Older(@)] ELSE req[r]]
      /\ recent' = Live(recent, 1) /\ store' = Live(store, 0)
      /\ window' = IF window > 0 THEN window - 1 ELSE 0
      /\ UNCHANGED <<inflight, inFlight, db, events, lost>>
  BY DEF Tick, recentLive, storeLive
<1>3. ASSUME NEW x \in Requests
      PROVE  /\ req'[x] \in Request
             /\ req[x].stage # "read" => req'[x] = req[x]
             /\ req'[x].stage = req[x].stage /\ req'[x].headersSent = req[x].headersSent /\ req'[x].closed = req[x].closed
             /\ req'[x].owner = req[x].owner /\ req'[x].since = req[x].since
             /\ req'[x].raced = req[x].raced
             /\ req[x].stage = "read" => req'[x].val = Older(req[x].val)
  <2>1. req[x] \in Request /\ Older(req[x].val) \in Value
    BY <1>1, Values
  <2>2. req'[x] = IF req[x].stage = "read" THEN [req[x] EXCEPT !.val = Older(@)] ELSE req[x]
    BY <1>2
  <2>. QED
    BY <2>1, <2>2 DEF Request
<1>4. ASSUME NEW x \in Requests
      PROVE  /\ req'[x].val.ver = req[x].val.ver /\ req'[x].val.missed = req[x].val.missed
             /\ req[x].stage = "read" => req'[x].val.age = req[x].val.age + 1
  BY <1>1, <1>3, Values
<1>5. req' \in [Requests -> Request]
  BY <1>2, <1>3
<1>6. /\ DOMAIN recent' \subseteq DOMAIN recent
      /\ \A u \in DOMAIN recent' :
            /\ recent'[u] \in Entry /\ recent'[u].life >= 1
            /\ recent'[u].life + 1 = recent[u].life
            /\ recent'[u].val.age = recent[u].val.age + 1
  BY <1>1, <1>2, LiveEntries DEF Types
<1>7. /\ DOMAIN store' \subseteq DOMAIN store
      /\ \A k \in DOMAIN store' :
            /\ store'[k] \in Entry /\ store'[k].life + 1 = store[k].life
            /\ store'[k].val.age = store[k].val.age + 1
            /\ store'[k].val.ver = store[k].val.ver /\ store'[k].val.ok = store[k].val.ok
            /\ store'[k].val.missed = store[k].val.missed
  BY <1>1, <1>2, LiveEntries DEF Types
<1>8. Types'
  <2>1. window' \in Nat
    BY <1>1, <1>2 DEF Types
  <2>2. /\ DOMAIN recent' \subseteq Urls /\ \A u \in DOMAIN recent' : recent'[u] \in Entry
        /\ DOMAIN store' \subseteq Keys /\ \A k \in DOMAIN store' : store'[k] \in Entry
    BY <1>1, <1>6, <1>7 DEF Types
  <2>. QED
    BY <1>1, <1>2, <1>5, <2>1, <2>2 DEF Types
<1>9. ListsOK'
  BY <1>1, <1>2, <1>3, SameLists
<1>10. PromisesOK'
  <2>1. Announced' = Announced
    BY <1>2 DEF Announced
  <2>2. ASSUME NEW k \in DOMAIN inFlight PROVE PromiseOK(k)'
    <3>1. PromiseOK(k) /\ inFlight[k] \in Requests
      BY <1>1 DEF Types, PromisesOK
    <3>. QED
      BY <1>2, <1>3, <3>1 DEF PromiseOK
  <2>3. ASSUME NEW x \in Requests PROVE ReadOK(x)'
    BY <1>1, <1>2, <1>3, <1>4, <2>1 DEF PromisesOK, ReadOK
  <2>4. ASSUME NEW x \in Requests PROVE JoinedOK(x)'
    <3>. SUFFICES ASSUME req[x].stage = "joined" PROVE JoinedOK(x)'
      BY <1>3 DEF JoinedOK
    <3>. DEFINE o == req[x].owner
    <3>1. o \in Requests /\ JoinedOK(x) /\ req'[x] = req[x]
      BY <1>1, <1>3, Fields DEF PromisesOK
    <3>2. /\ req'[o].stage = req[o].stage /\ req'[o].val.ver = req[o].val.ver
          /\ req'[o].val.missed = req[o].val.missed
      BY <1>3, <1>4, <3>1
    <3>. QED
      BY <3>1, <3>2 DEF JoinedOK
  <2>5. \A k \in DOMAIN store' : StoredOK(k)'
    BY <1>1, <1>7, <2>1 DEF PromisesOK, StoredOK
  <2>6. SeesAnnouncedWrites'
    BY <1>1, <1>3 DEF PromisesOK, SeesAnnouncedWrites
  <2>. QED
    BY <1>2, <2>2, <2>3, <2>4, <2>5, <2>6 DEF PromisesOK
<1>11. AgesOK'
  <2>1. ASSUME NEW x \in Requests
        PROVE  /\ req'[x].val.age <= MaxCompute + CacheTtl
               /\ req'[x].stage = "read" => req'[x].val.age <= MaxCompute
    <3>1. CASE req[x].stage = "read"
      <4>1. req[x].val.age \in Nat /\ req[x].val.age < MaxCompute
        BY <1>1, <1>2, <3>1, Fields
      <4>2. req'[x].val.age = req[x].val.age + 1
        BY <1>4, <3>1
      <4>. QED
        BY <4>1, <4>2, Constants
    <3>2. CASE req[x].stage # "read"
      BY <1>1, <1>3, <3>2 DEF AgesOK
    <3>. QED
      BY <3>1, <3>2
  <2>2. ASSUME NEW k \in DOMAIN store'
        PROVE  store'[k].val.age + store'[k].life <= MaxCompute + CacheTtl
    <3>1. store'[k].life \in Nat /\ store[k].val.age \in Nat
      BY <1>1, <1>7 DEF Types, Entry, Value
    <3>2. store[k].val.age + store[k].life <= MaxCompute + CacheTtl
      BY <1>1, <1>7 DEF AgesOK
    <3>. QED
      BY <1>7, <3>1, <3>2
  <2>3. ASSUME NEW u \in DOMAIN recent'
        PROVE  /\ recent'[u].life >= 1
               /\ recent'[u].val.age + recent'[u].life <= MaxCompute + CacheTtl + DedupTtl
    <3>1. recent'[u].life \in Nat /\ recent[u].val.age \in Nat
      BY <1>1, <1>6 DEF Types, Entry, Value
    <3>2. recent[u].val.age + recent[u].life <= MaxCompute + CacheTtl + DedupTtl
      BY <1>1, <1>6 DEF AgesOK
    <3>. QED
      BY <1>6, <3>1, <3>2
  <2>. QED
    BY <2>1, <2>2, <2>3 DEF AgesOK
<1>. QED
  BY <1>8, <1>9, <1>10, <1>11 DEF IInv

-----------------------------------------------------------------------------
(* The invariant, and what follows from it.                                *)

LEMMA InitIInv == Init => IInv
<1>. SUFFICES ASSUME Init PROVE IInv
  OBVIOUS
<1>. USE DEF Init
<1>1. /\ DOMAIN store = {} /\ DOMAIN inFlight = {}
      /\ DOMAIN recent = {} /\ DOMAIN inflight = {}
  BY DEF Empty
<1>2. req \in [Requests -> Request] /\ \A r \in Requests : req[r] = Fresh(r)
  BY Values
<1>3. Types
  BY <1>1, <1>2, Constants DEF Types
<1>4. ListsOK
  BY <1>1, <1>2, Values DEF ListsOK, WaitersHaveLeader, Leads
<1>5. PromisesOK
  BY <1>1, <1>2, Values DEF PromisesOK, ReadOK, JoinedOK, SeesAnnouncedWrites
<1>6. AgesOK
  BY <1>1, <1>2, Values, Constants DEF AgesOK
<1>. QED
  BY <1>3, <1>4, <1>5, <1>6 DEF IInv

LEMMA NextIInv == IInv /\ [Next]_vars => IInv'
<1>. SUFFICES ASSUME IInv, [Next]_vars PROVE IInv'
  OBVIOUS
<1>1. CASE UNCHANGED vars
  <2>1. Types /\ ListsOK /\ PromisesOK /\ AgesOK
    BY DEF IInv
  <2>2. Types'
    BY <1>1, <2>1 DEF Types, vars
  <2>. QED
    BY <1>1, <2>1, <2>2, ListsFrame, PromisesFrame, AgesFrame DEF IInv, vars
<1>2. ASSUME NEW r \in Requests, Arrive(r) PROVE IInv'
  BY <1>2, ArriveKeeps
<1>3. ASSUME NEW r \in Requests, Proceed(r) PROVE IInv'
  BY <1>3, LookupKeeps, FetchKeeps, StoreKeeps, FailKeeps, RespondKeeps, RespondLateKeeps
  DEF Proceed
<1>4. ASSUME NEW r \in Requests, TimeOut(r) \/ LeaderCloses(r) \/ WaiterCloses(r) PROVE IInv'
  BY <1>4, TimeOutKeeps, LeaderClosesKeeps, WaiterClosesKeeps
<1>5. ASSUME NEW k \in Keys, Evict(k) PROVE IInv'
  BY <1>5, EvictKeeps
<1>6. CASE Write
  BY <1>6, WriteKeeps
<1>7. CASE DispatchEvent
  BY <1>7, DispatchKeeps
<1>8. CASE Flush
  BY <1>8, FlushKeeps
<1>9. CASE Tick
  BY <1>9, TickKeeps
<1>. QED
  BY <1>1, <1>2, <1>3, <1>4, <1>5, <1>6, <1>7, <1>8, <1>9 DEF Next

(* Lists, computations and ages are in order in every state that the read  *)
(* path can reach.                                                         *)
THEOREM ReadPathInvariant == Spec => []IInv
  BY InitIInv, NextIInv, PTL DEF Spec

(* Nobody waits for a leader that is gone, except after a flush, or after  *)
(* the late response of a leader that has timed out.                       *)
THEOREM NobodyForgotten == Spec => []WaitersHaveLeader
<1>1. IInv => WaitersHaveLeader
  BY DEF IInv, ListsOK
<1>. QED
  BY <1>1, ReadPathInvariant, PTL

(* A response is as new as the last write announced before its handler     *)
(* asked the cache, unless an event has missed the value.                  *)
THEOREM AnnouncedAreSeen == Spec => []SeesAnnouncedWrites
<1>1. IInv => SeesAnnouncedWrites
  BY DEF IInv, PromisesOK
<1>. QED
  BY <1>1, ReadPathInvariant, PTL

(* No response is older than the longest computation and the lives of the  *)
(* entries it went through.                                                *)
THEOREM StalenessIsBounded == Spec => []BoundedStaleness
<1>1. ASSUME IInv PROVE BoundedStaleness
  <2>1. ASSUME NEW u \in DOMAIN recent
        PROVE  recent[u].val.age < MaxCompute + CacheTtl + DedupTtl
    <3>1. recent[u].val.age \in Nat /\ recent[u].life \in Nat
      BY <1>1 DEF IInv, Types, Entry, Value
    <3>. QED
      BY <1>1, <3>1, Constants DEF IInv, AgesOK
  <2>. QED
    BY <1>1, <2>1 DEF BoundedStaleness, IInv, AgesOK
<1>. QED
  BY <1>1, ReadPathInvariant, PTL

-----------------------------------------------------------------------------
(* The other way a page learns of changes: Realtime, its socket.  The      *)
(* instance has its own constants and variables.                           *)

CONSTANTS Hooks, MaxTokens, MaxRenders, MaxFaults, MaxQueue
VARIABLES token, issued, delay, retry, ping, orphans, renders, faults

Page == INSTANCE Realtime

(* What Realtime assumes of its constants, as far as it is needed.         *)
PageAssumption == NoSocket \notin Sockets

(* No two hooks share a room.                                              *)
OwnRooms == \A g, h \in Hooks : Room[g] = Room[h] => g = h

-----------------------------------------------------------------------------
(* What the server knows once it has read a queue: of each room, what the  *)
(* last message that names it says, or else what it knew before.           *)

Message == [type : {"subscribe", "unsubscribe"}, rooms : SUBSET {Room[h] : h \in Hooks}]

Known(in, q) == FoldLeft(Joined, in, q)

LastSays(q, s, room) ==
    \E i \in s : /\ q[i].type = "subscribe" /\ room \in q[i].rooms
                 /\ \A j \in s : j > i => room \notin q[j].rooms
Unnamed(q, s, room) == \A j \in s : room \notin q[j].rooms
Understood(in, q, s) ==
    {room \in in \cup UNION {q[i].rooms : i \in s} :
        LastSays(q, s, room) \/ (room \in in /\ Unnamed(q, s, room))}

(* The recursive function behind the fold, and its uniqueness.             *)
LastOf(s) == Max(s)
Reads(g, in, q) ==
    g = [s \in SUBSET DOMAIN q |->
            IF s = {} THEN in ELSE Joined(g[s \ {LastOf(s)}], q[LastOf(s)])]

LEMMA KnownIs == \A in, q : Known(in, q) = (CHOOSE g : Reads(g, in, q))[DOMAIN q]
  BY DEF Known, Reads, LastOf, FoldLeft, MapThenFoldSet

(* A set of positions that is not empty has a last one.                    *)
LEMMA LastIs ==
    ASSUME NEW n \in Nat, NEW s \in SUBSET (1..n), s # {}
    PROVE  LastOf(s) \in s /\ \A j \in s : j <= LastOf(s)
<1>. DEFINE From(i) == {j \in s : j >= i}
            B == {From(i) : i \in s}
<1>1. PICK D : D = 1..n
  OBVIOUS
<1>2. PICK t \in B : \A u \in B : u \subseteq t => u = t
  <2>1. IsFiniteSet(D)
    BY <1>1, FS_Interval
  <2>2. B \subseteq SUBSET D /\ B # {}
    BY <1>1
  <2>. HIDE DEF B
  <2>. QED
    BY <2>1, <2>2, LeastSet
<1>3. PICK i \in s : t = From(i)
  OBVIOUS
<1>4. ASSUME NEW j \in s, j > i
      PROVE  FALSE
  <2>1. \A k \in s : k \in Int
    OBVIOUS
  <2>2. \A k \in s : k >= j => k >= i
    BY <1>4, <2>1
  <2>a. i >= i /\ ~(i >= j)
    BY <1>4, <2>1
  <2>b. From(j) \subseteq From(i)
    BY <2>2
  <2>c. i \in From(i) /\ i \notin From(j)
    BY <2>a
  <2>3. From(j) \in B
    OBVIOUS
  <2>. QED
    BY <1>2, <1>3, <2>3, <2>b, <2>c
<1>5. \A j \in s : j <= i
  BY <1>4
<1>6. \E x \in s : \A y \in s : x >= y
  BY <1>5
<1>7. LastOf(s) \in s /\ \A y \in s : LastOf(s) >= y
  BY <1>6 DEF LastOf, Max
<1>. QED
  BY <1>7

LEMMA ReadsOnce ==
    ASSUME NEW in, NEW q, NEW n \in Nat, DOMAIN q = 1..n, NEW g, NEW h,
           Reads(g, in, q), Reads(h, in, q)
    PROVE  g = h
<1>. DEFINE B == {s \in SUBSET (1..n) : g[s] # h[s]}
<1>1. DOMAIN g = SUBSET (1..n) /\ DOMAIN h = SUBSET (1..n)
  BY DEF Reads
<1>2. \A s \in SUBSET (1..n) :
         /\ s = {} => g[s] = in /\ h[s] = in
         /\ s # {} => /\ g[s] = Joined(g[s \ {LastOf(s)}], q[LastOf(s)])
                      /\ h[s] = Joined(h[s \ {LastOf(s)}], q[LastOf(s)])
  BY DEF Reads
<1>3. B = {}
  <2>1. SUFFICES ASSUME B # {} PROVE FALSE
    OBVIOUS
  <2>2. PICK D : D = 1..n
    OBVIOUS
  <2>a. IsFiniteSet(D) /\ B \subseteq SUBSET D
    BY <2>2, FS_Interval
  <2>3. PICK s \in B : \A t \in B : t \subseteq s => t = s
    <3>. HIDE DEF B
    <3>. QED
      BY <2>1, <2>a, LeastSet
  <2>4. s \in SUBSET (1..n) /\ g[s] # h[s]
    OBVIOUS
  <2>5. s # {}
    BY <1>2, <2>4
  <2>6. LastOf(s) \in s
    BY <2>4, <2>5, LastIs
  <2>7. s \ {LastOf(s)} \notin B
    BY <2>3, <2>6
  <2>8. g[s \ {LastOf(s)}] = h[s \ {LastOf(s)}]
    BY <2>4, <2>7
  <2>. QED
    BY <1>2, <2>4, <2>5, <2>8
<1>4. \A s \in SUBSET (1..n) : g[s] = h[s]
  BY <1>3
<1>5. g = [s \in DOMAIN g |-> g[s]] /\ h = [s \in DOMAIN h |-> h[s]]
  BY DEF Reads
<1>. QED
  BY <1>1, <1>4, <1>5

(* The last of some messages does what it says to what the others leave.   *)
LEMMA ReadLast ==
    ASSUME NEW in, NEW q \in Seq(Message), NEW s \in SUBSET DOMAIN q, s # {}
    PROVE  Understood(in, q, s) = Joined(Understood(in, q, s \ {LastOf(s)}), q[LastOf(s)])
<1>. DEFINE m == LastOf(s)
            t == s \ {m}
<1>1. m \in s /\ (\A j \in s : j <= m) /\ s \subseteq Int
  <2>1. PICK n \in Nat : DOMAIN q = 1..n
    OBVIOUS
  <2>2. s \in SUBSET (1..n)
    BY <2>1
  <2>3. LastOf(s) \in s /\ \A j \in s : j <= LastOf(s)
    BY ONLY <2>2, s # {}, LastIs
  <2>4. s \subseteq Int
    BY <2>2
  <2>. QED
    BY <2>3, <2>4
<1>. HIDE DEF m
<1>2. \A j \in t : j < m /\ ~(m < j)
  BY <1>1
<1>3. q[m].type \in {"subscribe", "unsubscribe"}
  <2>1. q[m] \in Message
    BY <1>1
  <2>. QED
    BY <2>1 DEF Message
<1>4. ASSUME NEW room
      PROVE  room \in Understood(in, q, s) <=>
                IF q[m].type = "subscribe"
                THEN room \in Understood(in, q, t) \/ room \in q[m].rooms
                ELSE room \in Understood(in, q, t) /\ room \notin q[m].rooms
  <2>1. CASE room \in q[m].rooms
    <3>1. ~Unnamed(q, s, room)
      BY <1>1, <2>1 DEF Unnamed
    <3>2. LastSays(q, s, room) <=> q[m].type = "subscribe"
      <4>1. ASSUME NEW i \in s, \A j \in s : j > i => room \notin q[j].rooms
            PROVE  i = m
        BY <1>1, <2>1, <4>1
      <4>2. \A j \in s : ~(j > m)
        BY <1>1
      <4>. QED
        BY <1>1, <2>1, <4>1, <4>2 DEF LastSays
    <3>. QED
      BY <1>1, <1>3, <2>1, <3>1, <3>2 DEF Understood
  <2>2. CASE room \notin q[m].rooms
    <3>1. Unnamed(q, s, room) <=> Unnamed(q, t, room)
      BY <1>1, <2>2 DEF Unnamed
    <3>2. LastSays(q, s, room) <=> LastSays(q, t, room)
      BY <1>1, <2>2 DEF LastSays
    <3>3. room \in UNION {q[i].rooms : i \in s} <=> room \in UNION {q[i].rooms : i \in t}
      BY <1>1, <2>2
    <3>. QED
      BY <2>2, <3>1, <3>2, <3>3 DEF Understood
  <2>. QED
    BY <2>1, <2>2
<1>5. Understood(in, q, s) = IF q[m].type = "subscribe" THEN Understood(in, q, t) \cup q[m].rooms
                       ELSE Understood(in, q, t) \ q[m].rooms
  <2>1. CASE q[m].type = "subscribe"
    BY <1>4, <2>1
  <2>2. CASE q[m].type # "subscribe"
    BY <1>4, <2>2
  <2>. QED
    BY <2>1, <2>2
<1>. QED
  BY <1>5 DEF Joined, m

LEMMA KnownRead ==
    ASSUME NEW in, NEW q \in Seq(Message)
    PROVE  Known(in, q) = Understood(in, q, DOMAIN q)
<1>. DEFINE G == [s \in SUBSET DOMAIN q |-> Understood(in, q, s)]
<1>1. Len(q) \in Nat /\ DOMAIN q = 1..Len(q)
  OBVIOUS
<1>2. Understood(in, q, {}) = in
  BY DEF Understood, LastSays, Unnamed
<1>3. ASSUME NEW s \in SUBSET DOMAIN q, s # {}
      PROVE  G[s] = Joined(G[s \ {LastOf(s)}], q[LastOf(s)])
  BY <1>3, ReadLast
<1>4. Reads(G, in, q)
  <2>1. \A s \in SUBSET DOMAIN q :
           G[s] = IF s = {} THEN in ELSE Joined(G[s \ {LastOf(s)}], q[LastOf(s)])
    BY <1>2, <1>3
  <2>2. G = [s \in SUBSET DOMAIN q |-> G[s]]
    OBVIOUS
  <2>. HIDE DEF G
  <2>. QED
    BY <2>1, <2>2 DEF Reads
<1>. DEFINE H == CHOOSE g : Reads(g, in, q)
<1>5. Reads(H, in, q)
  <2>. HIDE DEF G
  <2>. QED
    BY <1>4
<1>6. Known(in, q) = H[DOMAIN q]
  BY KnownIs
<1>7. H = G
  <2>. HIDE DEF G, H
  <2>. QED
    BY <1>1, <1>4, <1>5, ReadsOnce
<1>. QED
  BY <1>6, <1>7

-----------------------------------------------------------------------------
(* What the server will know, as messages are added and read.              *)

RoomsOfHooks == {Room[h] : h \in Hooks}

LEMMA KnownAtFirst == \A in : Known(in, <<>>) = in
<1>1. SUFFICES ASSUME NEW in PROVE Known(in, <<>>) = in
  OBVIOUS
<1>2. PICK q : q = <<>>
  OBVIOUS
<1>3. q \in Seq(Message) /\ DOMAIN q = {}
  BY <1>2
<1>4. Known(in, q) = Understood(in, q, {})
  BY <1>3, KnownRead
<1>. QED
  BY <1>2, <1>4 DEF Understood, LastSays, Unnamed

LEMMA KnownMore ==
    ASSUME NEW in, NEW q \in Seq(Message), NEW m \in Message
    PROVE  Append(q, m) \in Seq(Message) /\ Known(in, Append(q, m)) = Joined(Known(in, q), m)
<1>1. PICK p : p = Append(q, m)
  OBVIOUS
<1>2. PICK n \in Nat : n = Len(q)
  OBVIOUS
<1>3. /\ p \in Seq(Message) /\ DOMAIN q = 1..n /\ DOMAIN p = 1..(n + 1)
      /\ p[n + 1] = m /\ \A i \in 1..n : p[i] = q[i]
  BY <1>1, <1>2
<1>4. PICK s : s = 1..(n + 1)
  OBVIOUS
<1>5. n + 1 \in s /\ s # {}
  <2>1. n + 1 \in s
    BY <1>4
  <2>. QED
    BY <2>1
<1>6. LastOf(s) = n + 1 /\ s \ {n + 1} = 1..n
  <2>1. \A y \in s : n + 1 >= y
    BY <1>4
  <2>2. \E x \in s : \A y \in s : x >= y
    BY ONLY <1>5, <2>1
  <2>3. LastOf(s) \in s /\ \A y \in s : LastOf(s) >= y
    BY ONLY <2>2 DEF LastOf, Max
  <2>4. LastOf(s) \in 1..(n + 1) /\ LastOf(s) >= n + 1
    BY ONLY <1>4, <1>5, <2>3
  <2>5. LastOf(s) = n + 1
    BY ONLY <2>4, n \in Nat
  <2>6. s \ {n + 1} = 1..n
    BY <1>4
  <2>. QED
    BY <2>5, <2>6
<1>7. Understood(in, p, s) = Joined(Understood(in, p, 1..n), m)
  <2>1. s \in SUBSET DOMAIN p
    BY <1>3, <1>4
  <2>2. Understood(in, p, s) = Joined(Understood(in, p, s \ {LastOf(s)}), p[LastOf(s)])
    BY <1>3, <1>5, <2>1, ReadLast
  <2>. QED
    BY <1>3, <1>6, <2>2
<1>8. Understood(in, p, 1..n) = Understood(in, q, 1..n)
  BY <1>3 DEF Understood, LastSays, Unnamed
<1>9. Known(in, p) = Understood(in, p, s) /\ Known(in, q) = Understood(in, q, 1..n)
  BY <1>3, <1>4, KnownRead
<1>. QED
  BY <1>1, <1>3, <1>7, <1>8, <1>9

LEMMA KnownRest ==
    ASSUME NEW in, NEW q \in Seq(Message), q # <<>>
    PROVE  Tail(q) \in Seq(Message) /\ Known(Joined(in, Head(q)), Tail(q)) = Known(in, q)
<1>1. PICK p : p = Tail(q)
  OBVIOUS
<1>2. PICK n \in Nat : Len(q) = n + 1
  BY SMT
<1>3. PICK m : m = Head(q)
  OBVIOUS
<1>4. PICK left : left = Joined(in, m)
  OBVIOUS
<1>5. /\ p \in Seq(Message) /\ DOMAIN q = 1..(n + 1) /\ DOMAIN p = 1..n
      /\ q[1] = m /\ \A i \in 1..n : p[i] = q[i + 1]
  BY <1>1, <1>2, <1>3
<1>6. ASSUME NEW room
      PROVE  Unnamed(q, 1..(n + 1), room) <=> room \notin m.rooms /\ Unnamed(p, 1..n, room)
  <2>1. \A j \in 1..(n + 1) : j = 1 \/ (j - 1 \in 1..n /\ q[j] = p[j - 1])
    BY <1>5
  <2>2. 1 \in 1..(n + 1) /\ \A j \in 1..n : j + 1 \in 1..(n + 1) /\ p[j] = q[j + 1]
    BY <1>5
  <2>. QED
    BY <1>5, <2>1, <2>2 DEF Unnamed
<1>7. ASSUME NEW room
      PROVE  LastSays(q, 1..(n + 1), room) <=>
                \/ LastSays(p, 1..n, room)
                \/ m.type = "subscribe" /\ room \in m.rooms /\ Unnamed(p, 1..n, room)
  <2>1. ASSUME NEW i \in 1..n
        PROVE  (\A j \in 1..(n + 1) : j > i + 1 => room \notin q[j].rooms)
                  <=> (\A j \in 1..n : j > i => room \notin p[j].rooms)
    <3>1. ASSUME \A j \in 1..(n + 1) : j > i + 1 => room \notin q[j].rooms, NEW j \in 1..n, j > i
          PROVE  room \notin p[j].rooms
      <4>1. j + 1 \in 1..(n + 1) /\ j + 1 > i + 1 /\ p[j] = q[j + 1]
        BY <1>5, <3>1
      <4>. QED
        BY <3>1, <4>1
    <3>2. ASSUME \A j \in 1..n : j > i => room \notin p[j].rooms, NEW j \in 1..(n + 1), j > i + 1
          PROVE  room \notin q[j].rooms
      <4>1. j - 1 \in 1..n /\ j - 1 > i /\ p[j - 1] = q[(j - 1) + 1] /\ (j - 1) + 1 = j
        BY <1>5, <3>2
      <4>. QED
        BY <3>2, <4>1
    <3>. QED
      BY <3>1, <3>2
  <2>2. (\A j \in 1..(n + 1) : j > 1 => room \notin q[j].rooms) <=> Unnamed(p, 1..n, room)
    <3>1. \A j \in 1..(n + 1) : j > 1 => j - 1 \in 1..n /\ q[j] = p[j - 1]
      BY <1>5
    <3>2. \A j \in 1..n : j + 1 \in 1..(n + 1) /\ j + 1 > 1 /\ p[j] = q[j + 1]
      BY <1>5
    <3>. QED
      BY <3>1, <3>2 DEF Unnamed
  <2>3. ASSUME LastSays(q, 1..(n + 1), room)
        PROVE  \/ LastSays(p, 1..n, room)
               \/ m.type = "subscribe" /\ room \in m.rooms /\ Unnamed(p, 1..n, room)
    <3>1. PICK i \in 1..(n + 1) : /\ q[i].type = "subscribe" /\ room \in q[i].rooms
                                  /\ \A j \in 1..(n + 1) : j > i => room \notin q[j].rooms
      BY <2>3 DEF LastSays
    <3>2. CASE i = 1
      BY <1>5, <2>2, <3>1, <3>2
    <3>3. CASE i # 1
      <4>1. PICK k \in 1..n : i = k + 1 /\ q[i] = p[k]
        <5>1. i - 1 \in 1..n /\ i = (i - 1) + 1 /\ p[i - 1] = q[(i - 1) + 1]
          BY <1>5, <3>3
        <5>. QED
          BY <5>1
      <4>. QED
        BY <2>1, <3>1, <4>1 DEF LastSays
    <3>. QED
      BY <3>2, <3>3
  <2>4. ASSUME LastSays(p, 1..n, room)
        PROVE  LastSays(q, 1..(n + 1), room)
    <3>1. PICK i \in 1..n : /\ p[i].type = "subscribe" /\ room \in p[i].rooms
                            /\ \A j \in 1..n : j > i => room \notin p[j].rooms
      BY <2>4 DEF LastSays
    <3>2. i + 1 \in 1..(n + 1) /\ q[i + 1] = p[i]
      BY <1>5
    <3>. QED
      BY <2>1, <3>1, <3>2 DEF LastSays
  <2>5. ASSUME m.type = "subscribe", room \in m.rooms, Unnamed(p, 1..n, room)
        PROVE  LastSays(q, 1..(n + 1), room)
    <3>1. 1 \in 1..(n + 1)
      OBVIOUS
    <3>. QED
      BY <1>5, <2>2, <2>5, <3>1 DEF LastSays
  <2>. QED
    BY <2>3, <2>4, <2>5
<1>8. m.type \in {"subscribe", "unsubscribe"}
  <2>1. m \in Message
    BY <1>3
  <2>. QED
    BY <2>1 DEF Message
<1>9. ASSUME NEW room
      PROVE  room \in Understood(left, p, 1..n) <=> room \in Understood(in, q, 1..(n + 1))
  <2>1. /\ LastSays(q, 1..(n + 1), room) => room \in UNION {q[i].rooms : i \in 1..(n + 1)}
        /\ LastSays(p, 1..n, room) => room \in UNION {p[i].rooms : i \in 1..n}
    BY DEF LastSays
  <2>2. room \in left <=> IF m.type = "subscribe" THEN room \in in \/ room \in m.rooms
                          ELSE room \in in /\ room \notin m.rooms
    BY <1>4 DEF Joined
  <2>3. room \in Understood(left, p, 1..n) <=>
            LastSays(p, 1..n, room) \/ (room \in left /\ Unnamed(p, 1..n, room))
    BY <2>1 DEF Understood
  <2>4. room \in Understood(in, q, 1..(n + 1)) <=>
            LastSays(q, 1..(n + 1), room) \/ (room \in in /\ Unnamed(q, 1..(n + 1), room))
    BY <2>1 DEF Understood
  <2>. QED
    BY <1>6, <1>7, <2>2, <2>3, <2>4
<1>10. Understood(left, p, 1..n) = Understood(in, q, 1..(n + 1))
  BY <1>9
<1>11. Known(left, p) = Understood(left, p, 1..n) /\ Known(in, q) = Understood(in, q, 1..(n + 1))
  BY <1>5, KnownRead
<1>. QED
  BY <1>1, <1>3, <1>4, <1>5, <1>10, <1>11

-----------------------------------------------------------------------------
(* The invariant: a socket that opens is in no room yet, and what an open  *)
(* one is told adds up to the rooms of the page.                           *)

Sock == [tok : Page!Tokens \cup {0}, page : {"closed", "connecting", "open", "closing"},
         lost : BOOLEAN, silent : BOOLEAN, rooms : SUBSET RoomsOfHooks, queue : Seq(Message)]

PageTypes ==
    /\ socks \in [Sockets -> Sock] /\ wsRef \in Sockets \cup {NoSocket}
    /\ rooms \subseteq RoomsOfHooks /\ mounted \subseteq Hooks

Told(t, s, after) == t[s].page = "open" /\ ~t[s].lost => Known(t[s].rooms, t[s].queue) = after
Unopened(s) == socks[s].page = "connecting" => socks[s].rooms = {} /\ ~socks[s].lost

PageInv ==
    /\ PageTypes /\ OneLiveSocket
    /\ \A s \in Sockets : Unopened(s) /\ Told(socks, s, rooms)

(* Names of the instance are those of this module.                         *)
LEMMA SameNames ==
    /\ Page!IsOpen = IsOpen /\ Page!IsLive = IsLive /\ Page!HookRooms = HookRooms
    /\ \A in, m : Page!Joined(in, m) = Joined(in, m)
  BY DEF IsOpen, IsLive, HookRooms, Joined, Page!IsOpen, Page!IsLive, Page!HookRooms, Page!Joined

(* After these messages a server that knew the rooms before knows those    *)
(* after.                                                                  *)
Turns(ms, before, after) ==
    \A in : \A q \in Seq(Message) : Known(in, q) = before => Known(in, q \o ms) = after

(* What subscribe and unsubscribe send reaches the one open socket.        *)
LEMMA SentTells ==
    ASSUME PageAssumption, PageInv, NEW ms \in Seq(Message), NEW after, Turns(ms, rooms, after),
           NEW t, t = Page!Sent(ms)
    PROVE  /\ t \in [Sockets -> Sock]
           /\ \A s \in Sockets : /\ t[s].tok = socks[s].tok /\ t[s].page = socks[s].page
                                 /\ t[s].lost = socks[s].lost /\ t[s].rooms = socks[s].rooms
                                 /\ Told(t, s, after)
<1>1. socks \in [Sockets -> Sock]
  BY DEF PageInv, PageTypes
<1>2. CASE IsOpen
  <2>1. wsRef \in Sockets /\ wsRef # NoSocket
    BY <1>2 DEF IsOpen, PageInv, PageTypes
  <2>2. PICK r : r = [socks[wsRef] EXCEPT !.queue = socks[wsRef].queue \o ms]
    OBVIOUS
  <2>3. t = [socks EXCEPT ![wsRef] = r]
    BY <1>2, <2>2, SameNames DEF Page!Sent
  <2>4. PICK o \in Sock : o = socks[wsRef]
    BY <1>1, <2>1
  <2>5. /\ r \in Sock /\ r.tok = o.tok /\ r.page = o.page /\ r.lost = o.lost /\ r.rooms = o.rooms
        /\ o.queue \in Seq(Message) /\ r.queue = o.queue \o ms
    <3>1. PICK p : p = o.queue \o ms
      OBVIOUS
    <3>2. o.queue \in Seq(Message) /\ p \in Seq(Message)
      <4>1. o.queue \in Seq(Message)
        BY DEF Sock
      <4>. QED
        BY <3>1, <4>1
    <3>3. r = [o EXCEPT !.queue = p]
      BY <2>2, <2>4, <3>1
    <3>. QED
      BY <3>1, <3>2, <3>3 DEF Sock
  <2>6. ~o.lost => Known(r.rooms, r.queue) = after
    <3>1. ~o.lost => Known(o.rooms, o.queue) = rooms
      BY <1>2, <2>1, <2>4 DEF PageInv, Told, IsOpen
    <3>. QED
      BY <2>5, <3>1 DEF Turns
  <2>7. \A s \in Sockets : socks[s].page = "open" => s = wsRef
    BY DEF PageInv, OneLiveSocket
  <2>8. t \in [Sockets -> Sock] /\ t[wsRef] = r /\ \A s \in Sockets \ {wsRef} : t[s] = socks[s]
    BY <1>1, <2>1, <2>3, <2>5
  <2>. QED
    BY <2>1, <2>4, <2>5, <2>6, <2>7, <2>8 DEF Told
<1>3. CASE ~IsOpen
  <2>1. t = socks
    BY <1>3, SameNames DEF Page!Sent
  <2>2. ASSUME NEW s \in Sockets, socks[s].page = "open"
        PROVE  FALSE
    <3>1. s = wsRef
      BY <2>2 DEF PageInv, OneLiveSocket
    <3>. QED
      BY <1>3, <2>2, <3>1 DEF IsOpen, PageAssumption
  <2>. QED
    BY <1>1, <2>1, <2>2 DEF Told
<1>. QED
  BY <1>2, <1>3

(* Either of them, alone, or one after the other.                          *)
LEMMA TellOne ==
    ASSUME NEW type \in {"subscribe", "unsubscribe"}, NEW changed \in SUBSET RoomsOfHooks,
           NEW ms, ms = Page!Tell(type, changed)
    PROVE  /\ ms \in Seq(Message)
           /\ \A before : Turns(ms, before, IF type = "subscribe" THEN before \cup changed
                                                                 ELSE before \ changed)
<1>1. CASE changed = {}
  <2>1. ms = <<>>
    BY <1>1 DEF Page!Tell
  <2>2. \A q \in Seq(Message) : q \o ms = q
    BY <2>1
  <2>3. ms \in Seq(Message)
    BY <2>1
  <2>. QED
    BY <1>1, <2>2, <2>3 DEF Turns
<1>2. CASE changed # {}
  <2>1. PICK m : m = [type |-> type, rooms |-> changed]
    OBVIOUS
  <2>2. m \in Message /\ m.type = type /\ m.rooms = changed
    BY <2>1 DEF Message, RoomsOfHooks
  <2>3. ms = <<m>> /\ ms \in Seq(Message)
    BY <1>2, <2>1, <2>2 DEF Page!Tell
  <2>4. ASSUME NEW in, NEW q \in Seq(Message)
        PROVE  Known(in, q \o ms) = IF type = "subscribe" THEN Known(in, q) \cup changed
                                                          ELSE Known(in, q) \ changed
    <3>1. q \o ms = Append(q, m)
      BY <2>2, <2>3
    <3>2. Known(in, Append(q, m)) = Joined(Known(in, q), m)
      BY <2>2, KnownMore
    <3>. QED
      BY <2>2, <3>1, <3>2 DEF Joined
  <2>. QED
    BY <2>3, <2>4 DEF Turns
<1>. QED
  BY <1>1, <1>2

LEMMA TellTwo ==
    ASSUME NEW ms \in Seq(Message), NEW more \in Seq(Message), NEW a, NEW b, NEW c,
           Turns(ms, a, b), Turns(more, b, c)
    PROVE  ms \o more \in Seq(Message) /\ Turns(ms \o more, a, c)
<1>1. ASSUME NEW in, NEW q \in Seq(Message), Known(in, q) = a
      PROVE  Known(in, q \o (ms \o more)) = c
  <2>1. PICK p : p = q \o ms
    OBVIOUS
  <2>2. p \in Seq(Message) /\ q \o (ms \o more) = p \o more
    BY <2>1
  <2>3. Known(in, p) = b
    BY <1>1, <2>1 DEF Turns
  <2>4. Known(in, p \o more) = c
    BY ONLY Turns(more, b, c), <2>2, <2>3 DEF Turns
  <2>. QED
    BY ONLY <2>2, <2>4
<1>. QED
  BY <1>1 DEF Turns

-----------------------------------------------------------------------------
(* The actions, one by one.                                                *)

LEMMA PageBegins ==
    ASSUME PageAssumption, Page!Init
    PROVE  PageInv
<1>1. PICK q : q = <<>>
  OBVIOUS
<1>2. q \in Seq(Message)
  BY <1>1
<1>3. PICK c : c = Page!Closed
  OBVIOUS
<1>4. c \in Sock /\ c.page = "closed"
  BY <1>1, <1>2, <1>3 DEF Sock, Page!Closed
<1>5. socks = [s \in Sockets |-> c]
  BY <1>3 DEF Page!Init
<1>. HIDE DEF Sock
<1>. QED
  BY <1>4, <1>5 DEF Page!Init, PageInv, PageTypes, OneLiveSocket, Told, Unopened

(* What subscribe and unsubscribe leave behind.                            *)
LEMMA TellingKeeps ==
    ASSUME PageAssumption, PageInv, NEW ms \in Seq(Message), Turns(ms, rooms, rooms'),
           socks' = Page!Sent(ms), rooms' \subseteq RoomsOfHooks, mounted' \subseteq Hooks,
           UNCHANGED wsRef
    PROVE  PageInv'
<1>1. PICK t : t = Page!Sent(ms)
  OBVIOUS
<1>2. PICK after : after = rooms'
  OBVIOUS
<1>3. /\ t \in [Sockets -> Sock]
      /\ \A s \in Sockets : /\ t[s].tok = socks[s].tok /\ t[s].page = socks[s].page
                            /\ t[s].lost = socks[s].lost /\ t[s].rooms = socks[s].rooms
                            /\ Told(t, s, after)
  <2>1. Turns(ms, rooms, after)
    BY <1>2
  <2>. QED
    BY <1>1, <2>1, SentTells
<1>4. socks' = t
  BY <1>1
<1>5. PageTypes'
  BY <1>3, <1>4 DEF PageTypes, PageInv
<1>6. OneLiveSocket'
  BY <1>3, <1>4 DEF OneLiveSocket, PageInv
<1>7. \A s \in Sockets : Unopened(s)' /\ Told(socks, s, rooms)'
  BY <1>2, <1>3, <1>4 DEF Unopened, Told, PageInv
<1>. QED
  BY <1>5, <1>6, <1>7 DEF PageInv

LEMMA MountKeeps ==
    ASSUME PageAssumption, PageInv, NEW h \in Hooks, Page!Mount(h)
    PROVE  PageInv'
<1>1. Room[h] \in RoomsOfHooks /\ rooms \subseteq RoomsOfHooks /\ mounted' \subseteq Hooks
  BY DEF RoomsOfHooks, PageInv, PageTypes, Page!Mount
<1>2. CASE connected
  <2>1. PICK ms : ms = Page!Tell("subscribe", {Room[h]} \ rooms)
    OBVIOUS
  <2>2. rooms' = rooms \cup {Room[h]} /\ socks' = Page!Sent(ms) /\ UNCHANGED wsRef
    BY <1>2, <2>1 DEF Page!Mount, Page!Subscribe
  <2>3. PICK d \in SUBSET RoomsOfHooks : d = {Room[h]} \ rooms
    BY <1>1
  <2>4. ms \in Seq(Message) /\ Turns(ms, rooms, rooms \cup d)
    BY <2>1, <2>3, TellOne
  <2>5. rooms \cup d = rooms'
    BY <2>2, <2>3
  <2>. QED
    BY <1>1, <2>2, <2>4, <2>5, TellingKeeps
<1>3. CASE ~connected
  BY <1>1, <1>3 DEF Page!Mount, PageInv, PageTypes, OneLiveSocket, Unopened, Told
<1>. QED
  BY <1>2, <1>3

LEMMA UnmountKeeps ==
    ASSUME PageAssumption, PageInv, NEW h \in Hooks, Page!Unmount(h)
    PROVE  PageInv'
<1>1. Room[h] \in RoomsOfHooks /\ rooms \subseteq RoomsOfHooks /\ mounted' \subseteq Hooks
  BY DEF RoomsOfHooks, PageInv, PageTypes, Page!Unmount
<1>2. CASE connected
  <2>1. PICK ms : ms = Page!Tell("unsubscribe", {Room[h]} \cap rooms)
    OBVIOUS
  <2>2. rooms' = rooms \ {Room[h]} /\ socks' = Page!Sent(ms) /\ UNCHANGED wsRef
    BY <1>2, <2>1 DEF Page!Unmount, Page!Unsubscribe
  <2>3. PICK d \in SUBSET RoomsOfHooks : d = {Room[h]} \cap rooms
    BY <1>1
  <2>4. ms \in Seq(Message) /\ Turns(ms, rooms, rooms \ d)
    BY <2>1, <2>3, TellOne
  <2>5. rooms \ d = rooms'
    BY <2>2, <2>3
  <2>. QED
    BY <1>1, <2>2, <2>4, <2>5, TellingKeeps
<1>3. CASE ~connected
  BY <1>1, <1>3 DEF Page!Unmount, PageInv, PageTypes, OneLiveSocket, Unopened, Told
<1>. QED
  BY <1>2, <1>3

LEMMA EffectAgainKeeps ==
    ASSUME PageAssumption, PageInv, NEW h \in Hooks, Page!EffectAgain(h)
    PROVE  PageInv'
<1>1. Room[h] \in RoomsOfHooks /\ rooms \subseteq RoomsOfHooks
  BY DEF RoomsOfHooks, PageInv, PageTypes
<1>2. mounted' \subseteq Hooks
  BY DEF PageInv, PageTypes, Page!EffectAgain, Page!atPage
<1>3. PICK d \in SUBSET RoomsOfHooks : d = {Room[h]} \cap rooms
  BY <1>1
<1>4. PICK e \in SUBSET RoomsOfHooks : e = {Room[h]}
  BY <1>1
<1>5. PICK ms : ms = Page!Tell("unsubscribe", d)
  OBVIOUS
<1>6. PICK more : more = Page!Tell("subscribe", e)
  OBVIOUS
<1>7. rooms' = rooms \cup e /\ socks' = Page!Sent(ms \o more) /\ UNCHANGED wsRef
  BY <1>3, <1>4, <1>5, <1>6 DEF Page!EffectAgain
<1>8. ms \in Seq(Message) /\ Turns(ms, rooms, rooms \ d)
  BY <1>5, TellOne
<1>9. more \in Seq(Message) /\ Turns(more, rooms \ d, (rooms \ d) \cup e)
  BY <1>6, TellOne
<1>10. (rooms \ d) \cup e = rooms'
  BY <1>3, <1>4, <1>7
<1>11. ms \o more \in Seq(Message) /\ Turns(ms \o more, rooms, rooms')
  BY <1>8, <1>9, <1>10, TellTwo
<1>. QED
  BY <1>1, <1>2, <1>4, <1>7, <1>11, TellingKeeps

(* The cleanup of the effect leaves no socket alive.                       *)
LEMMA CleanupKeeps ==
    ASSUME PageAssumption, PageInv, Page!Cleanup, rooms' \subseteq RoomsOfHooks,
           mounted' \subseteq Hooks
    PROVE  PageInv'
<1>1. socks \in [Sockets -> Sock]
  BY DEF PageInv, PageTypes
<1>2. \A s \in Sockets : socks[s].page \in {"connecting", "open"} => s = wsRef
  BY DEF PageInv, OneLiveSocket
<1>3. /\ socks' \in [Sockets -> Sock]
      /\ \A s \in Sockets : socks'[s].page \notin {"connecting", "open"}
  <2>1. CASE IsLive
    <3>1. wsRef \in Sockets
      BY <2>1 DEF IsLive, PageInv, PageTypes
    <3>2. PICK r : r = [[Page!Closed EXCEPT !.tok = socks[wsRef].tok] EXCEPT !.page = "closing"]
      OBVIOUS
    <3>3. r \in Sock /\ r.page = "closing"
      <4>1. PICK o \in Sock : o = socks[wsRef]
        BY <1>1, <3>1
      <4>2. PICK q : q = <<>>
        OBVIOUS
      <4>3. q \in Seq(Message)
        BY <4>2
      <4>4. r = [tok |-> o.tok, page |-> "closing", lost |-> FALSE, silent |-> FALSE, rooms |-> {}, queue |-> q]
        BY <3>2, <4>1, <4>2 DEF Page!Closed
      <4>. QED
        BY <4>3, <4>4 DEF Sock
    <3>4. socks' = [socks EXCEPT ![wsRef] = r]
      BY <2>1, <3>2, SameNames DEF Page!Cleanup, Page!ClosedRef
    <3>. HIDE DEF Sock
    <3>. QED
      BY <1>1, <1>2, <3>1, <3>3, <3>4
  <2>2. CASE ~IsLive
    <3>1. socks' = socks
      BY <2>2, SameNames DEF Page!Cleanup, Page!ClosedRef
    <3>2. ASSUME NEW s \in Sockets, socks[s].page \in {"connecting", "open"}
          PROVE  FALSE
      <4>1. s = wsRef
        BY <1>2, <3>2
      <4>. QED
        BY <2>2, <3>2, <4>1 DEF IsLive, PageAssumption
    <3>. QED
      BY <1>1, <3>1, <3>2
  <2>. QED
    BY <2>1, <2>2
<1>4. PageTypes'
  BY <1>3 DEF PageTypes, Page!Cleanup
<1>. QED
  BY <1>3, <1>4 DEF PageInv, OneLiveSocket, Unopened, Told

(* The timer of connect opens a socket only where none is alive.           *)
LEMMA DelayOverKeeps ==
    ASSUME PageAssumption, PageInv, NEW t \in Page!Tokens, Page!DelayOver(t)
    PROVE  PageInv'
<1>1. socks \in [Sockets -> Sock] /\ UNCHANGED <<rooms, mounted>>
  BY DEF PageInv, PageTypes, Page!DelayOver, Page!atPage
<1>2. CASE IsLive
  <2>1. UNCHANGED <<socks, wsRef>>
    BY <1>2, SameNames DEF Page!DelayOver
  <2>. QED
    BY <1>1, <2>1 DEF PageInv, PageTypes, OneLiveSocket, Unopened, Told
<1>3. CASE ~IsLive
  <2>1. PICK s \in Sockets :
           /\ socks[s].page = "closed"
           /\ socks' = [socks EXCEPT ![s] = [Page!Closed EXCEPT !.tok = t, !.page = "connecting"]]
           /\ wsRef' = s
    BY <1>3, SameNames DEF Page!DelayOver
  <2>2. PICK r : r = [Page!Closed EXCEPT !.tok = t, !.page = "connecting"]
    OBVIOUS
  <2>3. r \in Sock /\ r.page = "connecting" /\ r.rooms = {} /\ ~r.lost
    <3>1. PICK q : q = <<>>
      OBVIOUS
    <3>2. q \in Seq(Message)
      BY <3>1
    <3>3. r = [tok |-> t, page |-> "connecting", lost |-> FALSE, silent |-> FALSE, rooms |-> {}, queue |-> q]
      BY <2>2, <3>1 DEF Page!Closed
    <3>. QED
      BY <3>2, <3>3 DEF Sock
  <2>4. /\ socks' \in [Sockets -> Sock] /\ socks'[s] = r
        /\ \A o \in Sockets \ {s} : socks'[o] = socks[o]
    BY <1>1, <2>1, <2>2, <2>3
  <2>5. ASSUME NEW o \in Sockets, socks[o].page \in {"connecting", "open"}
        PROVE  FALSE
    <3>1. o = wsRef
      BY <2>5 DEF PageInv, OneLiveSocket
    <3>. QED
      BY <1>3, <2>5, <3>1 DEF IsLive, PageAssumption
  <2>6. PageTypes'
    BY <1>1, <2>1, <2>4 DEF PageInv, PageTypes
  <2>7. OneLiveSocket'
    BY <2>1, <2>4, <2>5 DEF OneLiveSocket
  <2>8. \A o \in Sockets : Unopened(o)' /\ Told(socks, o, rooms)'
    BY <2>3, <2>4, <2>5 DEF Unopened, Told
  <2>. QED
    BY <2>6, <2>7, <2>8 DEF PageInv
<1>. QED
  BY <1>2, <1>3

(* An event of one socket.                                                 *)
LEMMA OneChanges ==
    ASSUME PageInv, NEW s \in Sockets, NEW r \in Sock, socks' = [socks EXCEPT ![s] = r],
           rooms' \subseteq RoomsOfHooks, UNCHANGED <<mounted, wsRef>>,
           r.page \in {"connecting", "open"} => socks[s].page \in {"connecting", "open"},
           r.page # "connecting" \/ (r.rooms = {} /\ ~r.lost),
           r.page = "open" /\ ~r.lost => Known(r.rooms, r.queue) = rooms',
           rooms' = rooms \/ socks[s].page \in {"connecting", "open"}
    PROVE  PageInv'
<1>1. socks \in [Sockets -> Sock]
  BY DEF PageInv, PageTypes
<1>2. /\ socks' \in [Sockets -> Sock] /\ socks'[s] = r
      /\ \A o \in Sockets \ {s} : socks'[o] = socks[o]
  BY <1>1
<1>3. PageTypes'
  BY <1>2 DEF PageInv, PageTypes
<1>4. OneLiveSocket'
  BY <1>2 DEF PageInv, OneLiveSocket
<1>5. Unopened(s)' /\ Told(socks, s, rooms)'
  BY <1>2 DEF Unopened, Told
<1>6. ASSUME NEW o \in Sockets \ {s}
      PROVE  Unopened(o)' /\ Told(socks, o, rooms)'
  <2>1. rooms' = rooms \/ socks[o].page \notin {"connecting", "open"}
    BY <1>6 DEF PageInv, OneLiveSocket
  <2>. QED
    BY <1>2, <2>1 DEF PageInv, Unopened, Told
<1>. QED
  BY <1>3, <1>4, <1>5, <1>6 DEF PageInv

LEMMA OpenKeeps ==
    ASSUME PageAssumption, PageInv, NEW s \in Sockets, Page!Open(s)
    PROVE  PageInv'
<1>1. PICK wanted : wanted = IF connected THEN {} ELSE HookRooms
  OBVIOUS
<1>2. wanted \in SUBSET RoomsOfHooks /\ rooms \in SUBSET RoomsOfHooks
  BY <1>1 DEF HookRooms, RoomsOfHooks, PageInv, PageTypes
<1>3. PICK ms : ms = Page!Tell("subscribe", rooms)
  OBVIOUS
<1>4. PICK new \in SUBSET RoomsOfHooks : new = wanted \ rooms
  BY <1>2
<1>5. PICK more : more = Page!Tell("subscribe", new)
  OBVIOUS
<1>6. ms \in Seq(Message) /\ Turns(ms, {}, {} \cup rooms)
  BY <1>2, <1>3, TellOne
<1>7. more \in Seq(Message) /\ Turns(more, rooms, rooms \cup new)
  BY <1>5, TellOne
<1>8. {} \cup rooms = rooms
  OBVIOUS
<1>9. PICK all : all = ms \o more
  OBVIOUS
<1>10. all \in Seq(Message) /\ Turns(all, {}, rooms \cup new)
  BY <1>6, <1>7, <1>8, <1>9, TellTwo
<1>11. Known({}, all) = rooms \cup new
  <2>1. PICK q : q = <<>>
    OBVIOUS
  <2>2. q \in Seq(Message) /\ Known({}, q) = {} /\ q \o all = all
    BY <1>10, <2>1, KnownAtFirst
  <2>. QED
    BY <1>10, <2>2 DEF Turns
<1>12. PICK o \in Sock : o = socks[s]
  BY DEF PageInv, PageTypes
<1>13. PICK r : r = [[o EXCEPT !.page = "open"] EXCEPT !.queue = all]
  OBVIOUS
<1>14. /\ r \in Sock /\ r.page = "open" /\ r.rooms = o.rooms /\ r.lost = o.lost /\ r.queue = all
  BY <1>10, <1>13 DEF Sock
<1>15. /\ o.page = "connecting" /\ rooms' = rooms \cup wanted /\ UNCHANGED <<mounted, wsRef>>
       /\ socks' = [socks EXCEPT ![s].page = "open", ![s].queue = all]
  BY <1>1, <1>3, <1>4, <1>5, <1>9, <1>12, SameNames DEF Page!Open, Page!atPage
<1>16. socks' = [socks EXCEPT ![s] = r]
  <2>1. socks \in [Sockets -> Sock]
    BY DEF PageInv, PageTypes
  <2>. QED
    BY <1>12, <1>13, <1>15, <2>1
<1>17. o.rooms = {}
  BY <1>12, <1>15 DEF PageInv, Unopened
<1>18. rooms' = rooms \cup new /\ rooms' \subseteq RoomsOfHooks
  BY <1>2, <1>4, <1>15
<1>19. Known(r.rooms, r.queue) = rooms'
  BY <1>11, <1>14, <1>17, <1>18
<1>20. socks[s].page \in {"connecting", "open"} /\ r.page # "connecting"
  BY <1>12, <1>14, <1>15
<1>. HIDE DEF Sock
<1>. QED
  BY <1>14, <1>15, <1>16, <1>18, <1>19, <1>20, OneChanges

LEMMA RefusedKeeps ==
    ASSUME PageInv, NEW s \in Sockets, Page!Refused(s)
    PROVE  PageInv'
<1>1. PICK o \in Sock : o = socks[s]
  BY DEF PageInv, PageTypes
<1>2. PICK r : r = [o EXCEPT !.page = "closing"]
  OBVIOUS
<1>3. r \in Sock /\ r.page = "closing"
  BY <1>2 DEF Sock
<1>4. socks' = [socks EXCEPT ![s] = r] /\ UNCHANGED <<mounted, wsRef, rooms>>
  BY <1>1, <1>2 DEF Page!Refused, Page!atPage
<1>5. rooms' \subseteq RoomsOfHooks
  BY <1>4 DEF PageInv, PageTypes
<1>. QED
  BY <1>3, <1>4, <1>5, OneChanges

LEMMA LostKeeps ==
    ASSUME PageInv, NEW s \in Sockets, Page!Lost(s)
    PROVE  PageInv'
<1>1. PICK o \in Sock : o = socks[s]
  BY DEF PageInv, PageTypes
<1>6. PICK told \in BOOLEAN :
         socks' = [socks EXCEPT ![s] = [@ EXCEPT !.lost = TRUE, !.silent = ~told,
                                                 !.rooms = {}, !.queue = <<>>]]
  BY DEF Page!Lost
<1>7. PICK r : r = [o EXCEPT !.lost = TRUE, !.silent = ~told, !.rooms = {}, !.queue = <<>>]
  OBVIOUS
<1>2. /\ r = [o EXCEPT !.lost = TRUE, !.silent = ~told, !.rooms = {}, !.queue = <<>>]
      /\ socks' = [socks EXCEPT ![s] = r]
  BY <1>1, <1>6, <1>7
<1>3. r \in Sock /\ r.page = o.page /\ r.lost
  <2>1. PICK q : q = <<>>
    OBVIOUS
  <2>2. q \in Seq(Message)
    BY <2>1
  <2>. QED
    BY <1>2, <2>1, <2>2 DEF Sock
<1>4. o.page = "open" /\ socks' = [socks EXCEPT ![s] = r] /\ UNCHANGED <<mounted, wsRef, rooms>>
  BY <1>1, <1>2 DEF Page!Lost, Page!atPage
<1>5. rooms' \subseteq RoomsOfHooks
  BY <1>4 DEF PageInv, PageTypes
<1>. QED
  BY <1>1, <1>3, <1>4, <1>5, OneChanges

LEMMA DeliverKeeps ==
    ASSUME PageInv, NEW s \in Sockets, Page!Deliver(s)
    PROVE  PageInv'
<1>1. PICK o \in Sock : o = socks[s]
  BY DEF PageInv, PageTypes
<1>2. o.page = "open" /\ ~o.lost /\ o.queue # <<>> /\ o.queue \in Seq(Message)
  BY <1>1 DEF Page!Deliver, Sock
<1>3. PICK in : in = Joined(o.rooms, Head(o.queue))
  OBVIOUS
<1>4. PICK q : q = Tail(o.queue)
  OBVIOUS
<1>5. q \in Seq(Message) /\ Known(in, q) = Known(o.rooms, o.queue)
  BY <1>2, <1>3, <1>4, KnownRest
<1>6. in \subseteq RoomsOfHooks
  <2>1. Head(o.queue) \in Message
    BY <1>2
  <2>. QED
    BY <1>3, <2>1 DEF Message, RoomsOfHooks, Joined, Sock
<1>7. PICK r : r = [[o EXCEPT !.rooms = in] EXCEPT !.queue = q]
  OBVIOUS
<1>8. r \in Sock /\ r.page = "open" /\ r.rooms = in /\ r.queue = q /\ r.lost = o.lost
  BY <1>2, <1>5, <1>6, <1>7 DEF Sock
<1>9. socks' = [socks EXCEPT ![s].rooms = in, ![s].queue = q] /\ UNCHANGED <<mounted, wsRef, rooms>>
  BY <1>1, <1>3, <1>4, SameNames DEF Page!Deliver, Page!atPage
<1>10. socks' = [socks EXCEPT ![s] = r]
  <2>1. socks \in [Sockets -> Sock]
    BY DEF PageInv, PageTypes
  <2>. QED
    BY <1>1, <1>7, <1>9, <2>1
<1>11. rooms' \subseteq RoomsOfHooks /\ Known(o.rooms, o.queue) = rooms
  BY <1>1, <1>2, <1>9 DEF PageInv, PageTypes, Told
<1>. QED
  BY <1>1, <1>2, <1>5, <1>8, <1>9, <1>10, <1>11, OneChanges

(* The page gives up its rooms on the close event of any of its sockets,   *)
(* and tells the one that may be open by now.                              *)
LEMMA CloseEventKeeps ==
    ASSUME PageAssumption, PageInv, NEW s \in Sockets, Page!CloseEvent(s)
    PROVE  PageInv'
<1>1. PICK gone : gone = IF connected THEN HookRooms ELSE {}
  OBVIOUS
<1>2. PICK d \in SUBSET RoomsOfHooks : d = gone \cap rooms
  BY DEF PageInv, PageTypes
<1>3. PICK ms : ms = Page!Tell("unsubscribe", d)
  OBVIOUS
<1>4. PICK told : told = IF wsRef = s THEN socks ELSE Page!Sent(ms)
  OBVIOUS
<1>5. PICK c : c = Page!Closed
  OBVIOUS
<1>6. PICK after : after = rooms'
  OBVIOUS
<1>7. /\ rooms' = rooms \ gone /\ UNCHANGED <<mounted, wsRef>>
      /\ socks' = [told EXCEPT ![s] = c]
      /\ socks[s].page = "closing" \/ socks[s].lost
  BY <1>1, <1>2, <1>3, <1>4, <1>5, SameNames DEF Page!CloseEvent, Page!atPage
<1>8. c \in Sock /\ c.page = "closed"
  <2>1. PICK q : q = <<>>
    OBVIOUS
  <2>2. q \in Seq(Message)
    BY <2>1
  <2>. QED
    BY <1>5, <2>1, <2>2 DEF Sock, Page!Closed
<1>9. /\ told \in [Sockets -> Sock]
      /\ \A o \in Sockets : told[o].page = socks[o].page
      /\ \A o \in Sockets \ {s} : /\ told[o].lost = socks[o].lost /\ told[o].rooms = socks[o].rooms
                                  /\ Told(told, o, after)
  <2>. HIDE DEF Sock
  <2>1. CASE wsRef = s
    <3>1. told = socks /\ socks \in [Sockets -> Sock]
      BY <1>4, <2>1 DEF PageInv, PageTypes
    <3>2. \A o \in Sockets \ {s} : socks[o].page # "open"
      BY <2>1 DEF PageInv, OneLiveSocket
    <3>. QED
      BY <3>1, <3>2 DEF Told
  <2>2. CASE wsRef # s
    <3>1. told = Page!Sent(ms)
      BY <1>4, <2>2
    <3>2. ms \in Seq(Message) /\ Turns(ms, rooms, rooms \ d)
      BY <1>3, TellOne
    <3>3. rooms \ d = after
      BY <1>2, <1>6, <1>7
    <3>4. Turns(ms, rooms, after)
      BY <3>2, <3>3
    <3>. QED
      BY <3>1, <3>2, <3>4, SentTells
  <2>. QED
    BY <2>1, <2>2
<1>. HIDE DEF Sock
<1>10. /\ socks' \in [Sockets -> Sock] /\ socks'[s] = c
       /\ \A o \in Sockets \ {s} : socks'[o] = told[o]
  BY <1>7, <1>8, <1>9
<1>11. PageTypes'
  BY <1>7, <1>10 DEF PageInv, PageTypes
<1>12. OneLiveSocket'
  BY <1>7, <1>8, <1>9, <1>10 DEF PageInv, OneLiveSocket
<1>13. ASSUME NEW o \in Sockets \ {s}
       PROVE  Unopened(o)' /\ Told(socks, o, rooms)'
  BY <1>6, <1>9, <1>10 DEF PageInv, Unopened, Told
<1>14. Unopened(s)' /\ Told(socks, s, rooms)'
  BY <1>8, <1>10 DEF Unopened, Told
<1>. QED
  BY <1>11, <1>12, <1>13, <1>14 DEF PageInv

-----------------------------------------------------------------------------
(* All together.                                                           *)

LEMMA PageSteps == ASSUME PageAssumption, PageInv, [Page!Next]_(Page!vars) PROVE PageInv'
<1>1. rooms \subseteq RoomsOfHooks /\ mounted \subseteq Hooks
  BY DEF PageInv, PageTypes
<1>2. ASSUME NEW tok, Page!EffectRuns(tok)
      PROVE  PageInv'
  BY <1>1, <1>2, CleanupKeeps DEF Page!EffectRuns
<1>3. CASE Page!Login \/ Page!Render
  BY <1>2, <1>3 DEF Page!Login, Page!Render
<1>4. CASE Page!Logout
  BY <1>4, CleanupKeeps DEF Page!Logout
<1>5. CASE \E h \in Hooks : Page!Mount(h) \/ Page!Unmount(h) \/ Page!EffectAgain(h)
  BY <1>5, MountKeeps, UnmountKeeps, EffectAgainKeeps
<1>6. ASSUME UNCHANGED <<socks, wsRef, rooms, mounted>>
      PROVE  PageInv'
  BY <1>6 DEF PageInv, PageTypes, OneLiveSocket, Unopened, Told
<1>7. CASE Page!RetryOver
  BY <1>6, <1>7 DEF Page!RetryOver, Page!atPage
<1>8. CASE \E t \in Page!Tokens : Page!DelayOver(t) \/ Page!OrphanOver(t)
  BY <1>6, <1>8, DelayOverKeeps DEF Page!OrphanOver, Page!atPage
<1>9. CASE \E s \in Sockets : \/ Page!Open(s) \/ Page!CloseEvent(s) \/ Page!Refused(s)
                              \/ Page!Lost(s) \/ Page!Deliver(s)
  BY <1>9, OpenKeeps, CloseEventKeeps, RefusedKeeps, LostKeeps, DeliverKeeps
<1>10. CASE UNCHANGED Page!vars
  BY <1>6, <1>10 DEF Page!vars, Page!atPage
<1>. QED
  BY <1>3, <1>4, <1>5, <1>7, <1>8, <1>9, <1>10 DEF Page!Next

(* The socket of the page and what it is told are in order in every state  *)
(* that the page can reach.                                                *)
THEOREM PageInvariant == ASSUME PageAssumption PROVE Page!Spec => []PageInv
<1>1. Page!Init => PageInv
  BY PageBegins
<1>2. PageInv /\ [Page!Next]_(Page!vars) => PageInv'
  BY PageSteps
<1>. QED
  BY <1>1, <1>2, PTL DEF Page!Spec

(* Whatever timers, close events and renderings race, a page never has two *)
(* sockets that are connecting or open.                                    *)
THEOREM OneSocketForAPage == ASSUME PageAssumption PROVE Page!Spec => []OneLiveSocket
<1>1. PageInv => OneLiveSocket
  BY DEF PageInv
<1>. QED
  BY <1>1, PageInvariant, PTL

(* Once the server has read what an open socket was told, it has the page  *)
(* in the rooms of subscribedRoomsRef, even if hooks share rooms.          *)
THEOREM ServerLearnsRooms == ASSUME PageAssumption PROVE Page!Spec => []ServerFollows
<1>1. PageInv => ServerFollows
  BY DEF PageInv, PageTypes, ServerFollows, Told, Known, IsOpen
<1>. QED
  BY <1>1, PageInvariant, PTL

(* The rooms of the page: whatever changes the connection or the hooks     *)
(* changes them alike.                                                     *)
LEMMA PageFollowsSteps ==
    ASSUME OwnRooms, mounted \subseteq Hooks, PageFollows, [Page!Next]_(Page!vars)
    PROVE  PageFollows'
<1>1. CASE Page!Login \/ Page!Render
  BY <1>1 DEF Page!Login, Page!Render, Page!EffectRuns, PageFollows, HookRooms
<1>2. CASE Page!Logout
  BY <1>2 DEF Page!Logout, PageFollows, HookRooms
<1>3. ASSUME NEW h \in Hooks, Page!Mount(h)
      PROVE  PageFollows'
  <2>1. mounted' = mounted \cup {h} /\ UNCHANGED connected
    BY <1>3 DEF Page!Mount
  <2>2. HookRooms' = HookRooms \cup {Room[h]}
    BY <2>1 DEF HookRooms
  <2>3. rooms' = IF connected THEN rooms \cup {Room[h]} ELSE rooms
    BY <1>3 DEF Page!Mount, Page!Subscribe
  <2>. QED
    BY <2>1, <2>2, <2>3 DEF PageFollows
<1>4. ASSUME NEW h \in Hooks, Page!Unmount(h)
      PROVE  PageFollows'
  <2>1. mounted' = mounted \ {h} /\ UNCHANGED connected
    BY <1>4 DEF Page!Unmount
  <2>2. HookRooms' = HookRooms \ {Room[h]}
    BY <2>1 DEF HookRooms, OwnRooms
  <2>3. rooms' = IF connected THEN rooms \ {Room[h]} ELSE rooms
    BY <1>4 DEF Page!Unmount, Page!Unsubscribe
  <2>. QED
    BY <2>1, <2>2, <2>3 DEF PageFollows
<1>5. ASSUME NEW h \in Hooks, Page!EffectAgain(h)
      PROVE  PageFollows'
  <2>1. /\ connected /\ h \in mounted /\ UNCHANGED <<connected, mounted>>
        /\ rooms' = rooms \cup {Room[h]}
    BY <1>5 DEF Page!EffectAgain, Page!atPage
  <2>. QED
    BY <2>1 DEF PageFollows, HookRooms
<1>6. ASSUME UNCHANGED <<connected, rooms, mounted>>
      PROVE  PageFollows'
  BY <1>6 DEF PageFollows, HookRooms
<1>7. CASE Page!RetryOver \/ \E t \in Page!Tokens : Page!DelayOver(t) \/ Page!OrphanOver(t)
  BY <1>6, <1>7 DEF Page!RetryOver, Page!DelayOver, Page!OrphanOver, Page!atPage
<1>8. ASSUME NEW s \in Sockets, Page!Open(s)
      PROVE  PageFollows'
  <2>1. /\ rooms' = rooms \cup (IF connected THEN {} ELSE HookRooms)
        /\ connected' = TRUE /\ UNCHANGED mounted
    BY <1>8, SameNames DEF Page!Open, Page!atPage
  <2>2. HookRooms' = HookRooms
    BY <2>1 DEF HookRooms
  <2>. QED
    BY <2>1, <2>2 DEF PageFollows
<1>9. ASSUME NEW s \in Sockets, Page!CloseEvent(s)
      PROVE  PageFollows'
  <2>1. rooms' = rooms \ (IF connected THEN HookRooms ELSE {}) /\ connected' = FALSE
    BY <1>9, SameNames DEF Page!CloseEvent
  <2>. QED
    BY <2>1 DEF PageFollows
<1>10. CASE \E s \in Sockets : Page!Refused(s) \/ Page!Lost(s) \/ Page!Deliver(s)
  BY <1>6, <1>10 DEF Page!Refused, Page!Lost, Page!Deliver, Page!atPage
<1>11. CASE UNCHANGED Page!vars
  BY <1>6, <1>11 DEF Page!vars, Page!atPage
<1>. QED
  BY <1>1, <1>2, <1>3, <1>4, <1>5, <1>7, <1>8, <1>9, <1>10, <1>11 DEF Page!Next

(* If no two hooks share a room, the server and subscribedRoomsRef also    *)
(* agree with the hooks on the page.                                       *)
THEOREM TwoSidesAgree == ASSUME PageAssumption, OwnRooms PROVE Page!Spec => []RoomsAgree
<1>1. Page!Init => PageFollows
  BY DEF Page!Init, PageFollows
<1>2. PageInv /\ PageFollows /\ [Page!Next]_(Page!vars) => PageFollows'
  BY PageFollowsSteps DEF PageInv, PageTypes
<1>3. ServerFollows /\ PageFollows => RoomsAgree
  BY DEF RoomsAgree
<1>. QED
  BY <1>1, <1>2, <1>3, PageInvariant, ServerLearnsRooms, PTL DEF Page!Spec

=============================================================================
