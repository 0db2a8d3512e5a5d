------------------------------ MODULE ReadPath ------------------------------
(***************************************************************************)
(* How the server answers a GET: the request deduplication in front of     *)
(* every route, the cache of computed values behind it, and the events     *)
(* that invalidate this cache after a write.                               *)
(*                                                                         *)
(* The first request for a URL leads: its handler runs, and requests for   *)
(* the same URL wait for its answer or, for a while, get a copy of it.  A  *)
(* handler that takes too long is answered for with a 408, but runs on.    *)
(* A handler takes the cached value of its key, or joins the computation   *)
(* in flight, or computes it.  The cache is in memory (no REDIS_URL).      *)
(* Time passes in ticks; an entry carries what is left of its life, and a  *)
(* value its age since it was read from the database.                      *)
(***************************************************************************)
EXTENDS Integers, FiniteSets

CONSTANTS
    Requests,    \* requests in progress at the same time
    Followers,   \* bound: those made only while their URL has a leader
    Urls,        \* the URLs they ask for
    Url,         \* the URL of each request
    Key,         \* the cache key behind each URL
    CacheTtl,    \* life of a cached value, in ticks
    DedupTtl,    \* CACHE_TTL of requestDedup, in ticks
    EventTtl,    \* DEDUP_WINDOW_MS of the dispatcher, in ticks
    MaxCompute,  \* statement_timeout: a computation lasts no longer
    MaxWrites    \* bound: writes to the data behind the URLs

ASSUME ReadPathAssumption ==
    /\ IsFiniteSet(Requests) /\ Url \in [Requests -> Urls] /\ DOMAIN Key = Urls
    /\ CacheTtl \in Nat /\ MaxCompute \in Nat /\ MaxWrites \in Nat
    /\ DedupTtl \in Nat \ {0} /\ EventTtl \in Nat \ {0}

VARIABLES
    req,       \* the requests: their stage, and the value they carry
    inflight,  \* requestDedup: URL to the requests that wait for its leader
    recent,    \* requestDedup CACHE: URL to the last answer
    store,     \* cache store: key to value
    inFlight,  \* cache inFlight: key to the request that computes it
    db,        \* version of the data in the database
    events,    \* committed writes whose event is not dispatched yet
    window,    \* ticks for which an equal event counts as a duplicate
    lost       \* history: requests that nobody will answer any more

vars == <<req, inflight, recent, store, inFlight, db, events, window, lost>>

Keys == {Key[u] : u \in Urls}

-----------------------------------------------------------------------------
(* Maps, as JavaScript has them.                                           *)
Has(map, k) == k \in DOMAIN map
Put(map, k, v) == [x \in DOMAIN map \cup {k} |-> IF x = k THEN v ELSE map[x]]
Delete(map, k) == [x \in DOMAIN map \ {k} |-> map[x]]
Empty == [x \in {} |-> 0]

(* What a response carries: a version of the data, or an error.  missed:   *)
(* an event that should have removed the value did not.                    *)
Value == [ok : BOOLEAN, ver : 0..MaxWrites, age : Nat, missed : BOOLEAN]
Read(v) == [ok |-> TRUE, ver |-> v, age |-> 0, missed |-> FALSE]
Failure == [ok |-> FALSE, ver |-> 0, age |-> 0, missed |-> FALSE]
Missed(v, m) == [v EXCEPT !.missed = @ \/ m]

(* idle; waiting for a leader; leading, before the cache; joined to the    *)
(* computation of another; computing, before and after the database read;  *)
(* ready to respond; sent, while its close listener is armed.              *)
Stages == {"idle", "waiting", "leading", "joined", "computing", "read", "ready",
           "sent"}
Handler == {"leading", "joined", "computing", "read", "ready"}

(* owner: whose computation is joined; raced: the cache was invalidated    *)
(* since the value was read; since: the writes announced when the cache    *)
(* was asked; headersSent: the 408 has answered; closed: the response is   *)
(* closed, as its client has gone or has the 408.                          *)
Request == [stage : Stages, val : Value, owner : Requests, raced : BOOLEAN,
            since : 0..MaxWrites, headersSent : BOOLEAN, closed : BOOLEAN]
Fresh(r) == [stage |-> "idle", val |-> Failure, owner |-> r, raced |-> FALSE,
             since |-> 0, headersSent |-> FALSE, closed |-> FALSE]

At(r, stage) == [req EXCEPT ![r].stage = stage]
Waiters(u) == IF Has(inflight, u) THEN inflight[u] ELSE {}

(* w.res.json: the request is over, and its client may send another.       *)
Answered(r) == Fresh(r)

(* The requests after all that wait for u were answered, and r became what.*)
WaitersAnswered_None(u, r, what) == [req EXCEPT ![r] = what]
WaitersAnswered(u, r, what) ==
    [x \in Requests |-> IF x = r THEN what
                        ELSE IF x \in Waiters(u) THEN Answered(x) ELSE req[x]]

-----------------------------------------------------------------------------
(* requestDedupMiddleware.                                                 *)

Arrive(r) ==
    LET u == Url[r]
    IN  /\ req[r].stage = "idle"
        /\ r \in Followers => Has(inflight, u)
        /\ IF Has(recent, u)
           THEN /\ req' = [req EXCEPT ![r] = Answered(r)]
                /\ UNCHANGED inflight
           ELSE IF Has(inflight, u)
           THEN /\ req' = At(r, "waiting")
                /\ inflight' = [inflight EXCEPT ![u] = @ \cup {r}]
           ELSE /\ req' = At(r, "leading")
                /\ inflight' = Put(inflight, u, {})
        /\ UNCHANGED <<recent, store, inFlight, db, events, window, lost>>

(* res.json of a leader: the answer is kept, the list of the URL is taken. *)
Json(u, v) ==
    /\ recent' = Put(recent, u, [val |-> v, life |-> DedupTtl])
    /\ inflight' = Delete(inflight, u)

(* The handler of r is over; a response that was not closed will be.       *)
Over(r) == IF req[r].closed THEN Fresh(r) ELSE [Fresh(r) EXCEPT !.stage = "sent"]

(* The handler answers: whoever is on the list gets a copy.                *)
Respond(r) ==
    /\ req[r].stage = "ready" /\ ~req[r].headersSent
    /\ Json(Url[r], req[r].val)
    /\ req' = WaitersAnswered(Url[r], r, Over(r))
    /\ UNCHANGED <<store, inFlight, db, events, window, lost>>

(* requestTimeout, with the res.json of the leader it overtakes.           *)
TimeOut(r) ==
    /\ req[r].stage \in Handler \ {"ready"} /\ ~req[r].headersSent /\ ~req[r].closed
    /\ Json(Url[r], Failure)
    /\ req' = WaitersAnswered(Url[r], r, [req[r] EXCEPT !.headersSent = TRUE])
    /\ UNCHANGED <<store, inFlight, db, events, window, lost>>

(* The handler answers after the 408.  The list it takes is that of a      *)
(* later leader, and sending throws before anybody on it is answered; the  *)
(* catch of the handler may then keep an error instead of the answer.      *)
RespondLate(r) ==
    /\ req[r].stage = "ready" /\ req[r].headersSent
    /\ \E v \in {req[r].val, Failure} : Json(Url[r], v)
    /\ req' = [req EXCEPT ![r] = Over(r)]
    /\ lost' = lost \cup Waiters(Url[r])
    /\ UNCHANGED <<store, inFlight, db, events, window>>

(* The close event of a leader's response: the client went away, or the    *)
(* answer was sent.  Whoever waits for the URL by then is refused.         *)
LeaderCloses(r) ==
    LET u == Url[r]
        after == IF req[r].stage = "sent" THEN Fresh(r) ELSE [req[r] EXCEPT !.closed = TRUE]
    IN  /\ req[r].stage \in Handler \cup {"sent"} /\ ~req[r].closed
        /\ inflight' = Delete(inflight, u)
        /\ req' = WaitersAnswered(u, r, after)
        /\ UNCHANGED <<recent, store, inFlight, db, events, window, lost>>

(* The client of a waiting request goes away: nothing listens.             *)
WaiterCloses(r) ==
    /\ req[r].stage = "waiting" /\ ~req[r].closed
    /\ req' = [req EXCEPT ![r].closed = TRUE]
    /\ UNCHANGED <<inflight, recent, store, inFlight, db, events, window, lost>>

-----------------------------------------------------------------------------
(* cache.get.                                                              *)

Touched_Renewed(entry) == [entry EXCEPT !.life = CacheTtl]
Touched(entry) == entry

Lookup(r) ==
    LET k == Key[Url[r]]
        ask == [req[r] EXCEPT !.since = db - events]
    IN  /\ req[r].stage = "leading"
        /\ IF Has(store, k)
           THEN /\ req' = [req EXCEPT ![r] = [ask EXCEPT !.stage = "ready", !.val = store[k].val]]
                /\ store' = Put(store, k, Touched(store[k]))
                /\ UNCHANGED inFlight
           ELSE /\ UNCHANGED store
                /\ IF Has(inFlight, k)
                   THEN /\ req' = [req EXCEPT ![r] = [ask EXCEPT !.stage = "joined",
                                                                  !.owner = inFlight[k]]]
                        /\ UNCHANGED inFlight
                   ELSE /\ req' = [req EXCEPT ![r] = [ask EXCEPT !.stage = "computing"]]
                        /\ inFlight' = Put(inFlight, k, r)
        /\ UNCHANGED <<inflight, recent, db, events, window, lost>>

(* The fetcher's query takes its snapshot of the data.                     *)
Fetch(r) ==
    /\ req[r].stage = "computing"
    /\ req' = [req EXCEPT ![r].stage = "read", ![r].val = Read(db)]
    /\ UNCHANGED <<inflight, recent, store, inFlight, db, events, window, lost>>

(* The promise of r is settled: its own handler goes on, and every handler *)
(* that holds this promise.                                                *)
Settled_Own(r, v) ==
    [req EXCEPT ![r] = [@ EXCEPT !.stage = "ready", !.val = v, !.raced = FALSE]]
Settled(r, v) ==
    [x \in Requests |-> IF x = r \/ (req[x].stage = "joined" /\ req[x].owner = r)
                        THEN [req[x] EXCEPT !.stage = "ready", !.val = v, !.owner = x,
                                            !.raced = FALSE]
                        ELSE req[x]]

Store(r) ==
    LET k == Key[Url[r]]
    IN  /\ req[r].stage = "read"
        /\ store' = Put(store, k, [val |-> Missed(req[r].val, req[r].raced), life |-> CacheTtl])
        /\ inFlight' = Delete(inFlight, k)
        /\ req' = Settled(r, req[r].val)
        /\ UNCHANGED <<inflight, recent, db, events, window, lost>>

Fail(r) ==
    LET k == Key[Url[r]]
    IN  /\ req[r].stage \in {"computing", "read"}
        /\ store' = Delete(store, k)
        /\ inFlight' = Delete(inFlight, k)
        /\ req' = Settled(r, Failure)
        /\ UNCHANGED <<inflight, recent, db, events, window, lost>>

(* A full store drops its oldest entry for the value of another page.      *)
Evict(k) ==
    /\ Has(store, k)
    /\ store' = Delete(store, k)
    /\ UNCHANGED <<req, inflight, recent, inFlight, db, events, window, lost>>

-----------------------------------------------------------------------------
(* A write commits, and its handler dispatches the event.                  *)
Write ==
    /\ db < MaxWrites
    /\ db' = db + 1
    /\ events' = events + 1
    /\ UNCHANGED <<req, inflight, recent, store, inFlight, window, lost>>

(* What was read before an invalidation is stored after it all the same;   *)
(* a dropped event removes nothing.                                        *)
Raced == [x \in Requests |-> IF req[x].stage = "read" THEN [req[x] EXCEPT !.raced = TRUE]
                             ELSE req[x]]
Overlooked == [x \in Requests |-> IF req[x].stage = "read"
                                  THEN [req[x] EXCEPT !.val = Missed(@, TRUE)] ELSE req[x]]

invalidatePrefix_Store == store' = Empty /\ UNCHANGED <<inFlight, req>>
invalidatePrefix == store' = Empty /\ inFlight' = Empty /\ req' = Raced

isDuplicate == window > 0

DispatchEvent ==
    /\ events > 0
    /\ events' = events - 1
    /\ IF isDuplicate
       THEN /\ store' = [k \in DOMAIN store |-> [store[k] EXCEPT !.val = Missed(@, TRUE)]]
            /\ req' = Overlooked
            /\ UNCHANGED <<inFlight, window>>
       ELSE window' = EventTtl /\ invalidatePrefix
    /\ UNCHANGED <<inflight, recent, db, lost>>

(* POST /cache/flush: both caches and both tables of requests in flight.   *)
Flush ==
    /\ store' = Empty /\ inFlight' = Empty
    /\ recent' = Empty /\ inflight' = Empty
    /\ req' = Raced
    /\ lost' = lost \cup {r \in Requests : req[r].stage = "waiting"}
    /\ UNCHANGED <<db, events, window>>

-----------------------------------------------------------------------------
(* Time: values age, entries expire.  Handlers that are ready respond at   *)
(* once, a response that was sent closes at once, and statement_timeout    *)
(* ends a computation.                                                     *)
Older(v) == [v EXCEPT !.age = @ + 1]
Live(map, least) == [k \in {x \in DOMAIN map : map[x].life - 1 >= least} |->
                        [map[k] EXCEPT !.val = Older(@), !.life = @ - 1]]

(* Date.now() - ts < CACHE_TTL in the one, ~(Date.now() > expiresAt) in    *)
(* the other.                                                              *)
recentLive == Live(recent, 1)
storeLive == Live(store, 0)

Tick ==
    /\ \A r \in Requests :
          /\ req[r].stage \notin {"ready", "sent"}
          /\ req[r].headersSent => req[r].closed
          /\ req[r].stage = "read" => req[r].val.age < MaxCompute
    /\ req' = [r \in Requests |-> IF req[r].stage = "read"
                                  THEN [req[r] EXCEPT !.val = Older(@)] ELSE req[r]]
    /\ recent' = recentLive
    /\ store' = storeLive
    /\ window' = IF window > 0 THEN window - 1 ELSE 0
    /\ UNCHANGED <<inflight, inFlight, db, events, lost>>

-----------------------------------------------------------------------------
Init ==
    /\ req = [r \in Requests |-> Fresh(r)]
    /\ inflight = Empty /\ recent = Empty
    /\ store = Empty /\ inFlight = Empty
    /\ db = 0 /\ events = 0 /\ window \in {0, EventTtl}
    /\ lost = {}

Proceed(r) == Lookup(r) \/ Fetch(r) \/ Store(r) \/ Fail(r) \/ Respond(r) \/ RespondLate(r)

Next ==
    \/ \E r \in Requests :
          \/ Arrive(r) \/ Proceed(r)
          \/ TimeOut(r) \/ LeaderCloses(r) \/ WaiterCloses(r)
    \/ \E k \in Keys : Evict(k)
    \/ Write \/ DispatchEvent \/ Flush \/ Tick

Spec == Init /\ [][Next]_vars

(* A handler that was started is run to its end; clients and writers are   *)
(* free to do nothing.                                                     *)
FairSpec == Spec /\ \A r \in Requests : WF_vars(Proceed(r))

-----------------------------------------------------------------------------
(* Properties.                                                             *)

(* Whoever waits is on the list of its URL, and each list belongs to a     *)
(* leader that has yet to respond, to time out or to close, although       *)
(* leaders that were closed respond later to lists of others.  Only a      *)
(* flush, and a leader that responds after its 408, make requests wait     *)
(* that are on no list.                                                    *)
Leads(r) == req[r].stage \in Handler /\ ~req[r].headersSent /\ ~req[r].closed
WaitersHaveLeader ==
    /\ \A r \in Requests : req[r].stage = "waiting" => r \in lost \/ r \in Waiters(Url[r])
    /\ \A u \in DOMAIN inflight : \E r \in Requests : Url[r] = u /\ Leads(r)

(* A handler sees every write announced before it asked the cache: a value *)
(* that is older was missed by the event that should have removed it,      *)
(* because the event was dropped as a duplicate or because the value was   *)
(* still on its way to the cache.                                          *)
SeesAnnouncedWrites ==
    \A r \in Requests : req[r].stage = "ready" /\ req[r].val.ok /\ ~req[r].val.missed
        => req[r].val.ver >= req[r].since

(* However the caches feed each other, no response is older than the lives *)
(* of both entries and the longest computation together.                   *)
BoundedStaleness ==
    /\ \A r \in Requests : req[r].val.age <= MaxCompute + CacheTtl
    /\ \A u \in DOMAIN recent : recent[u].val.age < MaxCompute + CacheTtl + DedupTtl

(* Nobody is in a handler or on a list for ever, also when the leader goes *)
(* away or times out or its computation fails: every request is answered   *)
(* or closed.  Those that a flush or a late response has taken off their   *)
(* list never are.                                                         *)
Pending(r) == req[r].stage \in Handler \cup {"waiting"} /\ r \notin lost
EveryRequestAnswered == \A r \in Requests : []<>~Pending(r)

=============================================================================
