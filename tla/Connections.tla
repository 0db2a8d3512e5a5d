---------------------------- MODULE Connections ----------------------------
(***************************************************************************)
(* The pool of database connections and the transactions the handlers run  *)
(* on it.  A handler is a program: the sequence of what it does with its   *)
(* connections.  Three routes leave a transaction open when they refuse a  *)
(* request after BEGIN; two hold a connection while they ask for a second. *)
(* The pool (node-postgres) and the transactions (PostgreSQL) are external *)
(* and modelled from how db/pool.js configures them: connectionTimeout,    *)
(* lock_timeout, idle_in_transaction_session_timeout.  A connection that   *)
(* was never opened is like an idle one.                                   *)
(***************************************************************************)
EXTENDS Naturals, Sequences, FiniteSets, Functions

CONSTANTS
    Requests,   \* requests of users
    Conns,      \* DB_POOL_MAX connections
    Mixes,      \* which kinds of request come together
    None        \* no request, no connection, no answer

AllKinds == {"statement", "transaction", "refusal", "growth", "preview"}

ASSUME ConnectionsAssumption ==
    /\ Mixes \subseteq [Requests -> AllKinds]
    /\ None \notin Requests \cup Conns
    /\ None \notin {"ok", "error", "expired"}

VARIABLES
    kind,      \* what each request asks for
    pc,        \* how far its handler is: 0 before it arrives
    held,      \* the connections its handler holds, in the order it got them
    answer,    \* what the user was told
    opener,    \* per connection: the request whose BEGIN opened its transaction
    aborted,   \* connections whose transaction a failed statement aborted
    written,   \* per connection: what its transaction has written
    lock,      \* the connection whose transaction holds the contended row
    durable,   \* what is committed
    mixed      \* history: requests that worked in a transaction of another's

vars == <<kind, pc, held, answer, opener, aborted, written, lock, durable, mixed>>

-----------------------------------------------------------------------------
(* statement:   a write through pool.query, as PATCH /fixed-assets/:id     *)
(* transaction: what most handlers do, as pool.transaction does it         *)
(* refusal:     404 or 400 after BEGIN: cancelling a depreciation run that *)
(*              is not there, not posted or not the last; deleting a       *)
(*              journal allocation that is not there                       *)
(* growth:      POST /rough-growth, whose journal entry is created by      *)
(*              createEntry on a connection of its own                     *)
(* preview:     POST /depreciation-runs, which reads through the pool with *)
(*              a connection in hand                                       *)
Program_NoCommit == [k \in AllKinds |->
    CASE k = "statement"   -> <<"connect", "statement", "release">>
      [] k = "transaction" -> <<"connect", "begin", "write", "release">>
      [] k = "refusal"     -> <<"connect", "begin", "lock", "release">>
      [] k = "growth"      -> <<"connect", "begin", "write", "connect", "entry",
                                "release", "commit", "release">>
      [] k = "preview"     -> <<"connect", "connect", "read", "release",
                                "begin", "write", "commit", "release">>]
Program == [Program_NoCommit EXCEPT
    !["transaction"] = <<"connect", "begin", "write", "commit", "release">>]

Steps(r) == Program[kind[r]]
Running(r) == pc[r] \in 1..Len(Steps(r))
Doing(r, step) == Running(r) /\ Steps(r)[pc[r]] = step
Ended(r) == pc[r] > Len(Steps(r))

(* The connection a step works on: the one got last.                       *)
Conn(r) == held[r][Len(held[r])]

Free == Conns \ UNION {Range(held[r]) : r \in Requests}

(* The documents a request writes, and the entry created apart from them.  *)
Document(r) == <<r, "document">>
Entry(r) == <<r, "entry">>
WorkOf(r) == {Document(r)} \cup (IF kind[r] = "growth" THEN {Entry(r)} ELSE {})

Proceed(r) == pc' = [pc EXCEPT ![r] = @ + 1]
Tell(r, what) == answer' = IF answer[r] = None THEN [answer EXCEPT ![r] = what] ELSE answer
Mixed(r, c) == mixed' = IF opener[c] \in {None, r} THEN mixed ELSE mixed \cup {r}

-----------------------------------------------------------------------------
Arrive(r) ==
    /\ pc[r] = 0
    /\ Proceed(r)
    /\ UNCHANGED <<kind, held, answer, opener, aborted, written, lock, durable, mixed>>

(* pool.connect(): an idle connection, as its last user left it.           *)
Connect(r) ==
    /\ Doing(r, "connect")
    /\ \E c \in Free : held' = [held EXCEPT ![r] = Append(@, c)]
    /\ Proceed(r)
    /\ UNCHANGED <<kind, answer, opener, aborted, written, lock, durable, mixed>>

(* BEGIN inside a transaction only warns.                                  *)
BeginTransaction(r) ==
    /\ Doing(r, "begin")
    /\ LET c == Conn(r)
       IN  /\ c \notin aborted
           /\ opener' = [opener EXCEPT ![c] = IF @ = None THEN r ELSE @]
           /\ Mixed(r, c)
    /\ Proceed(r)
    /\ UNCHANGED <<kind, held, answer, aborted, written, lock, durable>>

(* SELECT ... FOR UPDATE, and the writes that follow it.                   *)
LockRow(r) ==
    /\ Doing(r, "lock") \/ Doing(r, "write")
    /\ LET c == Conn(r)
       IN  /\ lock \in {None, c}
           /\ lock' = c
           /\ written' = IF Doing(r, "lock") THEN written
                         ELSE [written EXCEPT ![c] = @ \cup {Document(r)}]
    /\ Proceed(r)
    /\ UNCHANGED <<kind, held, answer, opener, aborted, durable, mixed>>

(* A statement by itself commits at once, unless the connection it got is  *)
(* inside a transaction.                                                   *)
Statement(r) ==
    /\ Doing(r, "statement")
    /\ LET c == Conn(r)
       IN  /\ c \notin aborted
           /\ lock \in {None, c}
           /\ Mixed(r, c)
           /\ IF opener[c] = None
              THEN durable' = durable \cup {Document(r)} /\ UNCHANGED <<written, lock>>
              ELSE /\ written' = [written EXCEPT ![c] = @ \cup {Document(r)}]
                   /\ lock' = c
                   /\ UNCHANGED durable
    /\ Proceed(r)
    /\ UNCHANGED <<kind, held, answer, opener, aborted>>

Read(r) ==
    /\ Doing(r, "read")
    /\ Conn(r) \notin aborted
    /\ Proceed(r)
    /\ UNCHANGED <<kind, held, answer, opener, aborted, written, lock, durable, mixed>>

(* COMMIT ends whatever transaction the connection is in.  The entry is a  *)
(* BEGIN, the writes and a COMMIT on the second connection.                *)
Committed(c, work) ==
    /\ durable' = durable \cup written[c] \cup work
    /\ written' = [written EXCEPT ![c] = {}]
    /\ opener' = [opener EXCEPT ![c] = None]
    /\ lock' = IF lock = c THEN None ELSE lock

Commit(r) ==
    /\ Doing(r, "commit") \/ Doing(r, "entry")
    /\ Conn(r) \notin aborted
    /\ Mixed(r, Conn(r))
    /\ Committed(Conn(r), IF Doing(r, "entry") THEN {Entry(r)} ELSE {})
    /\ Proceed(r)
    /\ UNCHANGED <<kind, held, answer, aborted>>

(* client.release() does not look at the transaction.  The last release is *)
(* in the finally that follows the answer.                                 *)
Release(r) ==
    /\ Doing(r, "release")
    /\ held' = [held EXCEPT ![r] = SubSeq(@, 1, Len(@) - 1)]
    /\ IF pc[r] = Len(Steps(r))
       THEN Tell(r, IF kind[r] = "refusal" THEN "error" ELSE "ok")
       ELSE UNCHANGED answer
    /\ Proceed(r)
    /\ UNCHANGED <<kind, opener, aborted, written, lock, durable, mixed>>

-----------------------------------------------------------------------------
(* A statement sent through the pool, which no catch rolls back.           *)
Alone(r) == Doing(r, "statement") \/ Doing(r, "read")

(* An error: the handler's catch rolls back its connections, createEntry's *)
(* catch its own; pool.query releases the connection as it is, and a       *)
(* transaction the failed statement was in is aborted.                     *)
RolledBack(r) ==
    IF held[r] = <<>> \/ kind[r] = "statement" THEN {}
    ELSE IF kind[r] = "growth" THEN Range(held[r])
    ELSE {held[r][1]}

Throw(r) ==
    LET undone == RolledBack(r)
        broken == {c \in Range(held[r]) \ undone : Alone(r) /\ c = Conn(r) /\ opener[c] # None}
        over == undone \cup broken
    IN  /\ opener' = [c \in Conns |-> IF c \in undone THEN None ELSE opener[c]]
        /\ aborted' = (aborted \cup broken) \ undone
        /\ written' = [c \in Conns |-> IF c \in over THEN {} ELSE written[c]]
        /\ lock' = IF lock \in over THEN None ELSE lock
        /\ held' = [held EXCEPT ![r] = <<>>]
        /\ pc' = [pc EXCEPT ![r] = Len(Steps(r)) + 1]
        /\ Tell(r, "error")
        /\ UNCHANGED <<kind, durable, mixed>>

(* A query fails, or a check of the handler throws.                        *)
Fail(r) ==
    /\ Running(r) /\ held[r] # <<>>
    /\ ~Doing(r, "connect") /\ ~Doing(r, "release")
    /\ Throw(r)

(* What ends a wait: connectionTimeoutMillis for a connection, lock_timeout *)
(* for the row; and a statement in an aborted transaction is refused.      *)
GivesUp_NoConnectTimeout(r) ==
    /\ held[r] # <<>>
    /\ \/ /\ Doing(r, "lock") \/ Doing(r, "write") \/ Doing(r, "statement")
          /\ lock \notin {None, Conn(r)}
       \/ /\ ~Doing(r, "connect") /\ ~Doing(r, "release")
          /\ Conn(r) \in aborted
GivesUp(r) ==
    \/ Doing(r, "connect") /\ Free = {}
    \/ Running(r) /\ GivesUp_NoConnectTimeout(r)

GiveUp(r) == GivesUp(r) /\ Throw(r)

(* requestTimeout answers 408; the handler runs on.                        *)
Expire(r) ==
    /\ Running(r)
    /\ answer[r] = None
    /\ Tell(r, "expired")
    /\ UNCHANGED <<kind, pc, held, opener, aborted, written, lock, durable, mixed>>

(* A connection that stays idle is ended, by the pool or, in a             *)
(* transaction, by the server: what was not committed is lost.             *)
Idle_Aborted(c) == c \in Free /\ c \in aborted
Idle(c) == c \in Free /\ opener[c] # None
EndIdle(c) ==
    /\ Idle(c)
    /\ opener' = [opener EXCEPT ![c] = None]
    /\ aborted' = aborted \ {c}
    /\ written' = [written EXCEPT ![c] = {}]
    /\ lock' = IF lock = c THEN None ELSE lock
    /\ UNCHANGED <<kind, pc, held, answer, durable, mixed>>

-----------------------------------------------------------------------------
Init ==
    /\ kind \in Mixes
    /\ pc = [r \in Requests |-> 0]
    /\ held = [r \in Requests |-> <<>>]
    /\ answer = [r \in Requests |-> None]
    /\ opener = [c \in Conns |-> None]
    /\ aborted = {}
    /\ written = [c \in Conns |-> {}]
    /\ lock = None
    /\ durable = {} /\ mixed = {}

Advance(r) ==
    \/ Connect(r) \/ BeginTransaction(r) \/ LockRow(r) \/ Statement(r)
    \/ Read(r) \/ Commit(r) \/ Release(r) \/ GiveUp(r)

Next ==
    \/ \E r \in Requests : Arrive(r) \/ Advance(r) \/ Fail(r) \/ Expire(r)
    \/ \E c \in Conns : EndIdle(c)

(* The event loop runs a handler whose query answered; the three timeouts  *)
(* are timers.  Nothing makes users come, queries fail or answers expire.  *)
Fairness ==
    /\ \A r \in Requests : WF_vars(Advance(r))
    /\ \A c \in Conns : WF_vars(EndIdle(c))

Spec == Init /\ [][Next]_vars /\ Fairness

-----------------------------------------------------------------------------
(* Types, and: a connection is in the hands of one handler at a time; what *)
(* is written and the row lock belong to an open transaction.              *)
TypeOK ==
    /\ kind \in Mixes /\ pc \in [Requests -> 0..9]
    /\ \A r \in Requests : Range(held[r]) \subseteq Conns /\ Len(held[r]) <= 2
    /\ \A q, r \in Requests : q # r => Range(held[q]) \cap Range(held[r]) = {}
    /\ answer \in [Requests -> {None, "ok", "error", "expired"}]
    /\ opener \in [Conns -> Requests \cup {None}]
    /\ \A c \in Conns : opener[c] = None => written[c] = {} /\ c \notin aborted /\ lock # c
    /\ aborted \subseteq Conns /\ lock \in Conns \cup {None} /\ mixed \subseteq Requests
    /\ durable \subseteq Requests \X {"document", "entry"}

(* The answers are true.  Whoever was told ok finds everything the request *)
(* wrote, the entry and the document, committed - unless it worked in a    *)
(* transaction that another had left open on the connection it was given.  *)
(* Whoever was told of an error finds no document committed, neither then  *)
(* nor by a later user of the connection.  (A 408 says nothing: the        *)
(* handler may still commit.  The entry of a rough growth stays.)          *)
AcknowledgedIsDurable ==
    \A r \in Requests : answer[r] = "ok" /\ r \notin mixed => WorkOf(r) \subseteq durable
RefusedLeavesNoDocument ==
    \A r \in Requests : answer[r] = "error" => Document(r) \notin durable
AnswersAreTrue == AcknowledgedIsDurable /\ RefusedLeavesNoDocument

(* Every way out of a handler ends its transaction, except the three early *)
(* returns: a connection that goes back with a transaction open had it     *)
(* opened by a refused request.                                            *)
OnlyRefusalsLeak ==
    \A c \in Free : opener[c] # None => kind[opener[c]] = "refusal"

(* Every handler ends and gives its connections back, even when all of     *)
(* them are held by handlers that wait for a second one.                   *)
EveryHandlerEnds == \A r \in Requests : pc[r] = 1 ~> Ended(r) /\ held[r] = <<>>

(* The contended row never stays locked, although a refused request left   *)
(* its lock in the pool.                                                   *)
RowIsFreed == []<>(lock = None)

=============================================================================
