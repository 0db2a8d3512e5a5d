------------------------- MODULE ConnectionsProofs -------------------------
(***************************************************************************)
(* Proofs about Connections, for any requests, any mixes of their kinds    *)
(* and any size of the pool.                                               *)
(***************************************************************************)
EXTENDS Connections, TLAPS

-----------------------------------------------------------------------------
(* The inductive invariant.                                                *)
(*                                                                         *)
(* None of the properties is inductive: whether a connection goes back     *)
(* with a transaction open depends on what its handler has done with it,   *)
(* and whether an answer is true on where the work of the handler is.  So  *)
(* every request has an account of both, for each place of its program.    *)

At(r, k, places) == kind[r] = k /\ pc[r] \in places

(* How many connections the handler holds.                                 *)
Depth(r) ==
    IF ~Running(r) \/ pc[r] = 1 THEN 0
    ELSE IF At(r, "growth", {5, 6}) \/ At(r, "preview", {3, 4}) THEN 2
    ELSE 1

(* Its first connection is in a transaction, and has its document.         *)
Opened(r) ==
    \/ At(r, "transaction", {3, 4}) \/ At(r, "refusal", {3, 4})
    \/ At(r, "growth", {3, 4, 5, 6, 7}) \/ At(r, "preview", {6, 7})
Wrote(r) ==
    At(r, "transaction", {4}) \/ At(r, "growth", {4, 5, 6, 7}) \/ At(r, "preview", {7})

(* The document, or the entry, is committed.                               *)
Saved(r) ==
    \/ At(r, "statement", {3}) \/ At(r, "transaction", {5})
    \/ At(r, "growth", {8}) \/ At(r, "preview", {8})
EntrySaved(r) == At(r, "growth", {6, 7, 8})
Done(r) == Saved(r) \/ Ended(r)

(* Whoever is given this connection leaves no transaction that it opened,  *)
(* unless it is refused.                                                   *)
Clean(c) == opener[c] = None \/ kind[opener[c]] = "refusal"

(* A statement in a transaction that was left open: its document is in the *)
(* hands of whoever ends the transaction.                                  *)
Astray(r) == kind[r] = "statement" /\ Done(r) /\ answer[r] # "error"

HoldsOK(r) ==
    /\ Len(held[r]) = Depth(r)
    /\ Depth(r) = 2 => held[r][1] # held[r][2]
    /\ Depth(r) = 2 => Clean(held[r][2])
    /\ Depth(r) > 0 => \/ Clean(held[r][1])
                       \/ opener[held[r][1]] = r /\ Opened(r)
    /\ Opened(r) => opener[held[r][1]] # None

WorkOK(r) ==
    /\ Wrote(r) => Document(r) \in written[held[r][1]]
    /\ EntrySaved(r) => Entry(r) \in durable
    /\ Saved(r) => r \in mixed \/ Document(r) \in durable
    /\ answer[r] = "ok" => r \in mixed \/ WorkOf(r) \subseteq durable
    /\ answer[r] = "error" => Ended(r) /\ Document(r) \notin durable
    /\ Document(r) \in durable => Done(r)
    /\ \A c \in Conns : Document(r) \in written[c] =>
          (Wrote(r) /\ c = held[r][1]) \/ Astray(r)

ConnOK(c) ==
    /\ opener[c] = None => written[c] = {} /\ c \notin aborted /\ lock # c
    /\ c \in Free => Clean(c)

Works == Requests \X {"document", "entry"}

Types ==
    /\ kind \in Mixes /\ pc \in [Requests -> Nat] /\ held \in [Requests -> Seq(Conns)]
    /\ \A r \in Requests : pc[r] <= Len(Steps(r)) + 1
    /\ answer \in [Requests -> {None, "ok", "error", "expired"}]
    /\ opener \in [Conns -> Requests \cup {None}]
    /\ written \in [Conns -> SUBSET Works]
    /\ aborted \subseteq Conns /\ lock \in Conns \cup {None}
    /\ durable \subseteq Works /\ mixed \subseteq Requests

Exclusive ==
    \A q, r \in Requests : q # r => Range(held[q]) \cap Range(held[r]) = {}

IInv ==
    /\ Types
    /\ Exclusive
    /\ \A r \in Requests : HoldsOK(r) /\ WorkOK(r)
    /\ \A c \in Conns : ConnOK(c)


-----------------------------------------------------------------------------
(* Programs, places and the connections a handler holds.                   *)

(* The programs, as tables.                                                *)
LEMMA Programs ==
    /\ Program["statement"] = <<"connect", "statement", "release">>
    /\ Program["transaction"] = <<"connect", "begin", "write", "commit", "release">>
    /\ Program["refusal"] = <<"connect", "begin", "lock", "release">>
    /\ Program["growth"] = <<"connect", "begin", "write", "connect", "entry",
                             "release", "commit", "release">>
    /\ Program["preview"] = <<"connect", "connect", "read", "release",
                              "begin", "write", "commit", "release">>
  BY DEF Program, Program_NoCommit, AllKinds

(* Where in its program a handler can do what.                             *)
LEMMA Places ==
    ASSUME NEW r \in Requests, kind[r] \in AllKinds, pc[r] \in Nat
    PROVE  /\ Len(Steps(r)) = CASE kind[r] = "statement" -> 3
                                [] kind[r] = "transaction" -> 5
                                [] kind[r] = "refusal" -> 4
                                [] kind[r] = "growth" -> 8
                                [] kind[r] = "preview" -> 8
           /\ Running(r) <=> pc[r] \in 1..Len(Steps(r))
           /\ Doing(r, "connect") <=> \/ pc[r] = 1
                                      \/ At(r, "growth", {4}) \/ At(r, "preview", {2})
           /\ Doing(r, "begin") <=> \/ At(r, "transaction", {2}) \/ At(r, "refusal", {2})
                                    \/ At(r, "growth", {2}) \/ At(r, "preview", {5})
           /\ Doing(r, "lock") <=> At(r, "refusal", {3})
           /\ Doing(r, "write") <=> \/ At(r, "transaction", {3}) \/ At(r, "growth", {3})
                                    \/ At(r, "preview", {6})
           /\ Doing(r, "statement") <=> At(r, "statement", {2})
           /\ Doing(r, "read") <=> At(r, "preview", {3})
           /\ Doing(r, "commit") <=> \/ At(r, "transaction", {4}) \/ At(r, "growth", {7})
                                     \/ At(r, "preview", {7})
           /\ Doing(r, "entry") <=> At(r, "growth", {5})
           /\ Doing(r, "release") <=> \/ At(r, "statement", {3}) \/ At(r, "transaction", {5})
                                      \/ At(r, "refusal", {4}) \/ At(r, "growth", {6, 8})
                                      \/ At(r, "preview", {4, 8})
<1>. USE DEF Steps, Running, Doing, At
<1>1. CASE kind[r] = "statement"
  BY <1>1, Programs
<1>2. CASE kind[r] = "transaction"
  BY <1>2, Programs
<1>3. CASE kind[r] = "refusal"
  BY <1>3, Programs
<1>4. CASE kind[r] = "growth"
  BY <1>4, Programs
<1>5. CASE kind[r] = "preview"
  BY <1>5, Programs
<1>. QED
  BY <1>1, <1>2, <1>3, <1>4, <1>5 DEF AllKinds

(* The connections in a list, and what connecting and releasing do to it.  *)
LEMMA HeldConns ==
    ASSUME NEW s \in Seq(Conns)
    PROVE  /\ Range(s) = {s[i] : i \in 1..Len(s)}
           /\ Range(s) \subseteq Conns
           /\ Len(s) = 0 <=> s = <<>>
  BY DEF Range

LEMMA Connected ==
    ASSUME NEW s \in Seq(Conns), NEW c \in Conns
    PROVE  /\ Append(s, c) \in Seq(Conns)
           /\ Len(Append(s, c)) = Len(s) + 1
           /\ Append(s, c)[Len(s) + 1] = c
           /\ \A i \in 1..Len(s) : Append(s, c)[i] = s[i]
           /\ Range(Append(s, c)) = Range(s) \cup {c}
<1>1. /\ Append(s, c) \in Seq(Conns)
      /\ Len(Append(s, c)) = Len(s) + 1
      /\ Append(s, c)[Len(s) + 1] = c
      /\ \A i \in 1..Len(s) : Append(s, c)[i] = s[i]
  OBVIOUS
<1>2. DOMAIN Append(s, c) = 1..(Len(s) + 1) /\ DOMAIN s = 1..Len(s)
  OBVIOUS
<1>3. Range(Append(s, c)) = Range(s) \cup {c}
  BY <1>1, <1>2 DEF Range
<1>. QED
  BY <1>1, <1>3

LEMMA Released ==
    ASSUME NEW s \in Seq(Conns), Len(s) \in {1, 2}, Len(s) = 2 => s[1] # s[2]
    PROVE  LET t == SubSeq(s, 1, Len(s) - 1)
           IN  /\ t \in Seq(Conns)
               /\ Len(t) = Len(s) - 1
               /\ Len(t) = 1 => t[1] = s[1]
               /\ Range(t) = Range(s) \ {s[Len(s)]}
<1>. DEFINE t == SubSeq(s, 1, Len(s) - 1)
<1>1. t \in Seq(Conns) /\ Len(t) = Len(s) - 1 /\ \A i \in 1..(Len(s) - 1) : t[i] = s[i]
  OBVIOUS
<1>2. Range(t) = {t[i] : i \in 1..Len(t)} /\ Range(s) = {s[i] : i \in 1..Len(s)}
  BY <1>1, HeldConns
<1>3. Range(t) = Range(s) \ {s[Len(s)]}
  <2>. HIDE DEF t
  <2>1. CASE Len(s) = 1
    BY <1>1, <1>2, <2>1
  <2>2. CASE Len(s) = 2
    BY <1>1, <1>2, <2>2
  <2>. QED
    BY <2>1, <2>2
<1>. QED
  BY <1>1, <1>3

-----------------------------------------------------------------------------
(* What every step needs.                                                  *)

LEMMA Typed ==
    ASSUME Types, NEW r \in Requests
    PROVE  /\ kind[r] \in AllKinds /\ pc[r] \in Nat /\ held[r] \in Seq(Conns)
           /\ Range(held[r]) \subseteq Conns
           /\ Document(r) \in Works /\ Entry(r) \in Works
           /\ Len(Steps(r)) \in Nat /\ Len(Steps(r)) >= 3
<1>1. kind[r] \in AllKinds /\ pc[r] \in Nat /\ held[r] \in Seq(Conns)
  BY ConnectionsAssumption DEF Types
<1>2. Len(Steps(r)) \in Nat /\ Len(Steps(r)) >= 3
  <2>1. Len(Steps(r)) \in {3, 4, 5, 8}
    BY <1>1, Places DEF AllKinds
  <2>2. \A n \in {3, 4, 5, 8} : n \in Nat /\ n >= 3
    OBVIOUS
  <2>. QED
    BY <2>1, <2>2, Zenon
<1>. QED
  BY <1>1, <1>2, HeldConns DEF Works, Document, Entry

(* A handler at work on a transaction, or done with it, holds a connection. *)
LEMMA Working ==
    ASSUME Types, NEW r \in Requests
    PROVE  /\ Opened(r) \/ Wrote(r) \/ Saved(r) \/ EntrySaved(r) => Running(r) /\ Depth(r) > 0
           /\ Running(r) /\ pc[r] > 1 => Depth(r) > 0
           /\ Ended(r) => Depth(r) = 0 /\ ~Running(r)
           /\ Wrote(r) => Opened(r)
<1>1. kind[r] \in AllKinds /\ pc[r] \in Nat
  BY Typed
<1>2. Running(r) <=> pc[r] \in 1..Len(Steps(r))
  BY <1>1, Places
<1>3. Opened(r) \/ Wrote(r) \/ Saved(r) \/ EntrySaved(r) => Running(r) /\ pc[r] > 1
  <2>1. CASE kind[r] = "statement"
    BY <1>1, <1>2, <2>1, Programs DEF Opened, Wrote, Saved, EntrySaved, At, Steps
  <2>2. CASE kind[r] = "transaction"
    BY <1>1, <1>2, <2>2, Programs DEF Opened, Wrote, Saved, EntrySaved, At, Steps
  <2>3. CASE kind[r] = "refusal"
    BY <1>1, <1>2, <2>3, Programs DEF Opened, Wrote, Saved, EntrySaved, At, Steps
  <2>4. CASE kind[r] = "growth"
    BY <1>1, <1>2, <2>4, Programs DEF Opened, Wrote, Saved, EntrySaved, At, Steps
  <2>5. CASE kind[r] = "preview"
    BY <1>1, <1>2, <2>5, Programs DEF Opened, Wrote, Saved, EntrySaved, At, Steps
  <2>. QED
    BY <1>1, <2>1, <2>2, <2>3, <2>4, <2>5 DEF AllKinds
<1>4. Running(r) /\ pc[r] > 1 => Depth(r) > 0
  BY <1>1 DEF Depth
<1>5. Ended(r) => ~Running(r)
  <2>1. Len(Steps(r)) \in Nat
    BY <1>1, Programs DEF Steps, AllKinds
  <2>. QED
    BY <1>1, <1>2, <2>1 DEF Ended
<1>6. Wrote(r) => Opened(r)
  BY DEF Wrote, Opened, At
<1>. QED
  BY <1>3, <1>4, <1>5, <1>6 DEF Depth

(* What the handler holds, one connection after the other.                 *)
LEMMA Holds ==
    ASSUME IInv, NEW r \in Requests
    PROVE  /\ Depth(r) = 0 => held[r] = <<>> /\ Range(held[r]) = {}
           /\ Depth(r) = 1 => Range(held[r]) = {held[r][1]} /\ Conn(r) = held[r][1]
           /\ Depth(r) = 2 => /\ Range(held[r]) = {held[r][1], held[r][2]}
                              /\ held[r][1] # held[r][2] /\ Conn(r) = held[r][2]
           /\ Depth(r) > 0 => Conn(r) \in Range(held[r]) /\ held[r][1] \in Range(held[r])
           /\ Depth(r) \in {0, 1, 2} /\ Len(held[r]) = Depth(r)
<1>1. Len(held[r]) = Depth(r) /\ (Depth(r) = 2 => held[r][1] # held[r][2])
  BY DEF IInv, HoldsOK
<1>2. Depth(r) \in {0, 1, 2}
  BY DEF Depth
<1>3. /\ Range(held[r]) = {held[r][i] : i \in 1..Len(held[r])}
      /\ Len(held[r]) = 0 <=> held[r] = <<>>
  BY Typed, HeldConns DEF IInv
<1>. QED
  BY <1>1, <1>2, <1>3 DEF Conn

(* A connection in the hands of one handler is not in another's, nor free. *)
LEMMA Apart ==
    ASSUME IInv, NEW r \in Requests, NEW c \in Range(held[r])
    PROVE  /\ \A q \in Requests \ {r} : c \notin Range(held[q])
           /\ c \notin Free /\ c \in Conns
<1>1. \A q \in Requests \ {r} : c \notin Range(held[q])
  BY DEF IInv, Exclusive
<1>2. c \notin Free /\ c \in Conns
  BY Typed DEF IInv, Free
<1>. QED
  BY <1>1, <1>2

(* A request is not affected by a step that leaves its handler and the     *)
(* connections it holds alone; and a statement of its own that went astray *)
(* may be committed by another.                                            *)
LEMMA Bystander ==
    ASSUME IInv, NEW q \in Requests,
           kind' = kind, pc'[q] = pc[q], held'[q] = held[q], answer'[q] = answer[q],
           \A c \in Range(held[q]) : opener'[c] = opener[c] /\ written'[c] = written[c],
           \A c \in Conns : Document(q) \in written'[c] => Document(q) \in written[c],
           durable \subseteq durable', mixed \subseteq mixed',
           Document(q) \in durable' =>
              \/ Document(q) \in durable
              \/ \E c \in Conns \ Range(held[q]) : Document(q) \in written[c]
    PROVE  HoldsOK(q)' /\ WorkOK(q)'
<1>1. /\ Depth(q)' = Depth(q) /\ Opened(q)' = Opened(q) /\ Wrote(q)' = Wrote(q)
      /\ Saved(q)' = Saved(q) /\ EntrySaved(q)' = EntrySaved(q)
      /\ Ended(q)' = Ended(q) /\ WorkOf(q)' = WorkOf(q)
  BY DEF Depth, Running, Steps, At, Opened, Wrote, Saved, EntrySaved, Ended, WorkOf
<1>2. Done(q)' = Done(q) /\ Astray(q)' = Astray(q)
  BY <1>1 DEF Done, Astray
<1>3. HoldsOK(q) /\ WorkOK(q)
  BY DEF IInv
<1>4. \A c \in Range(held[q]) : Clean(c)' = Clean(c)
  BY DEF Clean
<1>5. Depth(q) > 0 => held[q][1] \in Range(held[q])
  BY Holds
<1>6. Depth(q) = 2 => held[q][2] \in Range(held[q])
  BY Holds
<1>7. Opened(q) \/ Wrote(q) => Depth(q) > 0
  BY Working DEF IInv
<1>8. HoldsOK(q)'
  BY <1>1, <1>3, <1>4, <1>5, <1>6, <1>7 DEF HoldsOK
<1>9. WorkOK(q)'
  <2>1. Document(q) \in durable' => Document(q) \in durable \/ Astray(q)
    <3>1. \A c \in Conns \ Range(held[q]) : Document(q) \in written[c] => Astray(q)
      BY <1>3, <1>5, <1>7 DEF WorkOK
    <3>. QED
      BY <3>1
  <2>2. Document(q)' = Document(q) /\ Entry(q)' = Entry(q)
    BY DEF Document, Entry
  <2>. QED
    BY <1>1, <1>2, <1>3, <1>5, <1>7, <2>1, <2>2 DEF WorkOK, Astray
<1>. QED
  BY <1>8, <1>9

(* A step of one handler keeps to its connections and those it is given;   *)
(* those it gives back are clean.                                          *)
LEMMA OwnStep ==
    ASSUME IInv, NEW r \in Requests, Types', kind' = kind,
           \A q \in Requests \ {r} :
              pc'[q] = pc[q] /\ held'[q] = held[q] /\ answer'[q] = answer[q],
           Range(held'[r]) \subseteq Range(held[r]) \cup Free,
           \A c \in Conns \ Range(held[r]) : opener'[c] = opener[c] /\ written'[c] = written[c],
           \A c \in Conns : \A q \in Requests \ {r} :
              Document(q) \in written'[c] => Document(q) \in written[c],
           durable \subseteq durable', mixed \subseteq mixed',
           \A q \in Requests \ {r} : Document(q) \in durable' =>
              \/ Document(q) \in durable
              \/ \E c \in Range(held[r]) : Document(q) \in written[c],
           HoldsOK(r)', WorkOK(r)',
           \A c \in Range(held[r]) \ Range(held'[r]) : Clean(c)',
           \A c \in Conns : opener'[c] = None =>
              written'[c] = {} /\ c \notin aborted' /\ lock' # c
    PROVE  IInv'
<1>1. Exclusive'
  <2>. SUFFICES ASSUME NEW p \in Requests, NEW q \in Requests, p # q
                PROVE  Range(held'[p]) \cap Range(held'[q]) = {}
    BY DEF Exclusive
  <2>1. \A x \in Requests : Range(held[x]) \cap Free = {}
    BY DEF Free
  <2>2. Range(held[p]) \cap Range(held[q]) = {}
    BY DEF IInv, Exclusive
  <2>3. CASE p = r
    BY <2>1, <2>2, <2>3
  <2>4. CASE q = r
    BY <2>1, <2>2, <2>4
  <2>5. CASE p # r /\ q # r
    BY <2>2, <2>5
  <2>. QED
    BY <2>3, <2>4, <2>5
<1>2. ASSUME NEW q \in Requests
      PROVE  HoldsOK(q)' /\ WorkOK(q)'
  <2>1. CASE q = r
    BY <2>1
  <2>2. CASE q # r
    <3>1. \A c \in Range(held[q]) : c \in Conns \ Range(held[r])
      BY <2>2, Apart
    <3>2. \A c \in Range(held[r]) : c \in Conns \ Range(held[q])
      BY <2>2, Apart
    <3>. QED
      BY <2>2, <3>1, <3>2, Bystander
  <2>. QED
    BY <2>1, <2>2
<1>3. ASSUME NEW c \in Conns
      PROVE  ConnOK(c)'
  <2>. SUFFICES ASSUME c \in Free' PROVE Clean(c)'
    BY DEF ConnOK
  <2>1. c \notin Range(held'[r]) /\ \A q \in Requests \ {r} : c \notin Range(held[q])
    BY DEF Free
  <2>2. CASE c \in Range(held[r])
    BY <2>1, <2>2
  <2>3. CASE c \notin Range(held[r])
    <3>1. c \in Free
      BY <2>1, <2>3 DEF Free
    <3>2. Clean(c)
      BY <3>1 DEF IInv, ConnOK
    <3>. QED
      BY <2>3, <3>2 DEF Clean
  <2>. QED
    BY <2>2, <2>3
<1>. QED
  BY <1>1, <1>2, <1>3 DEF IInv

(* A handler that goes on has not been told of an error.                   *)
LEMMA NoErrorYet ==
    ASSUME IInv, NEW r \in Requests, Running(r)
    PROVE  answer[r] # "error"
<1>1. ~Ended(r)
  BY Working DEF IInv
<1>. QED
  BY <1>1 DEF IInv, WorkOK

(* One place further in its program: what the account says before and      *)
(* after each kind of step.                                                *)
LEMMA NextPlace ==
    ASSUME Types, NEW r \in Requests, kind' = kind, Running(r), pc'[r] = pc[r] + 1
    PROVE  /\ Doing(r, "connect") =>
                 /\ Depth(r) \in {0, 1} /\ Depth(r)' = Depth(r) + 1
                 /\ Opened(r)' = Opened(r) /\ Wrote(r)' = Wrote(r)
           /\ Doing(r, "begin") =>
                 Depth(r) = 1 /\ Depth(r)' = 1 /\ Opened(r)' /\ ~Wrote(r)'
           /\ Doing(r, "lock") =>
                 /\ Depth(r) = 1 /\ Depth(r)' = 1 /\ Opened(r) /\ Opened(r)'
                 /\ kind[r] = "refusal" /\ ~Wrote(r)'
           /\ Doing(r, "write") =>
                 Depth(r) = 1 /\ Depth(r)' = 1 /\ Opened(r) /\ Opened(r)' /\ Wrote(r)'
           /\ Doing(r, "statement") =>
                 /\ Depth(r) = 1 /\ Depth(r)' = 1 /\ ~Opened(r) /\ ~Opened(r)' /\ ~Wrote(r)'
                 /\ kind[r] = "statement" /\ Saved(r)'
           /\ Doing(r, "read") =>
                 Depth(r) = 2 /\ Depth(r)' = 2 /\ ~Opened(r) /\ ~Opened(r)' /\ ~Wrote(r)'
           /\ Doing(r, "commit") =>
                 Depth(r) = 1 /\ Depth(r)' = 1 /\ ~Opened(r)' /\ Wrote(r) /\ ~Wrote(r)' /\ Saved(r)'
           /\ Doing(r, "entry") =>
                 /\ Depth(r) = 2 /\ Depth(r)' = 2 /\ Opened(r) /\ Opened(r)' /\ Wrote(r)
                 /\ kind[r] = "growth" /\ EntrySaved(r)'
           /\ Doing(r, "release") =>
                 /\ Depth(r) \in {1, 2} /\ Depth(r)' = Depth(r) - 1
                 /\ Opened(r)' => Opened(r) /\ Depth(r) = 2
                 /\ Wrote(r)' => Wrote(r) /\ Depth(r) = 2
                 /\ Depth(r) = 2 => (Opened(r) => Opened(r)') /\ (Wrote(r) => Wrote(r)')
                 /\ Depth(r) = 1 => Done(r) \/ kind[r] = "refusal"
                 /\ Depth(r) = 1 => ~Opened(r) \/ kind[r] = "refusal"
                 /\ Depth(r) = 1 /\ kind[r] = "growth" => EntrySaved(r)
                 /\ Depth(r) = 1 <=> pc[r] = Len(Steps(r))
                 /\ Depth(r) = 1 <=> Ended(r)'
           /\ ~Doing(r, "release") => ~Done(r) /\ ~Ended(r)'
           /\ ~Doing(r, "statement") /\ ~Doing(r, "commit") => ~Saved(r)'
           /\ ~Doing(r, "entry") => (EntrySaved(r)' => EntrySaved(r))
<1>. USE DEF At, Depth, Opened, Wrote, Saved, EntrySaved, Done
<1>1. kind[r] \in AllKinds /\ pc[r] \in Nat
  BY Typed
<1>2. \A step \in {"connect", "begin", "lock", "write", "statement", "read", "commit",
                   "entry", "release"} :
         Doing(r, step) <=> pc[r] \in 1..Len(Steps(r)) /\ Steps(r)[pc[r]] = step
  BY <1>1, Places DEF Doing
<1>3. /\ Running(r)' <=> pc[r] + 1 \in 1..Len(Steps(r))
      /\ Ended(r)' <=> pc[r] + 1 > Len(Steps(r))
      /\ Ended(r) <=> pc[r] > Len(Steps(r))
      /\ Running(r) <=> pc[r] \in 1..Len(Steps(r))
  BY DEF Running, Ended, Steps
<1>4. CASE kind[r] = "statement"
  BY <1>1, <1>2, <1>3, <1>4, Programs DEF Steps
<1>5. CASE kind[r] = "transaction"
  BY <1>1, <1>2, <1>3, <1>5, Programs DEF Steps
<1>6. CASE kind[r] = "refusal"
  BY <1>1, <1>2, <1>3, <1>6, Programs DEF Steps
<1>7. CASE kind[r] = "growth"
  BY <1>1, <1>2, <1>3, <1>7, Programs DEF Steps
<1>8. CASE kind[r] = "preview"
  BY <1>1, <1>2, <1>3, <1>8, Programs DEF Steps
<1>. QED
  BY <1>1, <1>4, <1>5, <1>6, <1>7, <1>8 DEF AllKinds

-----------------------------------------------------------------------------
(* The steps.                                                              *)

LEMMA InitIInv == Init => IInv
<1>. SUFFICES ASSUME Init PROVE IInv
  OBVIOUS
<1>. USE DEF Init
<1>1. Types
  <2>1. \A r \in Requests : Len(Steps(r)) \in Nat
    BY ConnectionsAssumption, Programs DEF Steps, AllKinds
  <2>. QED
    BY <2>1 DEF Types
<1>2. \A r \in Requests : Range(held[r]) = {}
  <2>1. Range(<<>>) = {}
    BY DEF Range
  <2>. QED
    BY <2>1
<1>3. Exclusive
  BY <1>2 DEF Exclusive
<1>4. ASSUME NEW r \in Requests PROVE HoldsOK(r) /\ WorkOK(r)
  <2>1. Len(held[r]) = 0
    OBVIOUS
  <2>2. ~Running(r)
    BY <1>1, Typed, Places
  <2>3. ~Ended(r)
    BY <1>1, Typed DEF Ended
  <2>4. Depth(r) = 0
    BY <2>2 DEF Depth
  <2>5. ~Opened(r) /\ ~Wrote(r) /\ ~Saved(r) /\ ~EntrySaved(r) /\ ~Done(r)
    BY <1>1, <2>2, <2>3, Working DEF Done
  <2>6. answer[r] # "ok" /\ answer[r] # "error"
    BY ConnectionsAssumption
  <2>. QED
    BY <2>1, <2>4, <2>5, <2>6 DEF HoldsOK, WorkOK
<1>5. ASSUME NEW c \in Conns PROVE ConnOK(c)
  BY ConnectionsAssumption DEF ConnOK, Clean
<1>. QED
  BY <1>1, <1>3, <1>4, <1>5 DEF IInv

(* Arriving, reading and expiring: no connection changes.                  *)
LEMMA ArriveKeeps ==
    ASSUME IInv, NEW r \in Requests, Arrive(r) PROVE IInv'
<1>. USE DEF Arrive, Proceed
<1>1. Types /\ HoldsOK(r) /\ WorkOK(r) /\ pc[r] = 0 /\ pc'[r] = 1
  BY DEF IInv, Types
<1>2. Types'
  BY <1>1, Typed DEF Types, Steps
<1>3. ~Running(r) /\ ~Ended(r)
  BY <1>1, Typed, Places DEF Ended
<1>4. ~Ended(r)'
  <2>1. Len(Steps(r)) \in Nat /\ Len(Steps(r)) >= 3
    BY <1>1, Typed
  <2>2. ~(pc'[r] > Len(Steps(r)))
    BY <1>1, <2>1
  <2>. QED
    BY <2>2 DEF Ended, Steps
<1>5. Depth(r) = 0 /\ Depth(r)' = 0
  BY <1>1, <1>3 DEF Depth
<1>6. ~Opened(r)' /\ ~Wrote(r)' /\ ~Saved(r)' /\ ~EntrySaved(r)' /\ ~Done(r)'
  BY <1>1, <1>4 DEF Opened, Wrote, Saved, EntrySaved, Done, At
<1>7. ~Wrote(r) /\ ~Done(r)
  BY <1>1, <1>3, Working DEF Done
<1>8. HoldsOK(r)'
  BY <1>1, <1>5, <1>6 DEF HoldsOK
<1>9. WorkOK(r)'
  BY <1>1, <1>3, <1>4, <1>6, <1>7 DEF WorkOK, Astray, WorkOf, Document, Entry
<1>. QED
  BY <1>2, <1>8, <1>9, OwnStep DEF IInv, ConnOK, Types

(* A step of a program, in place.                                          *)
LEMMA Step ==
    ASSUME IInv, NEW r \in Requests, Running(r), Proceed(r), kind' = kind
    PROVE  /\ pc'[r] = pc[r] + 1
           /\ \A q \in Requests \ {r} : pc'[q] = pc[q]
           /\ pc' \in [Requests -> Nat]
           /\ \A q \in Requests : pc'[q] <= Len(Steps(q)') + 1
           /\ Document(r)' = Document(r) /\ Entry(r)' = Entry(r) /\ WorkOf(r)' = WorkOf(r)
<1>1. pc'[r] = pc[r] + 1 /\ \A q \in Requests \ {r} : pc'[q] = pc[q]
  BY DEF IInv, Types, Proceed
<1>2. pc' \in [Requests -> Nat]
  BY DEF IInv, Types, Proceed
<1>3. pc[r] <= Len(Steps(r)) /\ \A q \in Requests : pc[q] <= Len(Steps(q)) + 1
  BY Typed, Places DEF IInv, Types
<1>4. \A q \in Requests : Steps(q)' = Steps(q) /\ Len(Steps(q)) \in Nat
  BY Typed DEF Steps, IInv
<1>5. ASSUME NEW q \in Requests PROVE pc'[q] <= Len(Steps(q)') + 1
  <2>1. CASE q = r
    BY <1>1, <1>3, <1>4, <2>1, Typed DEF IInv
  <2>2. CASE q # r
    BY <1>1, <1>3, <1>4, <2>2
  <2>. QED
    BY <2>1, <2>2
<1>. QED
  BY <1>1, <1>2, <1>5 DEF Document, Entry, WorkOf

LEMMA ReadKeeps ==
    ASSUME IInv, NEW r \in Requests, Read(r) PROVE IInv'
<1>. USE DEF Read
<1>1. Types /\ HoldsOK(r) /\ WorkOK(r) /\ Running(r)
  BY DEF IInv, Doing
<1>2. /\ Depth(r)' = 2 /\ Depth(r) = 2 /\ ~Opened(r) /\ ~Opened(r)' /\ ~Wrote(r)'
      /\ ~Done(r) /\ ~Ended(r)' /\ ~Saved(r)' /\ (EntrySaved(r)' => EntrySaved(r))
  <2>1. ~Doing(r, "release") /\ ~Doing(r, "statement") /\ ~Doing(r, "commit")
        /\ ~Doing(r, "entry")
    BY DEF Doing
  <2>. QED
    BY <1>1, <2>1, Step, NextPlace
<1>3. Types'
  BY <1>1, Step DEF Types
<1>4. HoldsOK(r)'
  BY <1>1, <1>2 DEF HoldsOK, Clean
<1>5. WorkOK(r)'
  BY <1>1, <1>2, Step, Working DEF WorkOK, Astray, Done
<1>. QED
  BY <1>1, <1>3, <1>4, <1>5, Step, OwnStep DEF IInv, ConnOK

LEMMA ConnectKeeps ==
    ASSUME IInv, NEW r \in Requests, Connect(r) PROVE IInv'
<1>. USE DEF Connect
<1>1. Types /\ HoldsOK(r) /\ WorkOK(r) /\ Running(r)
  BY DEF IInv, Doing
<1>2. /\ Depth(r) \in {0, 1} /\ Depth(r)' = Depth(r) + 1
      /\ Opened(r)' = Opened(r) /\ Wrote(r)' = Wrote(r)
      /\ ~Done(r) /\ ~Ended(r)' /\ ~Saved(r)' /\ (EntrySaved(r)' => EntrySaved(r))
  <2>1. ~Doing(r, "release") /\ ~Doing(r, "statement") /\ ~Doing(r, "commit")
        /\ ~Doing(r, "entry")
    BY DEF Doing
  <2>. QED
    BY <1>1, <2>1, Step, NextPlace
<1>3. PICK c \in Free : held' = [held EXCEPT ![r] = Append(@, c)]
  OBVIOUS
<1>4. c \in Conns /\ Clean(c) /\ c \notin Range(held[r])
  BY DEF Free, IInv, ConnOK
<1>5. /\ held'[r] = Append(held[r], c) /\ held[r] \in Seq(Conns)
      /\ \A q \in Requests \ {r} : held'[q] = held[q]
      /\ held' \in [Requests -> Seq(Conns)]
      /\ Range(held'[r]) = Range(held[r]) \cup {c}
      /\ Len(held'[r]) = Depth(r) + 1
      /\ held'[r][Depth(r) + 1] = c
      /\ Depth(r) = 1 => held'[r][1] = held[r][1]
  <2>1. held[r] \in Seq(Conns) /\ Len(held[r]) = Depth(r)
    BY <1>1, Typed DEF HoldsOK
  <2>2. /\ held'[r] = Append(held[r], c) /\ \A q \in Requests \ {r} : held'[q] = held[q]
    BY <1>1, <1>3 DEF Types
  <2>3. held' \in [Requests -> Seq(Conns)]
    BY <1>1, <1>3, <1>4, <2>1, Connected DEF Types
  <2>. QED
    BY <1>2, <1>4, <2>1, <2>2, <2>3, Connected
<1>6. Types'
  BY <1>1, <1>5, Step DEF Types
<1>7. HoldsOK(r)'
  <2>1. CASE Depth(r) = 0
    <3>1. ~Opened(r)
      BY <1>1, <2>1, Working
    <3>. QED
      BY <1>2, <1>4, <1>5, <2>1, <3>1 DEF HoldsOK, Clean
  <2>2. CASE Depth(r) = 1
    <3>1. held[r][1] \in Range(held[r])
      BY <2>2, Holds
    <3>. QED
      BY <1>1, <1>2, <1>4, <1>5, <2>2, <3>1 DEF HoldsOK, Clean
  <2>. QED
    BY <1>2, <2>1, <2>2
<1>8. WorkOK(r)'
  <2>1. Wrote(r) => Depth(r) = 1
    BY <1>1, <1>2, Working
  <2>. QED
    BY <1>1, <1>2, <1>5, <2>1, Step DEF WorkOK, Astray, Done
<1>. QED
  BY <1>1, <1>5, <1>6, <1>7, <1>8, Step, OwnStep DEF IInv, ConnOK

LEMMA BeginKeeps ==
    ASSUME IInv, NEW r \in Requests, BeginTransaction(r) PROVE IInv'
<1>. USE DEF BeginTransaction
<1>1. Types /\ HoldsOK(r) /\ WorkOK(r) /\ Running(r)
  BY DEF IInv, Doing
<1>2. /\ Depth(r) = 1 /\ Depth(r)' = 1 /\ Opened(r)' /\ ~Wrote(r)' /\ ~Wrote(r)
      /\ ~Done(r) /\ ~Ended(r)' /\ ~Saved(r)' /\ (EntrySaved(r)' => EntrySaved(r))
  <2>1. ~Doing(r, "release") /\ ~Doing(r, "statement") /\ ~Doing(r, "commit")
        /\ ~Doing(r, "entry")
    BY DEF Doing
  <2>2. ~Wrote(r)
    BY <1>1, Typed, Places DEF Wrote, At
  <2>. QED
    BY <1>1, <2>1, <2>2, Step, NextPlace
<1>. DEFINE c == held[r][1]
<1>3. Conn(r) = c /\ c \in Conns /\ Range(held[r]) = {c}
  BY <1>2, Holds, Apart
<1>4. /\ opener' \in [Conns -> Requests \cup {None}]
      /\ opener'[c] = IF opener[c] = None THEN r ELSE opener[c]
      /\ \A d \in Conns \ {c} : opener'[d] = opener[d]
  BY <1>1, <1>3 DEF Types
<1>5. mixed \subseteq mixed' /\ mixed' \subseteq Requests
  BY <1>1 DEF Types, Mixed
<1>6. Types'
  BY <1>1, <1>4, <1>5, Step DEF Types
<1>7. r # None
  BY ConnectionsAssumption
<1>8. HoldsOK(r)'
  <2>1. opener[c] = None => opener'[c] = r
    BY <1>4
  <2>2. opener[c] # None => opener'[c] = opener[c]
    BY <1>4
  <2>3. Clean(c) \/ opener[c] = r
    BY <1>1, <1>2 DEF HoldsOK
  <2>4. opener'[c] = r \/ Clean(c)'
    BY <2>1, <2>2, <2>3 DEF Clean
  <2>5. opener'[c] # None
    BY <1>7, <2>1, <2>2
  <2>. QED
    BY <1>1, <1>2, <2>4, <2>5 DEF HoldsOK
<1>9. WorkOK(r)'
  BY <1>1, <1>2, <1>5, Step, Working DEF WorkOK, Astray, Done
<1>10. \A d \in Conns : opener'[d] = None => opener[d] = None
  BY <1>4, <1>7
<1>. QED
  BY <1>1, <1>3, <1>4, <1>5, <1>6, <1>8, <1>9, <1>10, Step, OwnStep DEF IInv, ConnOK

LEMMA LockRowKeeps ==
    ASSUME IInv, NEW r \in Requests, LockRow(r) PROVE IInv'
<1>. USE DEF LockRow
<1>1. Types /\ HoldsOK(r) /\ WorkOK(r) /\ Running(r)
  BY DEF IInv, Doing
<1>2. /\ Depth(r) = 1 /\ Depth(r)' = 1 /\ Opened(r) /\ Opened(r)'
      /\ Doing(r, "lock") => ~Wrote(r)' /\ ~Wrote(r) /\ kind[r] = "refusal"
      /\ ~Doing(r, "lock") => Wrote(r)'
      /\ ~Done(r) /\ ~Ended(r)' /\ ~Saved(r)' /\ (EntrySaved(r)' => EntrySaved(r))
  <2>1. ~Doing(r, "release") /\ ~Doing(r, "statement") /\ ~Doing(r, "commit")
        /\ ~Doing(r, "entry")
    BY DEF Doing
  <2>2. Doing(r, "lock") => ~Wrote(r)
    BY <1>1, Typed, Places DEF Wrote, At
  <2>. QED
    BY <1>1, <2>1, <2>2, Step, NextPlace
<1>. DEFINE c == held[r][1]
<1>3. Conn(r) = c /\ c \in Conns /\ Range(held[r]) = {c}
  BY <1>2, Holds, Apart
<1>4. /\ written' \in [Conns -> SUBSET Works]
      /\ written'[c] = IF Doing(r, "lock") THEN written[c] ELSE written[c] \cup {Document(r)}
      /\ \A d \in Conns \ {c} : written'[d] = written[d]
  <2>1. Document(r) \in Works
    BY <1>1, Typed
  <2>. QED
    BY <1>1, <1>3, <2>1 DEF Types
<1>5. opener[c] # None
  BY <1>1, <1>2 DEF HoldsOK
<1>6. Types'
  BY <1>1, <1>3, <1>4, Step DEF Types
<1>7. HoldsOK(r)'
  BY <1>1, <1>2, <1>5 DEF HoldsOK, Clean
<1>8. WorkOK(r)'
  <2>1. ASSUME NEW d \in Conns, Document(r) \in written'[d]
        PROVE  (Wrote(r)' /\ d = c) \/ Astray(r)'
    BY <1>1, <1>2, <1>3, <1>4, <2>1 DEF WorkOK, Astray
  <2>2. Wrote(r)' => Document(r) \in written'[c]
    BY <1>2, <1>4
  <2>. QED
    BY <1>1, <1>2, <2>1, <2>2, Step DEF WorkOK, Done
<1>9. \A q \in Requests \ {r} : Document(q) # Document(r)
  BY DEF Document
<1>10. \A d \in Conns : opener'[d] = None => written'[d] = {} /\ d \notin aborted' /\ lock' # d
  BY <1>3, <1>4, <1>5 DEF IInv, ConnOK
<1>. QED
  BY <1>1, <1>3, <1>4, <1>6, <1>7, <1>8, <1>9, <1>10, Step, OwnStep DEF IInv

LEMMA StatementKeeps ==
    ASSUME IInv, NEW r \in Requests, Statement(r) PROVE IInv'
<1>. USE DEF Statement
<1>1. Types /\ HoldsOK(r) /\ WorkOK(r) /\ Running(r)
  BY DEF IInv, Doing
<1>2. /\ Depth(r) = 1 /\ Depth(r)' = 1 /\ ~Opened(r) /\ ~Opened(r)'
      /\ ~Wrote(r)' /\ ~Wrote(r) /\ kind[r] = "statement" /\ Saved(r)'
      /\ ~Ended(r)' /\ ~Done(r) /\ (EntrySaved(r)' => EntrySaved(r))
  <2>1. ~Doing(r, "release") /\ ~Doing(r, "entry")
    BY DEF Doing
  <2>2. ~Wrote(r)
    BY <1>1, Working, Step, NextPlace
  <2>. QED
    BY <1>1, <2>1, <2>2, Step, NextPlace
<1>. DEFINE c == held[r][1]
<1>3. Conn(r) = c /\ c \in Conns /\ Range(held[r]) = {c}
  BY <1>2, Holds, Apart
<1>4. answer[r] # "error" /\ Done(r)' /\ Astray(r)'
  BY <1>1, <1>2, NoErrorYet DEF Done, Astray
<1>5. Document(r) \in Works /\ mixed \subseteq mixed' /\ mixed' \subseteq Requests
  BY <1>1, Typed DEF Types, Mixed
<1>6. HoldsOK(r)'
  BY <1>1, <1>2 DEF HoldsOK, Clean
<1>7. \A q \in Requests \ {r} : Document(q) # Document(r)
  BY DEF Document
<1>8. CASE opener[c] = None
  <2>1. durable' = durable \cup {Document(r)} /\ written' = written /\ lock' = lock
    BY <1>3, <1>8
  <2>2. Types'
    BY <1>1, <1>5, <2>1, Step DEF Types
  <2>3. WorkOK(r)'
    BY <1>1, <1>2, <1>4, <1>5, <2>1, Step DEF WorkOK
  <2>. QED
    BY <1>1, <1>3, <1>5, <1>6, <1>7, <2>1, <2>2, <2>3, Step, OwnStep DEF IInv, ConnOK
<1>9. CASE opener[c] # None
  <2>1. durable' = durable /\ written' = [written EXCEPT ![c] = @ \cup {Document(r)}] /\ lock' = c
    BY <1>3, <1>9
  <2>2. /\ written' \in [Conns -> SUBSET Works]
        /\ written'[c] = written[c] \cup {Document(r)}
        /\ \A d \in Conns \ {c} : written'[d] = written[d]
    BY <1>1, <1>3, <1>5, <2>1 DEF Types
  <2>3. Types'
    BY <1>1, <1>3, <1>5, <2>1, <2>2, Step DEF Types
  <2>4. opener[c] # r
    BY <1>1, <1>2, <1>9 DEF HoldsOK, Clean
  <2>5. r \in mixed'
    BY <1>3, <1>9, <2>4 DEF Mixed
  <2>6. WorkOK(r)'
    BY <1>1, <1>2, <1>4, <1>5, <2>1, <2>5, Step DEF WorkOK
  <2>7. \A d \in Conns : opener'[d] = None => written'[d] = {} /\ d \notin aborted' /\ lock' # d
    BY <1>3, <1>9, <2>1, <2>2 DEF IInv, ConnOK
  <2>. QED
    BY <1>1, <1>3, <1>5, <1>6, <1>7, <2>1, <2>2, <2>3, <2>6, <2>7, Step, OwnStep DEF IInv
<1>. QED
  BY <1>8, <1>9

LEMMA CommitKeeps ==
    ASSUME IInv, NEW r \in Requests, Commit(r) PROVE IInv'
<1>. USE DEF Commit
<1>1. Types /\ HoldsOK(r) /\ WorkOK(r) /\ Running(r)
  BY DEF IInv, Doing
<1>. DEFINE c == Conn(r)
            work == IF Doing(r, "entry") THEN {Entry(r)} ELSE {}
<1>2. Depth(r) \in {1, 2} /\ Depth(r)' = Depth(r) /\ Wrote(r)
  BY <1>1, Step, NextPlace
<1>3. c \in Conns /\ c \in Range(held[r]) /\ held[r][1] \in Range(held[r])
  BY <1>2, Holds, Apart
<1>4. /\ durable' = durable \cup written[c] \cup work
      /\ written' \in [Conns -> SUBSET Works] /\ written'[c] = {}
      /\ \A d \in Conns \ {c} : written'[d] = written[d]
      /\ opener' \in [Conns -> Requests \cup {None}] /\ opener'[c] = None
      /\ \A d \in Conns \ {c} : opener'[d] = opener[d]
      /\ lock' = IF lock = c THEN None ELSE lock
  BY <1>1, <1>3 DEF Types, Committed
<1>5. mixed \subseteq mixed' /\ mixed' \subseteq Requests
  BY <1>1 DEF Types, Mixed
<1>6. Types'
  <2>1. written[c] \subseteq Works /\ work \subseteq Works
    BY <1>1, <1>3, Typed DEF Types
  <2>. QED
    BY <1>1, <1>4, <1>5, <2>1, Step DEF Types
<1>7. \A d \in Conns : opener'[d] = None => written'[d] = {} /\ d \notin aborted' /\ lock' # d
  BY <1>3, <1>4, ConnectionsAssumption DEF IInv, ConnOK
<1>8. \A q \in Requests : Document(q) \notin work
  BY DEF Document, Entry
<1>9. answer[r] # "error"
  BY <1>1, NoErrorYet
<1>10. HoldsOK(r)' /\ WorkOK(r)'
  <2>1. CASE Doing(r, "commit")
    <3>1. /\ Depth(r) = 1 /\ Depth(r)' = 1 /\ ~Opened(r)' /\ ~Wrote(r)' /\ Saved(r)'
          /\ ~Ended(r)' /\ (EntrySaved(r)' => EntrySaved(r))
      <4>1. ~Doing(r, "release") /\ ~Doing(r, "entry")
        BY <2>1 DEF Doing
      <4>. QED
        BY <1>1, <2>1, <4>1, Step, NextPlace
    <3>2. c = held[r][1]
      BY <3>1, Holds
    <3>3. HoldsOK(r)'
      BY <1>1, <1>4, <3>1, <3>2 DEF HoldsOK, Clean
    <3>4. Document(r) \in durable'
      BY <1>1, <1>2, <1>4, <3>2 DEF WorkOK
    <3>5. \A d \in Conns : Document(r) \in written'[d] => Astray(r)'
      <4>1. kind[r] # "statement"
        BY <1>2 DEF Wrote, At
      <4>. QED
        BY <1>1, <1>4, <3>2, <4>1 DEF WorkOK, Astray
    <3>6. WorkOK(r)'
      BY <1>1, <1>4, <1>5, <1>9, <3>1, <3>4, <3>5, Step DEF WorkOK, Done
    <3>. QED
      BY <3>3, <3>6
  <2>2. CASE Doing(r, "entry")
    <3>1. /\ Depth(r) = 2 /\ Depth(r)' = 2 /\ Opened(r) /\ Opened(r)' /\ EntrySaved(r)'
          /\ ~Saved(r)' /\ ~Done(r) /\ ~Ended(r)' /\ kind[r] = "growth"
      <4>1. ~Doing(r, "release") /\ ~Doing(r, "statement") /\ ~Doing(r, "commit")
        BY <2>2 DEF Doing
      <4>. QED
        BY <1>1, <2>2, <4>1, Step, NextPlace
    <3>2. c = held[r][2] /\ held[r][1] # c
      BY <3>1, Holds
    <3>3. HoldsOK(r)'
      BY <1>1, <1>3, <1>4, <3>1, <3>2, Apart DEF HoldsOK, Clean
    <3>4. /\ held[r][1] \in Conns /\ Document(r) \notin written[c]
          /\ written'[held[r][1]] = written[held[r][1]]
      BY <1>1, <1>3, <1>4, <3>1, <3>2, Apart DEF WorkOK, Astray
    <3>5. Wrote(r)'
      BY <1>1, <2>2, <3>1, Step, Typed, Places DEF Wrote, At
    <3>6. Entry(r) \in durable' /\ Document(r) \notin durable'
      BY <1>1, <1>4, <1>8, <2>2, <3>1, <3>4 DEF WorkOK
    <3>7. \A d \in Conns : Document(r) \in written'[d] => d = held[r][1]
      BY <1>1, <1>4, <3>1 DEF WorkOK, Astray
    <3>8. WorkOK(r)'
      BY <1>1, <1>2, <1>4, <1>5, <1>9, <3>1, <3>4, <3>5, <3>6, <3>7, Step DEF WorkOK
    <3>. QED
      BY <3>3, <3>8
  <2>. QED
    BY <2>1, <2>2
<1>. QED
  BY <1>1, <1>3, <1>4, <1>5, <1>6, <1>7, <1>8, <1>10, Step, OwnStep

LEMMA ReleaseKeeps ==
    ASSUME IInv, NEW r \in Requests, Release(r) PROVE IInv'
<1>. USE DEF Release
<1>1. Types /\ HoldsOK(r) /\ WorkOK(r) /\ Running(r)
  BY DEF IInv, Doing
<1>2. /\ Depth(r) \in {1, 2} /\ Depth(r)' = Depth(r) - 1
      /\ Opened(r)' => Opened(r) /\ Depth(r) = 2
      /\ Wrote(r)' => Wrote(r) /\ Depth(r) = 2
      /\ Depth(r) = 2 => (Opened(r) => Opened(r)') /\ (Wrote(r) => Wrote(r)')
      /\ Depth(r) = 1 => Done(r) \/ kind[r] = "refusal"
      /\ Depth(r) = 1 => ~Opened(r) \/ kind[r] = "refusal"
      /\ Depth(r) = 1 /\ kind[r] = "growth" => EntrySaved(r)
      /\ Depth(r) = 1 <=> pc[r] = Len(Steps(r))
      /\ Depth(r) = 1 <=> Ended(r)'
      /\ ~Saved(r)' /\ (EntrySaved(r)' => EntrySaved(r))
  <2>1. ~Doing(r, "commit") /\ ~Doing(r, "statement") /\ ~Doing(r, "entry")
    BY DEF Doing
  <2>. QED
    BY <1>1, <2>1, Step, NextPlace
<1>. DEFINE c == Conn(r)
<1>3. c \in Conns /\ c \in Range(held[r])
  BY <1>2, Holds, Apart
<1>4. /\ held' \in [Requests -> Seq(Conns)]
      /\ \A q \in Requests \ {r} : held'[q] = held[q]
      /\ Len(held'[r]) = Depth(r) - 1
      /\ Depth(r) = 2 => held'[r][1] = held[r][1]
      /\ Range(held'[r]) = Range(held[r]) \ {c}
  <2>. DEFINE t == SubSeq(held[r], 1, Len(held[r]) - 1)
  <2>1. held[r] \in Seq(Conns) /\ Len(held[r]) = Depth(r)
        /\ (Len(held[r]) = 2 => held[r][1] # held[r][2])
    BY <1>1, Typed DEF HoldsOK
  <2>2. /\ t \in Seq(Conns) /\ Len(t) = Len(held[r]) - 1
        /\ Len(t) = 1 => t[1] = held[r][1]
        /\ Range(t) = Range(held[r]) \ {held[r][Len(held[r])]}
    BY <1>2, <2>1, Released
  <2>3. held' = [held EXCEPT ![r] = t]
    OBVIOUS
  <2>. HIDE DEF t
  <2>4. held'[r] = t
    BY <1>1, <2>3 DEF Types
  <2>5. held' \in [Requests -> Seq(Conns)] /\ \A q \in Requests \ {r} : held'[q] = held[q]
    BY <1>1, <2>2, <2>3 DEF Types
  <2>6. c = held[r][Len(held[r])]
    BY DEF Conn
  <2>7. Len(t) = Depth(r) - 1 /\ (Depth(r) = 2 => t[1] = held[r][1])
    BY <2>1, <2>2
  <2>. QED
    BY <2>2, <2>4, <2>5, <2>6, <2>7
<1>5. Clean(c)
  <2>1. CASE Depth(r) = 1
    BY <1>1, <1>2, <2>1, Holds DEF HoldsOK, Clean
  <2>2. CASE Depth(r) = 2
    BY <1>1, <2>2, Holds DEF HoldsOK
  <2>. QED
    BY <1>2, <2>1, <2>2
<1>6. /\ answer' \in [Requests -> {None, "ok", "error", "expired"}]
      /\ \A q \in Requests \ {r} : answer'[q] = answer[q]
      /\ Depth(r) = 2 => answer'[r] = answer[r]
      /\ Depth(r) = 1 => \/ answer'[r] = answer[r]
                         \/ answer'[r] = IF kind[r] = "refusal" THEN "error" ELSE "ok"
  <2>1. CASE pc[r] = Len(Steps(r))
    <3>1. Depth(r) = 1 /\ Tell(r, IF kind[r] = "refusal" THEN "error" ELSE "ok")
      BY <1>2, <2>1
    <3>. QED
      BY <1>1, <3>1 DEF Types, Tell
  <2>2. CASE pc[r] # Len(Steps(r))
    BY <1>1, <1>2, <2>2 DEF Types
  <2>. QED
    BY <2>1, <2>2
<1>7. Types'
  BY <1>1, <1>4, <1>6, Step DEF Types
<1>8. answer[r] # "error"
  BY <1>1, NoErrorYet
<1>9. HoldsOK(r)' /\ WorkOK(r)'
  <2>1. CASE Depth(r) = 1
    <3>1. HoldsOK(r)'
      BY <1>2, <1>4, <2>1 DEF HoldsOK
    <3>2. ~Wrote(r) /\ ~Wrote(r)' /\ Ended(r)' /\ Done(r)'
      BY <1>1, <1>2, <2>1, Working DEF Done, Wrote, At
    <3>3. CASE kind[r] = "refusal"
      <4>1. ~Done(r)
        BY <1>1, <3>3, Working DEF Done, Saved, At
      <4>2. Document(r) \notin durable /\ \A d \in Conns : Document(r) \notin written[d]
        BY <1>1, <3>2, <3>3, <4>1 DEF WorkOK, Astray
      <4>. QED
        BY <1>1, <1>2, <1>6, <2>1, <3>1, <3>2, <3>3, <4>2, Step DEF WorkOK
    <3>4. CASE kind[r] # "refusal"
      <4>1. Saved(r)
        BY <1>1, <1>2, <2>1, <3>4, Working DEF Done
      <4>2. r \in mixed \/ WorkOf(r) \subseteq durable
        BY <1>1, <1>2, <2>1, <4>1 DEF WorkOK, WorkOf
      <4>3. answer'[r] # "error" /\ (Astray(r) => Astray(r)')
        BY <1>6, <1>8, <2>1, <3>2, <3>4 DEF Astray
      <4>. QED
        BY <1>1, <1>2, <3>1, <3>2, <4>2, <4>3, Step DEF WorkOK
    <3>. QED
      BY <3>3, <3>4
  <2>2. CASE Depth(r) = 2
    <3>1. HoldsOK(r)'
      BY <1>1, <1>2, <1>4, <2>2 DEF HoldsOK, Clean
    <3>2. ~Done(r)
      <4>1. ~Saved(r)
        BY <1>1, <2>2, Working DEF Saved, At, Depth
      <4>. QED
        BY <1>1, <4>1, Working DEF Done
    <3>. QED
      BY <1>1, <1>2, <1>4, <1>6, <1>8, <2>2, <3>1, <3>2, Step DEF WorkOK, Astray
  <2>. QED
    BY <1>2, <2>1, <2>2
<1>10. \A d \in Range(held[r]) \ Range(held'[r]) : Clean(d)'
  BY <1>4, <1>5 DEF Clean
<1>11. /\ UNCHANGED <<kind, opener, aborted, written, lock, durable, mixed>>
       /\ \A q \in Requests \ {r} : pc'[q] = pc[q]
  BY <1>1, Step
<1>12. \A d \in Conns : opener[d] = None => written[d] = {} /\ d \notin aborted /\ lock # d
  BY DEF IInv, ConnOK
<1>13. /\ kind' = kind /\ durable \subseteq durable' /\ mixed \subseteq mixed'
       /\ \A q \in Requests \ {r} :
             pc'[q] = pc[q] /\ held'[q] = held[q] /\ answer'[q] = answer[q]
       /\ Range(held'[r]) \subseteq Range(held[r]) \cup Free
       /\ \A d \in Conns \ Range(held[r]) : opener'[d] = opener[d] /\ written'[d] = written[d]
       /\ \A d \in Conns : \A q \in Requests \ {r} :
             Document(q) \in written'[d] => Document(q) \in written[d]
       /\ \A q \in Requests \ {r} : Document(q) \in durable' => Document(q) \in durable
       /\ \A d \in Conns : opener'[d] = None =>
             written'[d] = {} /\ d \notin aborted' /\ lock' # d
  BY ONLY <1>4, <1>6, <1>11, <1>12
<1>. QED
  BY ONLY IInv, r \in Requests, <1>7, <1>9, <1>10, <1>13, OwnStep

LEMMA ExpireKeeps ==
    ASSUME IInv, NEW r \in Requests, Expire(r) PROVE IInv'
<1>. USE DEF Expire
<1>1. Types /\ HoldsOK(r) /\ WorkOK(r) /\ answer[r] = None
  BY DEF IInv
<1>2. /\ answer' \in [Requests -> {None, "ok", "error", "expired"}]
      /\ answer'[r] = "expired" /\ \A q \in Requests \ {r} : answer'[q] = answer[q]
  BY <1>1 DEF Types, Tell
<1>3. Types'
  BY <1>1, <1>2 DEF Types, Steps
<1>4. /\ Depth(r)' = Depth(r) /\ Opened(r)' = Opened(r) /\ Wrote(r)' = Wrote(r)
      /\ Saved(r)' = Saved(r) /\ EntrySaved(r)' = EntrySaved(r)
      /\ Ended(r)' = Ended(r) /\ WorkOf(r)' = WorkOf(r)
  BY DEF Depth, Running, Steps, At, Opened, Wrote, Saved, EntrySaved, Ended, WorkOf
<1>5. Done(r)' = Done(r) /\ (Astray(r) => Astray(r)')
  BY <1>2, <1>4 DEF Done, Astray
<1>6. HoldsOK(r)'
  BY <1>1, <1>4 DEF HoldsOK, Clean
<1>7. WorkOK(r)'
  BY <1>1, <1>2, <1>4, <1>5 DEF WorkOK, Document, Entry
<1>. QED
  BY <1>1, <1>2, <1>3, <1>6, <1>7, OwnStep DEF IInv, ConnOK

(* Every way to fail: the handler has not come to its last release.        *)
LEMMA ThrowKeeps ==
    ASSUME IInv, NEW r \in Requests, Running(r), ~Doing(r, "release"), Throw(r)
    PROVE  IInv'
<1>1. Types /\ HoldsOK(r) /\ WorkOK(r)
  BY DEF IInv
<1>. DEFINE undone == RolledBack(r)
            broken == {c \in Range(held[r]) \ undone : Alone(r) /\ c = Conn(r) /\ opener[c] # None}
            over == undone \cup broken
<1>2. /\ opener' = [c \in Conns |-> IF c \in undone THEN None ELSE opener[c]]
      /\ aborted' = (aborted \cup broken) \ undone
      /\ written' = [c \in Conns |-> IF c \in over THEN {} ELSE written[c]]
      /\ lock' = IF lock \in over THEN None ELSE lock
      /\ held' = [held EXCEPT ![r] = <<>>]
      /\ pc' = [pc EXCEPT ![r] = Len(Steps(r)) + 1]
      /\ Tell(r, "error")
      /\ UNCHANGED <<kind, durable, mixed>>
  BY Zenon DEF Throw
<1>3. held[r] = <<>> => Range(held[r]) = {}
  BY DEF Range
<1>4. undone \subseteq Range(held[r]) /\ broken \subseteq Range(held[r])
  <2>1. undone \subseteq Range(held[r])
    BY <1>3, Holds DEF RolledBack
  <2>. QED
    BY <2>1
<1>5. ~Done(r) /\ Depth(r) \in {0, 1, 2}
  BY <1>1, Working, Typed, Places, Holds DEF Done, Saved, At
<1>6. \A c \in Range(held[r]) \ undone : Clean(c)
  <2>1. CASE kind[r] = "statement"
    <3>1. ~Opened(r) /\ Depth(r) \in {0, 1}
      BY <2>1 DEF Opened, At, Depth
    <3>2. CASE Depth(r) = 0
      BY <3>2, Holds
    <3>3. CASE Depth(r) = 1
      <4>1. Clean(held[r][1])
        BY <1>1, <3>1, <3>3 DEF HoldsOK
      <4>2. Range(held[r]) = {held[r][1]}
        BY <3>3, Holds
      <4>. QED
        BY <4>1, <4>2
    <3>. QED
      BY <3>1, <3>2, <3>3
  <2>2. CASE kind[r] = "growth"
    BY <1>3, <2>2 DEF RolledBack
  <2>3. CASE kind[r] \notin {"statement", "growth"}
    BY <1>1, <1>3, <1>5, <2>3, Holds DEF HoldsOK, RolledBack
  <2>. QED
    BY <2>1, <2>2, <2>3
<1>7. Wrote(r) => held[r][1] \in undone
  <2>. SUFFICES ASSUME Wrote(r) PROVE held[r][1] \in undone
    OBVIOUS
  <2>1. Depth(r) > 0 /\ kind[r] # "statement"
    BY <1>1, Working DEF Wrote, At
  <2>2. held[r] # <<>> /\ held[r][1] \in Range(held[r])
    BY <1>1, <1>5, <2>1, Holds
  <2>. QED
    BY <2>1, <2>2 DEF RolledBack
<1>. HIDE DEF undone, broken
<1>8. /\ pc' \in [Requests -> Nat] /\ pc'[r] = Len(Steps(r)) + 1
      /\ \A q \in Requests \ {r} : pc'[q] = pc[q] /\ held'[q] = held[q]
      /\ held' \in [Requests -> Seq(Conns)] /\ held'[r] = <<>>
  <2>1. Len(Steps(r)) \in Nat
    BY <1>1, Typed
  <2>. QED
    BY <1>1, <1>2, <2>1 DEF Types
<1>9. \A q \in Requests : pc'[q] <= Len(Steps(q)') + 1
  <2>1. \A q \in Requests : Len(Steps(q)) \in Nat /\ Steps(q)' = Steps(q)
    BY <1>1, <1>2, Typed DEF Steps
  <2>2. \A q \in Requests \ {r} : pc'[q] <= Len(Steps(q)') + 1
    BY <1>1, <1>8, <2>1 DEF Types
  <2>3. pc'[r] = Len(Steps(r)') + 1 /\ pc'[r] \in Nat
    BY <1>8, <2>1
  <2>4. pc'[r] <= Len(Steps(r)') + 1
    BY <2>3
  <2>. QED
    BY <2>2, <2>4
<1>10. /\ answer' \in [Requests -> {None, "ok", "error", "expired"}]
       /\ answer'[r] \in {answer[r], "error"}
       /\ answer'[r] = "ok" => answer[r] = "ok"
       /\ \A q \in Requests \ {r} : answer'[q] = answer[q]
  BY <1>1, <1>2 DEF Types, Tell
<1>11. /\ opener' \in [Conns -> Requests \cup {None}]
       /\ written' \in [Conns -> SUBSET Works]
       /\ aborted' \subseteq Conns /\ lock' \in Conns \cup {None}
  <2>1. Range(held[r]) \subseteq Conns
    BY <1>1, Typed
  <2>. QED
    BY <1>1, <1>2, <1>4, <2>1 DEF Types
<1>12. Types'
  BY <1>1, <1>2, <1>8, <1>9, <1>10, <1>11 DEF Types
<1>13. /\ Ended(r)' /\ ~Running(r)' /\ Depth(r)' = 0 /\ ~Opened(r)'
       /\ ~Wrote(r)' /\ ~Saved(r)' /\ ~EntrySaved(r)' /\ Done(r)'
  <2>1. Ended(r)' /\ ~Running(r)'
    <3>1. Steps(r)' = Steps(r) /\ Len(Steps(r)) \in Nat
      BY <1>1, <1>2, Typed DEF Steps
    <3>2. Len(Steps(r)) + 1 > Len(Steps(r)) /\ Len(Steps(r)) + 1 \notin 1..Len(Steps(r))
      BY <3>1
    <3>. QED
      BY <1>8, <3>1, <3>2 DEF Ended, Running
  <2>2. Depth(r)' = 0
    BY <2>1 DEF Depth
  <2>3. ~Opened(r)' /\ ~Wrote(r)' /\ ~Saved(r)' /\ ~EntrySaved(r)'
    <3>1. kind[r] \in AllKinds /\ kind' = kind
      BY <1>1, <1>2, Typed
    <3>2. Len(Steps(r)) = CASE kind[r] = "statement" -> 3
                            [] kind[r] = "transaction" -> 5
                            [] kind[r] = "refusal" -> 4
                            [] kind[r] = "growth" -> 8
                            [] kind[r] = "preview" -> 8
      BY <1>1, <3>1, Typed, Places
    <3>3. pc'[r] = Len(Steps(r)) + 1
      BY <1>8
    <3>. USE DEF Opened, Wrote, Saved, EntrySaved, At
    <3>4. CASE kind[r] = "statement"
      <4>1. pc'[r] = 4
        BY <3>2, <3>3, <3>4
      <4>. QED
        BY <3>1, <3>4, <4>1
    <3>5. CASE kind[r] = "transaction"
      <4>1. pc'[r] = 6
        BY <3>2, <3>3, <3>5
      <4>. QED
        BY <3>1, <3>5, <4>1
    <3>6. CASE kind[r] = "refusal"
      <4>1. pc'[r] = 5
        BY <3>2, <3>3, <3>6
      <4>. QED
        BY <3>1, <3>6, <4>1
    <3>7. CASE kind[r] = "growth"
      <4>1. pc'[r] = 9
        BY <3>2, <3>3, <3>7
      <4>. QED
        BY <3>1, <3>7, <4>1
    <3>8. CASE kind[r] = "preview"
      <4>1. pc'[r] = 9
        BY <3>2, <3>3, <3>8
      <4>. QED
        BY <3>1, <3>8, <4>1
    <3>. QED
      BY <3>1, <3>4, <3>5, <3>6, <3>7, <3>8 DEF AllKinds
  <2>. QED
    BY <2>1, <2>2, <2>3 DEF Done
<1>14. HoldsOK(r)'
  BY <1>8, <1>13 DEF HoldsOK
<1>15. \A d \in Conns : Document(r) \notin written'[d]
  BY <1>1, <1>2, <1>5, <1>7 DEF WorkOK, Astray
<1>16. WorkOK(r)'
  <2>1. Document(r) \notin durable
    BY <1>1, <1>5 DEF WorkOK
  <2>2. WorkOf(r)' = WorkOf(r) /\ Document(r)' = Document(r)
    BY <1>2 DEF WorkOf, Document, Entry
  <2>. QED
    BY <1>1, <1>2, <1>10, <1>13, <1>15, <2>1, <2>2 DEF WorkOK
<1>17. \A c \in Range(held[r]) : Clean(c)'
  BY <1>1, <1>2, <1>6, Typed DEF Clean
<1>18. \A c \in Conns : opener'[c] = None => written'[c] = {} /\ c \notin aborted' /\ lock' # c
  <2>. SUFFICES ASSUME NEW c \in Conns, opener'[c] = None
                PROVE  written'[c] = {} /\ c \notin aborted' /\ lock' # c
    OBVIOUS
  <2>1. CASE c \in undone
    BY <1>2, <2>1, ConnectionsAssumption
  <2>2. CASE c \notin undone
    <3>1. opener[c] = None
      BY <1>2, <2>2
    <3>2. written[c] = {} /\ c \notin aborted /\ lock # c
      BY <3>1 DEF IInv, ConnOK
    <3>3. c \notin broken
      BY <3>1 DEF broken
    <3>. QED
      BY <1>2, <2>2, <3>2, <3>3, ConnectionsAssumption
  <2>. QED
    BY <2>1, <2>2
<1>19. /\ \A c \in Conns \ Range(held[r]) : opener'[c] = opener[c] /\ written'[c] = written[c]
       /\ \A c \in Conns : \A q \in Requests : Document(q) \in written'[c] => Document(q) \in written[c]
  BY <1>2, <1>4
<1>20. Range(held'[r]) = {}
  BY <1>8 DEF Range
<1>. QED
  BY <1>2, <1>8, <1>10, <1>12, <1>14, <1>16, <1>17, <1>18, <1>19, <1>20, OwnStep

(* An idle connection is ended.                                            *)
LEMMA EndIdleKeeps ==
    ASSUME IInv, NEW c \in Conns, EndIdle(c) PROVE IInv'
<1>. USE DEF EndIdle
<1>1. Types /\ c \in Free
  BY DEF IInv, Idle
<1>2. /\ opener' \in [Conns -> Requests \cup {None}] /\ opener'[c] = None
      /\ \A d \in Conns \ {c} : opener'[d] = opener[d]
      /\ written' \in [Conns -> SUBSET Works] /\ written'[c] = {}
      /\ \A d \in Conns \ {c} : written'[d] = written[d]
  BY <1>1 DEF Types
<1>3. Types'
  BY <1>1, <1>2 DEF Types, Steps
<1>4. Exclusive'
  BY DEF IInv, Exclusive
<1>5. ASSUME NEW r \in Requests PROVE HoldsOK(r)' /\ WorkOK(r)'
  <2>1. \A d \in Range(held[r]) : d \in Conns \ {c}
    BY <1>1, Apart
  <2>. QED
    BY <1>1, <1>2, <2>1, Bystander
<1>6. ASSUME NEW d \in Conns PROVE ConnOK(d)'
  <2>1. ConnOK(d)
    BY DEF IInv
  <2>2. CASE d = c
    BY <1>2, <2>2, ConnectionsAssumption DEF ConnOK, Clean
  <2>3. CASE d # c
    BY <1>2, <2>1, <2>3, ConnectionsAssumption DEF ConnOK, Clean, Free
  <2>. QED
    BY <2>2, <2>3
<1>. QED
  BY <1>3, <1>4, <1>5, <1>6 DEF IInv

LEMMA IInvStep == IInv /\ [Next]_vars => IInv'
<1>. SUFFICES ASSUME IInv, [Next]_vars PROVE IInv'
  OBVIOUS
<1>1. ASSUME NEW r \in Requests, Fail(r) PROVE IInv'
  <2>1. Running(r) /\ ~Doing(r, "release") /\ Throw(r)
    BY <1>1 DEF Fail
  <2>. QED
    BY <2>1, ThrowKeeps
<1>2. ASSUME NEW r \in Requests, GiveUp(r) PROVE IInv'
  <2>1. Running(r) /\ ~Doing(r, "release") /\ Throw(r)
    BY <1>2 DEF GiveUp, GivesUp, GivesUp_NoConnectTimeout, Doing
  <2>. QED
    BY <2>1, ThrowKeeps
<1>3. ASSUME NEW r \in Requests, Advance(r) PROVE IInv'
  BY <1>2, <1>3, ConnectKeeps, BeginKeeps, LockRowKeeps, StatementKeeps, ReadKeeps,
     CommitKeeps, ReleaseKeeps DEF Advance
<1>4. CASE Next
  BY <1>1, <1>3, <1>4, ArriveKeeps, ExpireKeeps, EndIdleKeeps DEF Next
<1>5. CASE UNCHANGED vars
  <2>. USE <1>5 DEF vars
  <2>1. Types' /\ Exclusive'
    BY DEF IInv, Types, Exclusive, Steps
  <2>2. ASSUME NEW r \in Requests PROVE HoldsOK(r)' /\ WorkOK(r)'
    BY Bystander
  <2>3. \A c \in Conns : ConnOK(c)'
    BY DEF IInv, ConnOK, Clean, Free
  <2>. QED
    BY <2>1, <2>2, <2>3 DEF IInv
<1>. QED
  BY <1>4, <1>5

(* Whatever the requests and the size of the pool, every handler has an    *)
(* exact account of the connections it holds and of where its work is.     *)
THEOREM Accounted == Spec => []IInv
<1>. QED
  BY InitIInv, IInvStep, PTL DEF Spec

-----------------------------------------------------------------------------
(* The properties.                                                         *)

(* No connection is in the hands of two handlers, and no work or row lock  *)
(* is left on a connection without a transaction.                          *)
THEOREM TypeCorrect == Spec => []TypeOK
<1>1. IInv => TypeOK
  <2>. SUFFICES ASSUME IInv PROVE TypeOK
    OBVIOUS
  <2>1. pc \in [Requests -> 0..9]
    <3>1. ASSUME NEW r \in Requests PROVE pc[r] \in 0..9
      <4>1. kind[r] \in AllKinds /\ pc[r] \in Nat /\ pc[r] <= Len(Steps(r)) + 1
        BY Typed DEF IInv, Types
      <4>2. Len(Steps(r)) \in {3, 4, 5, 8}
        BY <4>1, Places DEF AllKinds
      <4>3. \A n \in {3, 4, 5, 8} : pc[r] <= n + 1 => pc[r] \in 0..9
        BY <4>1
      <4>. QED
        BY <4>1, <4>2, <4>3
    <3>. QED
      BY <3>1 DEF IInv, Types
  <2>2. \A r \in Requests : Range(held[r]) \subseteq Conns /\ Len(held[r]) <= 2
    BY Typed, Holds DEF IInv
  <2>. QED
    BY <2>1, <2>2 DEF IInv, Types, Exclusive, ConnOK, TypeOK, Works
<1>. QED
  BY <1>1, Accounted, PTL

(* Only the three early returns put a connection back with a transaction   *)
(* open.                                                                   *)
THEOREM RefusalsAlone == Spec => []OnlyRefusalsLeak
<1>1. IInv => OnlyRefusalsLeak
  BY DEF IInv, ConnOK, Clean, OnlyRefusalsLeak, Free
<1>. QED
  BY <1>1, Accounted, PTL

(* Nobody is told ok whose work is not committed, unless it was done in a  *)
(* transaction of another; nobody is told of an error whose document is.   *)
THEOREM Truthful == Spec => []AnswersAreTrue
<1>1. IInv => AnswersAreTrue
  BY DEF IInv, WorkOK, AnswersAreTrue, AcknowledgedIsDurable, RefusedLeavesNoDocument
<1>. QED
  BY <1>1, Accounted, PTL

=============================================================================
