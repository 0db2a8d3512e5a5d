----------------------------- MODULE TableLemmas -----------------------------
(***************************************************************************)
(* What the proofs of several components rest on: database tables as       *)
(* sequences of rows (what an UPDATE and an INSERT do to them), and sums   *)
(* over tables and sets of accounts.                                       *)
(***************************************************************************)
EXTENDS Integers, Sequences, FiniteSets, Functions, SequenceTheorems, FiniteSetTheorems,
        FunctionTheorems, WellFoundedInduction, TLAPS

(* UPDATE of one row leaves the others.                                   *)
LEMMA UpdateRow ==
    ASSUME NEW S, NEW tab \in Seq(S), NEW i \in DOMAIN tab, NEW row \in S
    PROVE  /\ [tab EXCEPT ![i] = row] \in Seq(S)
           /\ DOMAIN [tab EXCEPT ![i] = row] = DOMAIN tab
           /\ Len([tab EXCEPT ![i] = row]) = Len(tab)
           /\ [tab EXCEPT ![i] = row][i] = row
           /\ \A j \in DOMAIN tab \ {i} : [tab EXCEPT ![i] = row][j] = tab[j]
  BY ExceptSeq

(* INSERT of several rows: they follow the rows there are.                 *)
LEMMA InsertRows ==
    ASSUME NEW S, NEW tab \in Seq(S), NEW more \in Seq(S)
    PROVE  /\ tab \o more \in Seq(S)
           /\ Len(tab \o more) = Len(tab) + Len(more)
           /\ DOMAIN tab \subseteq DOMAIN (tab \o more)
           /\ \A j \in DOMAIN tab : (tab \o more)[j] = tab[j]
           /\ \A j \in DOMAIN (tab \o more) \ DOMAIN tab :
                 j - Len(tab) \in DOMAIN more /\ (tab \o more)[j] = more[j - Len(tab)]
  OBVIOUS

(* INSERT of one row.                                                      *)
LEMMA AppendRow ==
    ASSUME NEW S, NEW tab \in Seq(S), NEW row \in S
    PROVE  /\ Append(tab, row) \in Seq(S)
           /\ Len(Append(tab, row)) = Len(tab) + 1
           /\ DOMAIN Append(tab, row) = DOMAIN tab \cup {Len(tab) + 1}
           /\ Append(tab, row)[Len(tab) + 1] = row
           /\ \A j \in DOMAIN tab : Append(tab, row)[j] = tab[j]
  OBVIOUS

(* INSERT of two rows: one after the other.                                *)
LEMMA InsertTwo ==
    ASSUME NEW S, NEW tab \in Seq(S), NEW more \in Seq(S), Len(more) = 2
    PROVE  /\ more[1] \in S /\ more[2] \in S
           /\ tab \o more = Append(Append(tab, more[1]), more[2])
<1>1. more[1] \in S /\ more[2] \in S
  OBVIOUS
<1>. DEFINE X == tab \o more
            M == Append(tab, more[1])
            Y == Append(M, more[2])
            n == Len(tab)
<1>2. n \in Nat
  OBVIOUS
<1>3. /\ X \in Seq(S) /\ Len(X) = n + 2
      /\ \A j \in 1..n+2 : X[j] = IF j <= n THEN tab[j] ELSE more[j - n]
  <2>1. /\ X \in Seq(S) /\ Len(X) = Len(tab) + Len(more)
        /\ \A j \in 1..Len(tab) + Len(more) : X[j] = IF j <= Len(tab) THEN tab[j] ELSE more[j - Len(tab)]
    BY ConcatProperties, Zenon
  <2>2. Len(tab) + Len(more) = n + 2
    OBVIOUS
  <2>. HIDE DEF X
  <2>. QED
    BY <2>1, <2>2, Zenon
<1>4. /\ M \in Seq(S) /\ Len(M) = n + 1
      /\ \A j \in 1..n+1 : M[j] = IF j <= n THEN tab[j] ELSE more[1]
  BY <1>1
<1>. HIDE DEF X, M, n
<1>5. /\ Y \in Seq(S) /\ Len(Y) = n + 2
      /\ \A j \in 1..n+2 : Y[j] = IF j <= n + 1 THEN M[j] ELSE more[2]
  BY <1>1, <1>2, <1>4
<1>. HIDE DEF Y
<1>6. ASSUME NEW j \in 1..n+2
      PROVE  X[j] = Y[j]
  <2>1. CASE j <= n
    <3>1. j \in 1..n+1
      BY <1>2, <2>1
    <3>2. X[j] = tab[j] /\ M[j] = tab[j]
      BY <1>3, <1>4, <2>1, <3>1
    <3>3. Y[j] = M[j]
      BY <1>2, <1>5, <2>1
    <3>. QED
      BY <3>2, <3>3
  <2>2. CASE j = n + 1
    <3>1. X[j] = more[j - n] /\ j - n = 1 /\ Y[j] = M[j] /\ M[j] = more[1]
      BY <1>2, <1>3, <1>4, <1>5, <2>2
    <3>. QED
      BY <3>1
  <2>3. CASE j = n + 2
    <3>1. X[j] = more[j - n] /\ j - n = 2 /\ Y[j] = more[2]
      BY <1>2, <1>3, <1>4, <1>5, <2>3
    <3>. QED
      BY <3>1
  <2>. QED
    BY <1>2, <2>1, <2>2, <2>3
<1>7. X = Y
  BY <1>2, <1>3, <1>5, <1>6, SeqEqual
<1>. QED
  BY <1>1, <1>7 DEF X, Y, M

(* A table with every row rewritten has the same length.                   *)
LEMMA RewriteRows ==
    ASSUME NEW S, NEW n \in Nat, NEW F, F \in [1..n -> S]
    PROVE  F \in Seq(S) /\ Len(F) = n /\ DOMAIN F = 1..n
  OBVIOUS

(* INSERT of several rows after every row was rewritten.                   *)
LEMMA RowsInserted ==
    ASSUME NEW n \in Nat, NEW S, NEW src, src \in [1..n -> S], NEW ch, NEW tab,
           Len(ch) \in Nat, DOMAIN ch = 1..Len(ch), tab = src \o ch
    PROVE  /\ \A l \in 1..n : l \in DOMAIN tab /\ tab[l] = src[l]
           /\ \A k \in DOMAIN ch : n + k \in DOMAIN tab \ (1..n) /\ tab[n + k] = ch[k]
           /\ \A l \in DOMAIN tab \ (1..n) : l - n \in DOMAIN ch /\ tab[l] = ch[l - n]
<1>1. Len(src) = n /\ DOMAIN src = 1..n
  BY RewriteRows
<1>2. DOMAIN tab = 1..(n + Len(ch))
  BY <1>1
<1>3. \A l \in 1..(n + Len(ch)) : tab[l] = IF l <= n THEN src[l] ELSE ch[l - n]
  <2>1. \A l \in 1..(Len(src) + Len(ch)) :
            (src \o ch)[l] = IF l <= Len(src) THEN src[l] ELSE ch[l - Len(src)]
    OBVIOUS
  <2>. QED
    BY <1>1, <2>1
<1>4. \A l \in 1..n : l \in DOMAIN tab /\ tab[l] = src[l]
  BY <1>2, <1>3
<1>5. ASSUME NEW k \in DOMAIN ch
      PROVE  n + k \in DOMAIN tab \ (1..n) /\ tab[n + k] = ch[k]
  <2>1. n + k \in 1..(n + Len(ch)) /\ n + k \notin 1..n /\ ~(n + k <= n) /\ (n + k) - n = k
    OBVIOUS
  <2>. QED
    BY <1>2, <1>3, <2>1
<1>6. ASSUME NEW l \in DOMAIN tab \ (1..n)
      PROVE  l - n \in DOMAIN ch /\ tab[l] = ch[l - n]
  <2>1. l \in 1..(n + Len(ch)) /\ ~(l <= n) /\ l - n \in 1..Len(ch)
    BY <1>2
  <2>. QED
    BY <1>3, <2>1
<1>. QED
  BY <1>4, <1>5, <1>6

(* Two sequences, one after the other.                                     *)
LEMMA TwoParts ==
    ASSUME NEW a, NEW b, Len(a) \in Nat, DOMAIN a = 1..Len(a), Len(b) \in Nat, DOMAIN b = 1..Len(b)
    PROVE  /\ Len(a \o b) = Len(a) + Len(b) /\ DOMAIN (a \o b) = 1..Len(a) + Len(b)
           /\ \A n \in DOMAIN a : n \in DOMAIN (a \o b) /\ (a \o b)[n] = a[n]
           /\ \A n \in DOMAIN (a \o b) : n \in DOMAIN a \/ (n - Len(a) \in DOMAIN b /\ (a \o b)[n] = b[n - Len(a)])
<1>1. Len(a \o b) = Len(a) + Len(b) /\ DOMAIN (a \o b) = 1..(Len(a) + Len(b))
  OBVIOUS
<1>2. \A n \in 1..(Len(a) + Len(b)) : (a \o b)[n] = IF n <= Len(a) THEN a[n] ELSE b[n - Len(a)]
  OBVIOUS
<1>. QED
  BY <1>1, <1>2

-----------------------------------------------------------------------------
(* Numbers: of any, one is the least.                                      *)

Less == {pair \in Nat \X Nat : pair[1] < pair[2]}

LEMMA LessWellFounded == IsWellFoundedOn(Less, Nat)
<1>1. Less = OpToRel(<, Nat)
  BY Zenon DEF OpToRel, Less
<1>. QED
  BY <1>1, NatLessThanWellFounded, Zenon

LEMMA LeastNumber ==
    ASSUME NEW T, T \subseteq Nat, T # {}
    PROVE  \E m \in T : \A x \in T : m <= x
<1>1. PICK m \in T : \A x \in T : <<x, m>> \notin Less
  BY LessWellFounded, WFMin
<1>2. \A x \in T : ~(x < m)
  BY <1>1 DEF Less
<1>. QED
  BY <1>2

-----------------------------------------------------------------------------
(* Sums.  A sum is defined by recursion over a finite set; its laws follow *)
(* from the smallest set for which they would fail.                        *)

(* The element that the sum takes out of a set first.                     *)
SomeOf(s) == CHOOSE x \in s : TRUE

(* g[s] is the sum of f over s, for every subset s of S.                  *)
AddsUp(g, f, S) == g = [s \in SUBSET S |-> IF s = {} THEN 0 ELSE f[SomeOf(s)] + g[s \ {SomeOf(s)}]]

(* SumFunctionOnSet is the function that adds up.                         *)
LEMMA SumIs == \A f, S : SumFunctionOnSet(f, S) = (CHOOSE g : AddsUp(g, f, S))[S]
  BY DEF SumFunctionOnSet, FoldFunctionOnSet, MapThenFoldSet, AddsUp, SomeOf

(* It is an element of the set.                                           *)
LEMMA PickIn == \A s : s # {} => SomeOf(s) \in s
  BY DEF SomeOf

(* Induction on finite sets, told by its least counterexample: of any     *)
(* sets of subsets of a finite set, one holds no other of them.           *)
LEMMA LeastSet ==
    ASSUME NEW S, IsFiniteSet(S), NEW B, B \subseteq SUBSET S, B # {}
    PROVE  \E s \in B : \A t \in B : t \subseteq s => t = s
<1>1. B \subseteq FiniteSubsetsOf(S)
  BY FS_Subset DEF FiniteSubsetsOf
<1>2. PICK s \in B : \A t \in B : <<t, s>> \notin StrictSubsetOrdering(S)
  BY <1>1, WFMin, FS_StrictSubsetOrderingWellFounded
<1> QED
  BY <1>1, <1>2 DEF StrictSubsetOrdering, FiniteSubsetsOf

(* How such a function is unfolded at one set.                            *)
LEMMA AddsAt ==
    ASSUME NEW f, NEW S, NEW g, AddsUp(g, f, S), NEW s \in SUBSET S
    PROVE  /\ s = {} => g[s] = 0
           /\ s # {} => g[s] = f[SomeOf(s)] + g[s \ {SomeOf(s)}]
  BY DEF AddsUp

(* It is 0 at the empty set.                                              *)
LEMMA AddsNothing == \A f, S, g : AddsUp(g, f, S) => g[{}] = 0
  BY DEF AddsUp

(* There is at most one such function.                                    *)
LEMMA AddsOnce ==
    ASSUME NEW f, NEW S, IsFiniteSet(S), NEW g, NEW h, AddsUp(g, f, S), AddsUp(h, f, S)
    PROVE  g = h
<1> DEFINE B == {s \in SUBSET S : g[s] # h[s]}
<1>1. SUFFICES B = {}
  <2>1. DOMAIN g = SUBSET S /\ DOMAIN h = SUBSET S
    BY DEF AddsUp
  <2>2. g = [s \in SUBSET S |-> g[s]] /\ h = [s \in SUBSET S |-> h[s]]
    BY DEF AddsUp
  <2> QED
    BY <2>1, <2>2
<1>2. SUFFICES ASSUME B # {} PROVE FALSE
  OBVIOUS
<1>a. B \subseteq SUBSET S
  OBVIOUS
<1>3. PICK s \in B : \A t \in B : t \subseteq s => t = s
  <2> HIDE DEF B
  <2> QED BY <1>2, <1>a, LeastSet
<1>4. s # {}
  <2>1. s \in SUBSET S /\ g[s] # h[s]
    OBVIOUS
  <2>2. s = {} => g[s] = 0 /\ h[s] = 0
    BY <2>1, AddsAt
  <2> QED BY <2>1, <2>2
<1>5. s \ {SomeOf(s)} \in SUBSET S /\ s \ {SomeOf(s)} \notin B
  BY <1>3, <1>4, PickIn
<1> QED
  BY <1>4, <1>5, AddsAt

(* What adds up over a set adds up over its subsets.                      *)
LEMMA AddsPart ==
    ASSUME NEW f, NEW S, NEW g, AddsUp(g, f, S), NEW T \in SUBSET S
    PROVE  AddsUp([s \in SUBSET T |-> g[s]], f, T)
<1> DEFINE h == [s \in SUBSET T |-> g[s]]
<1>1. ASSUME NEW s \in SUBSET T
      PROVE h[s] = IF s = {} THEN 0 ELSE f[SomeOf(s)] + h[s \ {SomeOf(s)}]
  <2>1. s \in SUBSET S
    OBVIOUS
  <2>2. s \ {SomeOf(s)} \in SUBSET T
    OBVIOUS
  <2>3. h[s] = g[s] /\ h[s \ {SomeOf(s)}] = g[s \ {SomeOf(s)}]
    BY <2>2
  <2>4. (s = {} => g[s] = 0) /\ (s # {} => g[s] = f[SomeOf(s)] + g[s \ {SomeOf(s)}])
    BY <2>1, AddsAt
  <2>. HIDE DEF h
  <2>. QED
    BY <2>3, <2>4
<1> QED
  BY <1>1 DEF AddsUp

(* Functions that add up over a set and over a part of it agree.          *)
LEMMA AddsSame ==
    \A f, S, g, T, h : IsFiniteSet(S) /\ AddsUp(g, f, S) /\ T \subseteq S /\ AddsUp(h, f, T) => h[T] = g[T]
<1> SUFFICES ASSUME NEW f, NEW S, IsFiniteSet(S), NEW g, AddsUp(g, f, S),
                    NEW T, T \in SUBSET S, NEW h, AddsUp(h, f, T)
             PROVE  h[T] = g[T]
  OBVIOUS
<1>1. AddsUp([s \in SUBSET T |-> g[s]], f, T)
  BY AddsPart
<1>2. [s \in SUBSET T |-> g[s]] = h
  BY <1>1, AddsOnce, FS_Subset
<1> QED
  BY <1>2

(* There is such a function, with integer values.                         *)
LEMMA AddsExists ==
    ASSUME NEW f, NEW S, IsFiniteSet(S), \A x \in S : f[x] \in Int
    PROVE  \E g \in [SUBSET S -> Int] : AddsUp(g, f, S)
<1> DEFINE Has(T) == \E g \in [SUBSET T -> Int] : AddsUp(g, f, T)
           B == {T \in SUBSET S : ~Has(T)}
<1>1. SUFFICES ASSUME B # {} PROVE FALSE
  OBVIOUS
<1>a. B \subseteq SUBSET S
  OBVIOUS
<1>2. PICK T \in B : \A U \in B : U \subseteq T => U = T
  <2> HIDE DEF B
  <2> QED BY <1>1, <1>a, LeastSet
<1> DEFINE G(U) == CHOOSE g \in [SUBSET U -> Int] : AddsUp(g, f, U)
<1>3. ASSUME NEW U \in SUBSET T, U # T
      PROVE G(U) \in [SUBSET U -> Int] /\ AddsUp(G(U), f, U)
  BY <1>2, <1>3
<1> HIDE DEF G
<1> DEFINE h == [s \in SUBSET T |->
                   IF s = {} THEN 0
                   ELSE IF s = T THEN f[SomeOf(T)] + G(T \ {SomeOf(T)})[T \ {SomeOf(T)}]
                   ELSE G(s)[s]]
<1>4. T # {} => T \ {SomeOf(T)} # T /\ T \ {SomeOf(T)} \in SUBSET T /\ SomeOf(T) \in S
  BY PickIn
<1>5. h \in [SUBSET T -> Int]
  <2>1. ASSUME NEW s \in SUBSET T PROVE h[s] \in Int
    <3>1. CASE s = {} BY <3>1
    <3>2. CASE s # {} /\ s = T
      <4>1. G(T \ {SomeOf(T)})[T \ {SomeOf(T)}] \in Int
        <5> DEFINE u == T \ {SomeOf(T)}
        <5>1. u \in SUBSET T /\ u # T
          BY <3>2, <1>4
        <5>2. G(u) \in [SUBSET u -> Int]
          BY <5>1, <1>3
        <5> QED BY <5>2
      <4>2. f[SomeOf(T)] \in Int
        BY <3>2, <1>4
      <4> QED BY <4>1, <4>2, <3>2
    <3>3. CASE s # {} /\ s # T
      BY <3>3, <1>3
    <3> QED BY <3>1, <3>2, <3>3
  <2> QED BY <2>1
<1>6. ASSUME NEW s \in SUBSET T
      PROVE h[s] = IF s = {} THEN 0 ELSE f[SomeOf(s)] + h[s \ {SomeOf(s)}]
  <2>1. CASE s = {} BY <2>1
  <2> DEFINE u == s \ {SomeOf(s)}
  <2>2. CASE s # {}
    <3>1. u \in SUBSET s /\ u # s /\ u \in SUBSET T /\ u # T
      BY <2>2, PickIn
    <3>2. h[u] = G(u)[u]
      <4>1. CASE u = {}
        <5>1. G(u)[u] = 0
          <6>1. AddsUp(G(u), f, u)
            BY <3>1, <1>3
          <6>2. G(u)[{}] = 0
            BY <6>1, AddsNothing
          <6> QED BY <6>2, <4>1
        <5> QED BY <5>1, <4>1
      <4>2. CASE u # {} BY <4>2, <3>1
      <4> QED BY <4>1, <4>2
    <3>3. CASE s = T
      BY <3>2, <3>3, <2>2
    <3>4. CASE s # T
      <4>1. h[s] = G(s)[s]
        BY <3>4, <2>2
      <4>2. AddsUp(G(s), f, s) /\ AddsUp(G(u), f, u)
        BY <3>4, <3>1, <1>3
      <4>3. G(s)[s] = f[SomeOf(s)] + G(s)[u]
        BY <4>2, <2>2, AddsAt
      <4>4. IsFiniteSet(s)
        BY FS_Subset
      <4>6. G(s)[u] = G(u)[u]
        BY <4>2, <4>4, <3>1, AddsSame
      <4> QED BY <4>1, <4>3, <4>6, <3>2, <2>2
    <3> QED BY <3>3, <3>4
  <2> QED BY <2>1, <2>2
<1>7. AddsUp(h, f, T)
  BY <1>6 DEF AddsUp
<1> QED
  BY <1>5, <1>7, <1>2

(* The sum unfolds at the element that is taken first.                    *)
LEMMA SumDef ==
    ASSUME NEW f, NEW S, IsFiniteSet(S), \A x \in S : f[x] \in Int
    PROVE  /\ SumFunctionOnSet(f, S) \in Int
           /\ S = {} => SumFunctionOnSet(f, S) = 0
           /\ S # {} => SumFunctionOnSet(f, S) = f[SomeOf(S)] + SumFunctionOnSet(f, S \ {SomeOf(S)})
<1> DEFINE G(U) == CHOOSE g : AddsUp(g, f, U)
<1>1. ASSUME NEW U \in SUBSET S
      PROVE G(U) \in [SUBSET U -> Int] /\ AddsUp(G(U), f, U)
  <2>1. PICK g \in [SUBSET U -> Int] : AddsUp(g, f, U)
    BY AddsExists, FS_Subset
  <2>2. AddsUp(G(U), f, U)
    BY <2>1
  <2>3. IsFiniteSet(U)
    BY FS_Subset
  <2>4. G(U) = g
    BY <2>1, <2>2, <2>3, AddsOnce
  <2> QED BY <2>1, <2>2, <2>4
<1>2. \A U : SumFunctionOnSet(f, U) = G(U)[U]
  BY SumIs
<1> HIDE DEF G
<1>3. SumFunctionOnSet(f, S) \in Int
  <2>1. G(S) \in [SUBSET S -> Int]
    BY <1>1
  <2>2. G(S)[S] \in Int
    BY <2>1
  <2> QED BY <1>2, <2>2
<1>b. AddsUp(G(S), f, S) /\ S \in SUBSET S
  BY <1>1
<1>4. S = {} => SumFunctionOnSet(f, S) = 0
  BY <1>2, <1>b, AddsNothing
<1>5. ASSUME S # {}
      PROVE SumFunctionOnSet(f, S) = f[SomeOf(S)] + SumFunctionOnSet(f, S \ {SomeOf(S)})
  <2> DEFINE u == S \ {SomeOf(S)}
  <2>1. u \in SUBSET S /\ IsFiniteSet(u)
    BY FS_Subset
  <2>3. G(S)[S] = f[SomeOf(S)] + G(S)[u]
    BY <1>b, <1>5, AddsAt
  <2>4. G(S)[u] = G(u)[u]
    <3>1. AddsUp(G(u), f, u) /\ u \subseteq S
      BY <2>1, <1>1
    <3> HIDE DEF u
    <3> QED BY <3>1, <1>b, AddsSame
  <2> QED BY <2>3, <2>4, <1>2
<1> QED BY <1>3, <1>4, <1>5

(* A sum over nothing is 0.                                               *)
LEMMA SumEmpty == \A f : SumFunctionOnSet(f, {}) = 0
<1> TAKE f
<1>1. IsFiniteSet({}) /\ \A x \in {} : f[x] \in Int
  BY FS_EmptySet
<1> QED BY <1>1, SumDef

(* A sum of integers is one.                                              *)
LEMMA SumInt ==
    ASSUME NEW f, NEW S, IsFiniteSet(S), \A x \in S : f[x] \in Int
    PROVE  SumFunctionOnSet(f, S) \in Int
  BY SumDef

(* Two terms may be taken out in either order.                            *)
LEMMA Regroup ==
    \A a, b, s, sa, sb, t : /\ a \in Int /\ b \in Int /\ s \in Int
                            /\ t = a + sa /\ sa = b + s /\ sb = a + s
                            => t = b + sb
  OBVIOUS

(* Any element may be taken out of a sum.                                 *)
LEMMA SumRemove ==
    ASSUME NEW f, NEW S, IsFiniteSet(S), \A x \in S : f[x] \in Int, NEW x \in S
    PROVE  SumFunctionOnSet(f, S) = f[x] + SumFunctionOnSet(f, S \ {x})
<1> DEFINE Good(T) == \A y \in T : SumFunctionOnSet(f, T) = f[y] + SumFunctionOnSet(f, T \ {y})
           B == {T \in SUBSET S : ~Good(T)}
<1>1. SUFFICES ASSUME B # {} PROVE FALSE
  OBVIOUS
<1>2. B \subseteq SUBSET S
  OBVIOUS
<1>3. PICK T \in B : \A U \in B : U \subseteq T => U = T
  <2> HIDE DEF B
  <2> QED BY <1>1, <1>2, LeastSet
<1>4. PICK y \in T : SumFunctionOnSet(f, T) # f[y] + SumFunctionOnSet(f, T \ {y})
  OBVIOUS
<1>5. \A U \in SUBSET T : U # T => Good(U)
  BY <1>3
<1> HIDE DEF B
<1>6. T \in SUBSET S
  BY <1>2
<1>7. \A U \in SUBSET T : IsFiniteSet(U) /\ \A z \in U : f[z] \in Int
  BY <1>6, FS_Subset
<1>8. \A U \in SUBSET T : SumFunctionOnSet(f, U) \in Int
  BY <1>7, SumInt
<1> DEFINE p == SomeOf(T)
<1>9. p \in T
  BY PickIn
<1>10. SumFunctionOnSet(f, T) = f[p] + SumFunctionOnSet(f, T \ {p})
  BY <1>7, SumDef
<1>11. p # y
  BY <1>10, <1>4
<1> HIDE DEF p
<1>12. SumFunctionOnSet(f, T \ {p}) = f[y] + SumFunctionOnSet(f, (T \ {p}) \ {y})
  <2>1. T \ {p} \in SUBSET T /\ T \ {p} # T /\ y \in T \ {p}
    BY <1>9, <1>11
  <2> QED BY <2>1, <1>5
<1>13. SumFunctionOnSet(f, T \ {y}) = f[p] + SumFunctionOnSet(f, (T \ {y}) \ {p})
  <2>1. T \ {y} \in SUBSET T /\ T \ {y} # T /\ p \in T \ {y}
    BY <1>9, <1>11
  <2> QED BY <2>1, <1>5
<1>14. (T \ {y}) \ {p} = (T \ {p}) \ {y}
  OBVIOUS
<1>16. SumFunctionOnSet(f, (T \ {y}) \ {p}) = SumFunctionOnSet(f, (T \ {p}) \ {y})
  BY <1>14, Zenon
<1>15. f[p] \in Int /\ f[y] \in Int /\ SumFunctionOnSet(f, (T \ {p}) \ {y}) \in Int
  BY <1>7, <1>8, <1>9
<1> HIDE DEF Good
<1> QED
  BY <1>4, <1>10, <1>12, <1>13, <1>16, <1>15, Regroup

(* One element more.                                                      *)
LEMMA SumAdd ==
    ASSUME NEW f, NEW S, IsFiniteSet(S), \A x \in S : f[x] \in Int,
           NEW x, x \notin S, f[x] \in Int
    PROVE  SumFunctionOnSet(f, S \cup {x}) = SumFunctionOnSet(f, S) + f[x]
<1> DEFINE U == S \cup {x}
<1>1. IsFiniteSet(U) /\ x \in U /\ (\A y \in U : f[y] \in Int) /\ U \ {x} = S
  BY FS_AddElement
<1>2. SumFunctionOnSet(f, U) = f[x] + SumFunctionOnSet(f, U \ {x})
  <2> HIDE DEF U
  <2> QED BY <1>1, SumRemove
<1>3. SumFunctionOnSet(f, S) \in Int
  BY SumInt
<1>4. SumFunctionOnSet(f, U) = f[x] + SumFunctionOnSet(f, S)
  BY <1>1, <1>2, Zenon
<1> QED BY <1>3, <1>4

(* A sum of one term is that term.                                        *)
LEMMA SumOne ==
    ASSUME NEW f, NEW x, f[x] \in Int
    PROVE  SumFunctionOnSet(f, {x}) = f[x]
  <1>1. IsFiniteSet({}) /\ \A y \in {} : f[y] \in Int
    BY FS_EmptySet
  <1>2. SumFunctionOnSet(f, {} \cup {x}) = SumFunctionOnSet(f, {}) + f[x]
    BY <1>1, SumAdd
  <1>3. SumFunctionOnSet(f, {}) = 0
    BY SumEmpty
  <1>4. {} \cup {x} = {x}
    OBVIOUS
  <1> QED BY <1>2, <1>3, <1>4

(* Equal terms have equal sums.                                           *)
LEMMA SumSame ==
    ASSUME NEW f, NEW g, NEW S, IsFiniteSet(S), \A x \in S : f[x] \in Int /\ f[x] = g[x]
    PROVE  SumFunctionOnSet(f, S) = SumFunctionOnSet(g, S)
<1> DEFINE B == {T \in SUBSET S : SumFunctionOnSet(f, T) # SumFunctionOnSet(g, T)}
<1>1. SUFFICES ASSUME B # {} PROVE FALSE
  OBVIOUS
<1>2. B \subseteq SUBSET S
  OBVIOUS
<1>3. PICK T \in B : \A U \in B : U \subseteq T => U = T
  <2> HIDE DEF B
  <2> QED BY <1>1, <1>2, LeastSet
<1>4. T \in SUBSET S /\ SumFunctionOnSet(f, T) # SumFunctionOnSet(g, T)
  OBVIOUS
<1>5. T # {}
  BY <1>4, SumEmpty
<1> DEFINE p == SomeOf(T)
           U == T \ {p}
<1>6. p \in T /\ U \in SUBSET S /\ U # T /\ U \subseteq T
  BY <1>4, <1>5, PickIn
<1>7. SumFunctionOnSet(f, U) = SumFunctionOnSet(g, U)
  BY <1>3, <1>6
<1>8. IsFiniteSet(T) /\ \A x \in T : f[x] \in Int /\ g[x] \in Int /\ f[x] = g[x]
  BY <1>4, FS_Subset
<1> QED
  BY <1>4, <1>6, <1>7, <1>8, SumRemove

(* The sum of two functions added point by point.                         *)
LEMMA SumPlus ==
    ASSUME NEW f, NEW g, NEW h, NEW S, IsFiniteSet(S),
           \A x \in S : f[x] \in Int /\ g[x] \in Int /\ h[x] = f[x] + g[x]
    PROVE  SumFunctionOnSet(h, S) = SumFunctionOnSet(f, S) + SumFunctionOnSet(g, S)
<1> DEFINE Sums(T) == SumFunctionOnSet(f, T) + SumFunctionOnSet(g, T)
           B == {T \in SUBSET S : SumFunctionOnSet(h, T) # Sums(T)}
<1>1. SUFFICES ASSUME B # {} PROVE FALSE
  OBVIOUS
<1>2. B \subseteq SUBSET S
  OBVIOUS
<1>3. PICK T \in B : \A U \in B : U \subseteq T => U = T
  <2> HIDE DEF B
  <2> QED BY <1>1, <1>2, LeastSet
<1>4. T \in SUBSET S /\ SumFunctionOnSet(h, T) # Sums(T)
  OBVIOUS
<1>5. T # {}
  BY <1>4, SumEmpty
<1> DEFINE p == SomeOf(T)
           U == T \ {p}
<1>6. p \in T /\ U \in SUBSET S /\ U # T /\ U \subseteq T
  BY <1>4, <1>5, PickIn
<1>7. SumFunctionOnSet(h, U) = Sums(U)
  BY <1>3, <1>6
<1>8. IsFiniteSet(T) /\ IsFiniteSet(U)
  BY <1>4, <1>6, FS_Subset
<1>9. \A x \in S : f[x] \in Int /\ g[x] \in Int /\ h[x] \in Int /\ h[x] = f[x] + g[x]
  OBVIOUS
<1>10. SumFunctionOnSet(f, U) \in Int /\ SumFunctionOnSet(g, U) \in Int
  BY <1>6, <1>8, <1>9, SumInt
<1>11. /\ SumFunctionOnSet(f, T) = f[p] + SumFunctionOnSet(f, U)
       /\ SumFunctionOnSet(g, T) = g[p] + SumFunctionOnSet(g, U)
       /\ SumFunctionOnSet(h, T) = h[p] + SumFunctionOnSet(h, U)
  BY <1>4, <1>6, <1>8, <1>9, SumRemove
<1>12. f[p] \in Int /\ g[p] \in Int /\ h[p] = f[p] + g[p]
  BY <1>4, <1>6, <1>9
<1> HIDE DEF p, U, B
<1> QED
  BY <1>4, <1>7, <1>10, <1>11, <1>12

(* Smaller terms have a smaller sum.                                      *)
LEMMA SumLeq ==
    ASSUME NEW f, NEW g, NEW S, IsFiniteSet(S),
           \A x \in S : f[x] \in Int /\ g[x] \in Int /\ f[x] <= g[x]
    PROVE  SumFunctionOnSet(f, S) <= SumFunctionOnSet(g, S)
<1> DEFINE B == {T \in SUBSET S : ~(SumFunctionOnSet(f, T) <= SumFunctionOnSet(g, T))}
<1>1. SUFFICES ASSUME B # {} PROVE FALSE
  OBVIOUS
<1>2. B \subseteq SUBSET S
  OBVIOUS
<1>3. PICK T \in B : \A U \in B : U \subseteq T => U = T
  <2> HIDE DEF B
  <2> QED BY <1>1, <1>2, LeastSet
<1>4. T \in SUBSET S /\ ~(SumFunctionOnSet(f, T) <= SumFunctionOnSet(g, T))
  OBVIOUS
<1>5. T # {}
  BY <1>4, SumEmpty
<1> DEFINE p == SomeOf(T)
           U == T \ {p}
<1>6. p \in T /\ U \in SUBSET S /\ U # T /\ U \subseteq T
  BY <1>4, <1>5, PickIn
<1>7. SumFunctionOnSet(f, U) <= SumFunctionOnSet(g, U)
  BY <1>3, <1>6
<1>8. IsFiniteSet(T) /\ IsFiniteSet(U)
  BY <1>4, <1>6, FS_Subset
<1>9. SumFunctionOnSet(f, U) \in Int /\ SumFunctionOnSet(g, U) \in Int
  BY <1>6, <1>8, SumInt
<1>10. /\ SumFunctionOnSet(f, T) = f[p] + SumFunctionOnSet(f, U)
       /\ SumFunctionOnSet(g, T) = g[p] + SumFunctionOnSet(g, U)
  BY <1>4, <1>6, <1>8, SumRemove
<1>11. f[p] \in Int /\ g[p] \in Int /\ f[p] <= g[p]
  BY <1>4, <1>6
<1> HIDE DEF p, U, B
<1> QED
  BY <1>4, <1>7, <1>9, <1>10, <1>11

(* The only number that is its own double.                                *)
LEMMA Double == \A s \in Int : s = s + s => s = 0
  OBVIOUS

(* The number that is its own opposite.                                   *)
LEMMA MinusZero == \A z \in Int : z = 0 => -z = z
  <1>1. \A z \in Int : -z = 0 - z
    OBVIOUS
  <1>2. \A z \in Int : z = 0 => 0 - z = z
    OBVIOUS
  <1> QED BY <1>1, <1>2, Zenon

(* A sum of zeros is 0.                                                   *)
LEMMA SumZero ==
    ASSUME NEW f, NEW S, IsFiniteSet(S), \A x \in S : f[x] = 0
    PROVE  SumFunctionOnSet(f, S) = 0
<1>1. \A x \in S : f[x] \in Int /\ f[x] = f[x] + f[x]
  OBVIOUS
<1>2. SumFunctionOnSet(f, S) = SumFunctionOnSet(f, S) + SumFunctionOnSet(f, S)
  BY <1>1, SumPlus
<1>3. SumFunctionOnSet(f, S) \in Int
  BY <1>1, SumInt
<1> QED BY <1>2, <1>3, Double, Zenon

(* A sum of natural numbers is one.                                       *)
LEMMA SumNat ==
    ASSUME NEW f, NEW S, IsFiniteSet(S), \A x \in S : f[x] \in Nat
    PROVE  SumFunctionOnSet(f, S) \in Nat
<1> DEFINE z == [x \in S |-> 0]
<1>1. SumFunctionOnSet(z, S) <= SumFunctionOnSet(f, S)
  <2>1. \A x \in S : z[x] \in Int /\ f[x] \in Int /\ z[x] <= f[x]
    OBVIOUS
  <2> HIDE DEF z
  <2> QED BY <2>1, SumLeq
<1>2. SumFunctionOnSet(z, S) = 0
  BY SumZero
<1>3. SumFunctionOnSet(f, S) \in Int
  BY SumInt
<1> HIDE DEF z
<1> QED BY <1>1, <1>2, <1>3

(* No term of a sum of natural numbers is more than the sum.               *)
LEMMA SumTerm ==
    ASSUME NEW f, NEW S, IsFiniteSet(S), \A x \in S : f[x] \in Nat, NEW y \in S
    PROVE  f[y] <= SumFunctionOnSet(f, S)
<1> DEFINE U == S \ {y}
<1>1. IsFiniteSet(U)
  BY FS_Subset
<1>2. SumFunctionOnSet(f, U) \in Nat
  BY <1>1, SumNat
<1>3. \A x \in S : f[x] \in Int
  OBVIOUS
<1>4. SumFunctionOnSet(f, S) = f[y] + SumFunctionOnSet(f, U)
  BY <1>3, SumRemove
<1> QED BY <1>2, <1>4

(* Changing one term.                                                     *)
LEMMA SumChange ==
    ASSUME NEW f, NEW g, NEW S, IsFiniteSet(S), NEW y \in S,
           \A x \in S : f[x] \in Int /\ g[x] \in Int,
           \A x \in S : x # y => g[x] = f[x]
    PROVE  SumFunctionOnSet(g, S) = SumFunctionOnSet(f, S) + g[y] - f[y]
<1> DEFINE U == S \ {y}
<1>1. IsFiniteSet(U) /\ \A x \in U : f[x] \in Int /\ f[x] = g[x]
  BY FS_Subset
<1>2. SumFunctionOnSet(f, U) = SumFunctionOnSet(g, U) /\ SumFunctionOnSet(f, U) \in Int
  <2> HIDE DEF U
  <2> QED BY <1>1, SumSame, SumInt
<1>3. /\ SumFunctionOnSet(f, S) = f[y] + SumFunctionOnSet(f, U)
      /\ SumFunctionOnSet(g, S) = g[y] + SumFunctionOnSet(g, U)
  BY SumRemove
<1> HIDE DEF U
<1> QED BY <1>2, <1>3
(* Changing the sign of every term.                                       *)
LEMMA SumMinus ==
    ASSUME NEW f, NEW g, NEW S, IsFiniteSet(S), \A x \in S : f[x] \in Int /\ g[x] = -f[x]
    PROVE  SumFunctionOnSet(g, S) = 0 - SumFunctionOnSet(f, S)
<1> DEFINE z == [x \in S |-> 0]
<1>1. \A x \in S : f[x] \in Int /\ g[x] \in Int /\ z[x] = f[x] + g[x]
  OBVIOUS
<1>2. SumFunctionOnSet(z, S) = SumFunctionOnSet(f, S) + SumFunctionOnSet(g, S)
  <2> HIDE DEF z
  <2> QED BY <1>1, SumPlus
<1>3. SumFunctionOnSet(z, S) = 0
  BY SumZero
<1>4. SumFunctionOnSet(f, S) \in Int /\ SumFunctionOnSet(g, S) \in Int
  BY <1>1, SumInt
<1> HIDE DEF z
<1> QED BY <1>2, <1>3, <1>4

(* A set and the rest of it.                                              *)
LEMMA SumSplit ==
    ASSUME NEW f, NEW S, IsFiniteSet(S), \A x \in S : f[x] \in Int, NEW D, D \in SUBSET S
    PROVE  SumFunctionOnSet(f, S) = SumFunctionOnSet(f, D) + SumFunctionOnSet(f, S \ D)
<1> DEFINE Both(T) == SumFunctionOnSet(f, T) + SumFunctionOnSet(f, S \ T)
           B == {T \in SUBSET S : SumFunctionOnSet(f, S) # Both(T)}
<1>1. SUFFICES ASSUME B # {} PROVE FALSE
  OBVIOUS
<1>2. B \subseteq SUBSET S
  OBVIOUS
<1>3. PICK T \in B : \A U \in B : U \subseteq T => U = T
  <2> HIDE DEF B
  <2> QED BY <1>1, <1>2, LeastSet
<1>4. T \in SUBSET S /\ SumFunctionOnSet(f, S) # Both(T)
  OBVIOUS
<1>5. SumFunctionOnSet(f, S) \in Int
  BY SumInt
<1>6. ASSUME T = {} PROVE FALSE
  <2>4. SumFunctionOnSet(f, S) # Both({})
    BY <1>4, <1>6, Zenon
  <2>1. S \ {} = S
    OBVIOUS
  <2>2. SumFunctionOnSet(f, S \ {}) = SumFunctionOnSet(f, S)
    BY <2>1, Zenon
  <2>3. SumFunctionOnSet(f, {}) = 0
    BY SumEmpty
  <2> QED BY <2>4, <1>5, <2>2, <2>3
<1> DEFINE p == SomeOf(T)
           U == T \ {p}
           V == S \ T
<1>7. p \in T /\ p \notin V /\ U \in SUBSET S /\ U # T /\ U \subseteq T
  BY <1>4, <1>6, PickIn
<1>8. SumFunctionOnSet(f, S) = SumFunctionOnSet(f, U) + SumFunctionOnSet(f, S \ U)
  BY <1>3, <1>7
<1>9. S \ U = V \cup {p}
  BY <1>4, <1>7
<1>10. SumFunctionOnSet(f, S \ U) = SumFunctionOnSet(f, V \cup {p})
  BY <1>9, Zenon
<1>11. IsFiniteSet(T) /\ IsFiniteSet(U) /\ IsFiniteSet(V)
  BY <1>4, <1>7, FS_Subset
<1>12. /\ \A x \in T : f[x] \in Int
       /\ \A x \in U : f[x] \in Int
       /\ \A x \in V : f[x] \in Int
       /\ f[p] \in Int
  BY <1>4, <1>7
<1> HIDE DEF p, V, B
<1>13. SumFunctionOnSet(f, T) = f[p] + SumFunctionOnSet(f, U)
  BY <1>7, <1>11, <1>12, SumRemove
<1> HIDE DEF U
<1>14. SumFunctionOnSet(f, V \cup {p}) = SumFunctionOnSet(f, V) + f[p]
  BY <1>7, <1>11, <1>12, SumAdd
<1>15. SumFunctionOnSet(f, U) \in Int /\ SumFunctionOnSet(f, V) \in Int
  BY <1>11, <1>12, SumInt
<1> QED BY <1>4, <1>8, <1>10, <1>12, <1>13, <1>14, <1>15 DEF V

(* The sum over the rows of a table, with one row more.                   *)
LEMMA SumNext ==
    ASSUME NEW n \in Nat, NEW f, NEW g, \A i \in 1..n+1 : g[i] \in Int,
           \A i \in 1..n : g[i] = f[i]
    PROVE  SumFunctionOnSet(g, 1..n+1) = SumFunctionOnSet(f, 1..n) + g[n+1]
<1>1. IsFiniteSet(1..n) /\ n + 1 \notin 1..n /\ 1..n+1 = (1..n) \cup {n+1}
  BY FS_Interval
<1>2. SumFunctionOnSet(g, (1..n) \cup {n+1}) = SumFunctionOnSet(g, 1..n) + g[n+1]
  <2>1. (\A i \in 1..n : g[i] \in Int) /\ g[n+1] \in Int
    OBVIOUS
  <2> DEFINE R == 1..n
  <2>2. IsFiniteSet(R) /\ n + 1 \notin R /\ \A i \in R : g[i] \in Int
    BY <1>1, <2>1
  <2>3. SumFunctionOnSet(g, R \cup {n+1}) = SumFunctionOnSet(g, R) + g[n+1]
    <3> HIDE DEF R
    <3> QED BY <2>1, <2>2, SumAdd
  <2> QED BY <2>3
<1>3. SumFunctionOnSet(f, 1..n) = SumFunctionOnSet(g, 1..n)
  BY <1>1, SumSame
<1> QED BY <1>1, <1>2, <1>3, Zenon

(* Naming the terms of a sum differently.                                 *)
LEMMA SumBijection ==
    ASSUME NEW S, IsFiniteSet(S), NEW T, NEW b \in Bijection(S, T), NEW f, NEW g,
           \A x \in S : f[x] \in Int /\ g[b[x]] = f[x]
    PROVE  SumFunctionOnSet(g, T) = SumFunctionOnSet(f, S)
<1> DEFINE Image(U) == {b[x] : x \in U}
           B == {U \in SUBSET S : SumFunctionOnSet(g, Image(U)) # SumFunctionOnSet(f, U)}
<1>1. /\ b \in [S -> T] /\ \A x, y \in S : b[x] = b[y] => x = y
      /\ \A t \in T : \E x \in S : b[x] = t
  BY Fun_BijectionProperties
<1>2. Image(S) = T
  BY <1>1
<1>3. IsFiniteSet(T)
  BY FS_Bijection DEF ExistsBijection
<1>4. SUFFICES ASSUME B # {} PROVE FALSE
  BY <1>2
<1>5. B \subseteq SUBSET S
  OBVIOUS
<1>6. PICK U \in B : \A W \in B : W \subseteq U => W = U
  <2> HIDE DEF B
  <2> QED BY <1>4, <1>5, LeastSet
<1>7. U \in SUBSET S /\ SumFunctionOnSet(g, Image(U)) # SumFunctionOnSet(f, U)
  OBVIOUS
<1>8. U # {}
  <2> SUFFICES ASSUME U = {} PROVE FALSE
    OBVIOUS
  <2>1. Image(U) = {}
    OBVIOUS
  <2> QED BY <1>7, <2>1, SumEmpty
<1> DEFINE p == SomeOf(U)
           W == U \ {p}
<1>9. p \in U /\ W \in SUBSET S /\ W # U /\ W \subseteq U
  BY <1>7, <1>8, PickIn
<1>10. SumFunctionOnSet(g, Image(W)) = SumFunctionOnSet(f, W)
  BY <1>6, <1>9
<1>11. Image(U) = Image(W) \cup {b[p]} /\ b[p] \notin Image(W)
  BY <1>1, <1>7, <1>9
<1>12. IsFiniteSet(U) /\ IsFiniteSet(Image(W))
  <2>1. Image(W) \in SUBSET T
    BY <1>1, <1>9
  <2> HIDE DEF Image, W
  <2> QED BY <1>3, <1>7, <2>1, FS_Subset
<1>13. /\ \A y \in Image(W) : g[y] \in Int
       /\ g[b[p]] = f[p] /\ f[p] \in Int /\ \A x \in U : f[x] \in Int
  BY <1>7, <1>9
<1> DEFINE V == Image(W)
           q == b[p]
<1>14. V = Image(W) /\ q = b[p]
  OBVIOUS
<1> HIDE DEF V, q, p, Image, B
<1>15. SumFunctionOnSet(g, V \cup {q}) = SumFunctionOnSet(g, V) + g[q]
  <2>1. IsFiniteSet(V) /\ (\A y \in V : g[y] \in Int) /\ q \notin V /\ g[q] \in Int
    BY <1>11, <1>12, <1>13, <1>14
  <2> QED BY ONLY <2>1, SumAdd
<1>16. SumFunctionOnSet(f, U) = f[p] + SumFunctionOnSet(f, W)
  BY <1>9, <1>12, <1>13, SumRemove
<1>17. SumFunctionOnSet(f, W) \in Int
  BY <1>9, <1>12, <1>13, FS_Subset, SumInt
<1>18. SumFunctionOnSet(g, Image(U)) = SumFunctionOnSet(g, V \cup {q})
  BY <1>11, <1>14, Zenon
<1> QED BY <1>7, <1>10, <1>13, <1>14, <1>15, <1>16, <1>17, <1>18

(* The sum over the rows of a table that has grown at its end.            *)
LEMMA SumGrow ==
    ASSUME NEW n \in Nat, NEW m \in Nat, NEW f, NEW b, NEW g,
           \A l \in 1..n : f[l] \in Int /\ g[l] = f[l],
           \A k \in 1..m : b[k] \in Int /\ g[n+k] = b[k]
    PROVE  SumFunctionOnSet(g, 1..n+m)
             = SumFunctionOnSet(f, 1..n) + SumFunctionOnSet(b, 1..m)
<1> DEFINE Old == 1..n
           New == n+1..n+m
           Rank == 1..m
           All == 1..n+m
           h == [k \in Rank |-> n + k]
<1>1. /\ IsFiniteSet(Old) /\ IsFiniteSet(Rank) /\ IsFiniteSet(All)
  BY FS_Interval
<1>2. Old \in SUBSET All /\ All \ Old = New /\ \A k \in New : k - n \in Rank /\ k = n + (k - n)
  OBVIOUS
<1>3. h \in Bijection(Rank, New)
  <2>1. h \in [Rank -> New] /\ \A x, y \in Rank : h[x] = h[y] => x = y
    OBVIOUS
  <2>2. \A k \in New : h[k - n] = k
    BY <1>2
  <2> HIDE DEF h, Rank, New
  <2> QED BY <1>2, <2>1, <2>2 DEF Bijection, Injection, Surjection, IsInjective
<1>4. \A l \in All : g[l] \in Int
  <2>1. \A l \in All : l \in Old \/ (l - n \in 1..m /\ l = n + (l - n))
    OBVIOUS
  <2> QED BY <2>1
<1>5. \A k \in Rank : b[k] \in Int /\ g[h[k]] = b[k]
  OBVIOUS
<1>6. \A l \in Old : g[l] \in Int /\ g[l] = f[l]
  OBVIOUS
<1>7. (1..n) = Old /\ (1..m) = Rank /\ (1..n+m) = All
  OBVIOUS
<1> HIDE DEF Old, New, Rank, All, h
<1>8. SumFunctionOnSet(g, New) = SumFunctionOnSet(b, Rank)
  BY <1>1, <1>3, <1>5, SumBijection
<1>9. SumFunctionOnSet(g, All) = SumFunctionOnSet(g, Old) + SumFunctionOnSet(g, All \ Old)
  BY <1>1, <1>2, <1>4, SumSplit
<1>10. SumFunctionOnSet(g, Old) = SumFunctionOnSet(f, Old)
  BY <1>1, <1>6, SumSame
<1>11. SumFunctionOnSet(g, All \ Old) = SumFunctionOnSet(g, New)
  BY <1>2, Zenon
<1> QED BY <1>7, <1>8, <1>9, <1>10, <1>11

(* The same, when the terms there were have changed.                      *)
LEMMA SumGrowBy ==
    ASSUME NEW n \in Nat, NEW m \in Nat, NEW f, NEW d, NEW q, NEW g,
           \A l \in 1..n : f[l] \in Int /\ d[l] \in Int /\ g[l] = f[l] + d[l],
           \A k \in 1..m : q[k] \in Int /\ g[n+k] = q[k]
    PROVE  SumFunctionOnSet(g, 1..n+m) = SumFunctionOnSet(f, 1..n) + SumFunctionOnSet(d, 1..n)
                                         + SumFunctionOnSet(q, 1..m)
  <1>1. SumFunctionOnSet(g, 1..n) = SumFunctionOnSet(f, 1..n) + SumFunctionOnSet(d, 1..n)
    <2> DEFINE R == 1..n
    <2>1. IsFiniteSet(R) /\ \A l \in R : f[l] \in Int /\ d[l] \in Int /\ g[l] = f[l] + d[l]
      BY FS_Interval
    <2> HIDE DEF R
    <2>2. SumFunctionOnSet(g, R) = SumFunctionOnSet(f, R) + SumFunctionOnSet(d, R)
      BY <2>1, SumPlus
    <2> QED BY <2>2 DEF R
  <1>2. \A l \in 1..n : g[l] \in Int /\ g[l] = g[l]
    OBVIOUS
  <1>3. SumFunctionOnSet(g, 1..n+m) = SumFunctionOnSet(g, 1..n) + SumFunctionOnSet(q, 1..m)
    BY <1>2, SumGrow
  <1> QED BY <1>1, <1>3

(* The sum over some of the rows, as a sum over all of them.              *)
LEMMA SumSome ==
    ASSUME NEW S, IsFiniteSet(S), NEW D, D \in SUBSET S, NEW f, NEW g,
           \A x \in S : g[x] \in Int,
           \A x \in D : f[x] = g[x],
           \A x \in S \ D : g[x] = 0
    PROVE  SumFunctionOnSet(f, D) = SumFunctionOnSet(g, S)
<1>1. IsFiniteSet(D) /\ IsFiniteSet(S \ D)
  BY FS_Subset
<1>2. SumFunctionOnSet(g, S) = SumFunctionOnSet(g, D) + SumFunctionOnSet(g, S \ D)
  BY SumSplit
<1>3. SumFunctionOnSet(g, S \ D) = 0
  BY <1>1, SumZero
<1>4. \A x \in D : g[x] \in Int /\ g[x] = f[x]
  OBVIOUS
<1>5. SumFunctionOnSet(g, D) = SumFunctionOnSet(f, D) /\ SumFunctionOnSet(g, D) \in Int
  BY <1>1, <1>4, SumSame, SumInt
<1> QED BY <1>2, <1>3, <1>5

(* A sum of which only one term counts.                                   *)
LEMMA SumOnly ==
    ASSUME NEW S, IsFiniteSet(S), NEW f, NEW y \in S, f[y] \in Int, \A x \in S \ {y} : f[x] = 0
    PROVE  SumFunctionOnSet(f, S) = f[y]
  <1> DEFINE D == {y}
  <1>1. /\ D \in SUBSET S
        /\ \A x \in S : f[x] \in Int
        /\ \A x \in D : f[x] = f[x]
        /\ \A x \in S \ D : f[x] = 0
    OBVIOUS
  <1> HIDE DEF D
  <1>2. SumFunctionOnSet(f, D) = SumFunctionOnSet(f, S)
    BY <1>1, SumSome
  <1>3. SumFunctionOnSet(f, {y}) = f[y]
    BY SumOne
  <1> QED BY <1>2, <1>3 DEF D

(* The sum of the terms of a sequence of one or two.                      *)
LEMMA SumShort ==
    ASSUME NEW s
    PROVE  /\ DOMAIN s = 1..1 /\ s[1] \in Int => SumFunctionOnSet(s, 1..1) = s[1]
           /\ DOMAIN s = 1..2 /\ s[1] \in Int /\ s[2] \in Int
                 => SumFunctionOnSet(s, 1..2) = s[1] + s[2]
  <1>1. s[1] \in Int => SumFunctionOnSet(s, {1}) = s[1]
    BY SumOne
  <1>2. ASSUME s[1] \in Int, s[2] \in Int
        PROVE  SumFunctionOnSet(s, {1} \cup {2}) = s[1] + s[2]
    <2>1. IsFiniteSet({1})
      BY FS_Singleton
    <2>2. (\A x \in {1} : s[x] \in Int) /\ 2 \notin {1}
      BY <1>2
    <2>3. SumFunctionOnSet(s, {1} \cup {2}) = SumFunctionOnSet(s, {1}) + s[2]
      BY <1>2, <2>1, <2>2, SumAdd
    <2> QED BY <1>1, <1>2, <2>3
  <1>3. 1..1 = {1} /\ 1..2 = {1} \cup {2}
    OBVIOUS
  <1> QED BY <1>1, <1>2, <1>3

(* Of any numbers below a bound, one is the largest.                      *)
LEMMA LargestNumber ==
    ASSUME NEW T, T \subseteq Nat, T # {}, NEW b \in Nat, \A x \in T : x <= b
    PROVE  \E m \in T : \A x \in T : x <= m
  <1> DEFINE U == {b - x : x \in T}
  <1>1. U \subseteq Nat /\ U # {}
    <2>1. \A x \in T : b - x \in Nat
      OBVIOUS
    <2>2. PICK x \in T : TRUE
      OBVIOUS
    <2>3. b - x \in U
      BY <2>2
    <2> QED BY <2>1, <2>3
  <1>2. PICK u \in U : \A y \in U : u <= y
    BY <1>1, LeastNumber
  <1>3. PICK m \in T : u = b - m
    OBVIOUS
  <1>4. ASSUME NEW x \in T
        PROVE  x <= m
    <2>1. u <= b - x
      BY <1>2
    <2>2. x \in Nat /\ m \in Nat
      OBVIOUS
    <2> QED BY ONLY <1>3, <2>1, <2>2, b \in Nat
  <1> QED BY <1>4

(* A sum over all rows of a table.                                         *)
LEMMA NatSum ==
    ASSUME NEW n \in Nat, NEW f, DOMAIN f = 1..n, \A k \in 1..n : f[k] \in Nat
    PROVE  SumFunction(f) = SumFunctionOnSet(f, 1..n) /\ SumFunction(f) \in Nat
<1>. DEFINE S == 1..n
<1>1. IsFiniteSet(S) /\ \A k \in S : f[k] \in Nat
  BY FS_Interval
<1>2. SumFunction(f) = SumFunctionOnSet(f, S)
  BY DEF SumFunction
<1>. HIDE DEF S
<1>3. SumFunctionOnSet(f, S) \in Nat
  BY <1>1, SumNat
<1>. QED
  BY <1>2, <1>3 DEF S

(* Changing two terms.                                                     *)
LEMMA SumChangeTwo ==
    ASSUME NEW f, NEW g, NEW S, IsFiniteSet(S), NEW y \in S, NEW z \in S, y # z,
           \A x \in S : f[x] \in Int /\ g[x] \in Int,
           \A x \in S : x # y /\ x # z => g[x] = f[x]
    PROVE  SumFunctionOnSet(g, S) = SumFunctionOnSet(f, S) + (g[y] - f[y]) + (g[z] - f[z])
<1>. DEFINE mid == [x \in S |-> IF x = y THEN g[y] ELSE f[x]]
<1>1. /\ \A x \in S : mid[x] \in Int
      /\ \A x \in S : x # y => mid[x] = f[x]
      /\ \A x \in S : x # z => g[x] = mid[x]
      /\ mid[y] = g[y] /\ mid[z] = f[z]
  OBVIOUS
<1>. HIDE DEF mid
<1>2. SumFunctionOnSet(mid, S) = SumFunctionOnSet(f, S) + mid[y] - f[y]
  BY <1>1, SumChange
<1>3. SumFunctionOnSet(g, S) = SumFunctionOnSet(mid, S) + g[z] - mid[z]
  BY <1>1, SumChange
<1>4. SumFunctionOnSet(f, S) \in Int
  BY SumInt
<1>. QED
  BY <1>1, <1>2, <1>3, <1>4

(* The sum over the rows of a table that has grown by rows that count for  *)
(* nothing.                                                                *)
LEMMA SumPadded ==
    ASSUME NEW n \in Nat, NEW m \in Nat, NEW g,
           \A l \in 1..n : g[l] \in Int, \A l \in (1..n + m) \ (1..n) : g[l] = 0
    PROVE  SumFunctionOnSet(g, 1..n + m) = SumFunctionOnSet(g, 1..n)
<1>. DEFINE All == 1..n + m
            Old == 1..n
<1>1. /\ IsFiniteSet(All) /\ Old \in SUBSET All
      /\ \A x \in All : g[x] \in Int
      /\ \A x \in Old : g[x] = g[x]
      /\ \A x \in All \ Old : g[x] = 0
  BY FS_Interval
<1>. HIDE DEF All, Old
<1>2. SumFunctionOnSet(g, Old) = SumFunctionOnSet(g, All)
  BY <1>1, SumSome
<1>. QED
  BY <1>2 DEF All, Old

(* One or two entries, each with a row of its own, take from the row they  *)
(* name.                                                                   *)
Takes(n, f, g, at, b, c) ==
    /\ c \in {1, 2}
    /\ \A l \in 1..n : f[l] \in Int /\ g[l] \in Int
    /\ \A k \in 1..c : at[k] \in 1..n /\ b[k] \in Int /\ g[at[k]] = f[at[k]] - b[k]
    /\ \A j, k \in 1..c : at[j] = at[k] => j = k
    /\ \A l \in 1..n : (\A k \in 1..c : at[k] # l) => g[l] = f[l]

LEMMA SumTaken ==
    ASSUME NEW n \in Nat, NEW f, NEW g, NEW at, NEW b, NEW c, Takes(n, f, g, at, b, c),
           NEW all, all = b[1] + (IF c = 2 THEN b[2] ELSE 0)
    PROVE  SumFunctionOnSet(g, 1..n) = SumFunctionOnSet(f, 1..n) - all
<1>. DEFINE S == 1..n
<1>0. /\ c \in {1, 2}
      /\ \A l \in 1..n : f[l] \in Int /\ g[l] \in Int
      /\ \A k \in 1..c : at[k] \in 1..n /\ b[k] \in Int /\ g[at[k]] = f[at[k]] - b[k]
      /\ \A j, k \in 1..c : at[j] = at[k] => j = k
      /\ \A l \in 1..n : (\A k \in 1..c : at[k] # l) => g[l] = f[l]
  BY DEF Takes
<1>1. IsFiniteSet(S) /\ \A l \in S : f[l] \in Int /\ g[l] \in Int
  BY <1>0, FS_Interval
<1>2. PICK y : y = at[1]
  OBVIOUS
<1>3. y \in S /\ b[1] \in Int /\ g[y] = f[y] - b[1]
  BY <1>0, <1>2
<1>4. CASE c = 1
  <2>1. \A l \in S : l # y => g[l] = f[l]
    BY <1>0, <1>2, <1>4
  <2>. HIDE DEF S
  <2>2. SumFunctionOnSet(g, S) = SumFunctionOnSet(f, S) + g[y] - f[y]
    BY <1>1, <1>3, <2>1, SumChange
  <2>3. SumFunctionOnSet(f, S) \in Int /\ f[y] \in Int
    BY <1>1, <1>3, SumInt
  <2>4. SumFunctionOnSet(g, S) = SumFunctionOnSet(f, S) - all
    BY <1>3, <1>4, <2>2, <2>3
  <2>. QED
    BY <2>4 DEF S
<1>5. CASE c = 2
  <2>1. PICK z : z = at[2]
    OBVIOUS
  <2>2. z \in S /\ b[2] \in Int /\ g[z] = f[z] - b[2] /\ y # z
    BY <1>0, <1>2, <1>5, <2>1
  <2>3. \A l \in S : l # y /\ l # z => g[l] = f[l]
    <3>1. \A k \in 1..c : k = 1 \/ k = 2
      BY <1>5
    <3>. QED
      BY <1>0, <1>2, <2>1, <3>1
  <2>. HIDE DEF S
  <2>4. SumFunctionOnSet(g, S) = SumFunctionOnSet(f, S) + (g[y] - f[y]) + (g[z] - f[z])
    BY ONLY <1>1, <1>3, <2>2, <2>3, SumChangeTwo
  <2>5. SumFunctionOnSet(f, S) \in Int /\ f[y] \in Int /\ f[z] \in Int
    BY <1>1, <1>3, <2>2, SumInt
  <2>6. SumFunctionOnSet(g, S) = SumFunctionOnSet(f, S) - all
    BY <1>3, <1>5, <2>2, <2>4, <2>5
  <2>. QED
    BY <2>6 DEF S
<1>. QED
  BY <1>0, <1>4, <1>5

(* The sum of a table of equal rows.                                       *)
LEMMA SumEqual ==
    ASSUME NEW n \in Nat, NEW c \in Nat, NEW f, \A k \in 1..n : f[k] = c
    PROVE  SumFunctionOnSet(f, 1..n) = n * c
<1>. DEFINE T == {m \in Nat : m <= n /\ SumFunctionOnSet(f, 1..m) # m * c}
<1>1. SUFFICES ASSUME T # {} PROVE FALSE
  OBVIOUS
<1>2. PICK m \in T : \A x \in T : m <= x
  <2>1. T \subseteq Nat
    OBVIOUS
  <2>. HIDE DEF T
  <2>. QED
    BY <1>1, <2>1, LeastNumber
<1>3. m \in Nat /\ m <= n /\ SumFunctionOnSet(f, 1..m) # m * c
  OBVIOUS
<1>4. CASE m = 0
  <2>1. 1..m = {}
    BY <1>4
  <2>2. SumFunctionOnSet(f, {}) = 0
    BY SumEmpty
  <2>. QED
    BY <1>3, <1>4, <2>1, <2>2
<1>5. CASE m # 0
  <2>1. PICK q \in Nat : m = q + 1
    <3>1. m - 1 \in Nat /\ m = (m - 1) + 1
      BY <1>3, <1>5
    <3>. QED
      BY <3>1
  <2>2. q \notin T
    BY <1>2, <1>3, <2>1
  <2>3. SumFunctionOnSet(f, 1..q) = q * c
    BY <1>3, <2>1, <2>2
  <2>4. (\A k \in 1..q + 1 : f[k] \in Int) /\ (\A k \in 1..q : f[k] = f[k]) /\ f[q + 1] = c
    BY <1>3, <2>1
  <2>5. SumFunctionOnSet(f, 1..q + 1) = SumFunctionOnSet(f, 1..q) + f[q + 1]
    BY <2>4, SumNext
  <2>6. (q + 1) * c = q * c + c
    BY <2>1
  <2>. QED
    BY <1>3, <2>1, <2>3, <2>4, <2>5, <2>6
<1>. QED
  BY <1>4, <1>5

=============================================================================
