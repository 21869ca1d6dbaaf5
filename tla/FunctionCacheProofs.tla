------------------------- MODULE FunctionCacheProofs -------------------------
(***************************************************************************)
(* FunctionCache, for any functions and any size of the cache: what the    *)
(* loop of findLRU returns, whatever the order of the iteration, and that  *)
(* the operations keep a cache a cache.                                    *)
(*                                                                         *)
(* findLRU is a fold over a sequence, so what it returns needs induction.  *)
(* The induction theorems of the library are about predicates, which the   *)
(* provers cannot instantiate; those below are about sets, which they can. *)
(***************************************************************************)
EXTENDS FunctionCache, FiniteSetTheorems, WellFoundedInduction, TLAPS

-----------------------------------------------------------------------------
(* Induction and folds.                                                    *)

(* A set of naturals has a least element.                                  *)
LEMMA Least ==
    ASSUME NEW T \in SUBSET Nat, T # {}
    PROVE  \E n \in T : \A m \in T : ~(m < n)
  <1> DEFINE R == OpToRel(<, Nat)
  <1>1. IsWellFoundedOn(R, Nat)
    BY NatLessThanWellFounded, Zenon
  <1> HIDE DEF R
  <1>2. PICK n \in T : \A m \in T : ~(<<m, n>> \in R)
    BY <1>1, WFMin
  <1>3. ASSUME NEW m \in T, m < n PROVE <<m, n>> \in R
    BY <1>3 DEF R, OpToRel
  <1> QED
    BY <1>2, <1>3

(* Induction, about a set rather than a predicate.                         *)
LEMMA SetInduction ==
    ASSUME NEW S \in SUBSET Nat, 0 \in S, \A n \in S : n + 1 \in S
    PROVE  S = Nat
  <1> SUFFICES ASSUME Nat \ S # {} PROVE FALSE
    OBVIOUS
  <1>1. PICK n \in Nat \ S : \A m \in Nat \ S : ~(m < n)
    BY Least
  <1>2. n # 0 /\ n - 1 \in S
    BY <1>1
  <1> QED
    BY <1>2

LEMMA MaxIs ==
    ASSUME NEW s \in SUBSET Int, NEW x \in s, \A y \in s : x >= y
    PROVE  Max(s) = x
  <1>1. Max(s) \in s /\ \A y \in s : Max(s) >= y
    BY DEF Max
  <1>2. PICK z \in s : z = Max(s) /\ \A y \in s : z >= y
    BY <1>1
  <1>3. z \in Int /\ x \in Int /\ z >= x /\ x >= z
    BY <1>2
  <1>4. z = x
    BY <1>3
  <1> QED
    BY <1>2, <1>4

LEMMA MaxOfIndices ==
    ASSUME NEW n \in Nat, NEW s \in SUBSET (1 .. n), s # {}
    PROVE  Max(s) \in s
  <1> DEFINE U == {m \in 0 .. n : \A x \in s : x <= m}
  <1>1. n \in U /\ U \in SUBSET Nat /\ U # {}
    OBVIOUS
  <1> HIDE DEF U
  <1>2. PICK m \in U : \A k \in U : ~(k < m)
    BY <1>1, Least
  <1> USE DEF U
  <1>3. m \in s
    <2>1. CASE m \notin s
      <3>1. PICK x \in s : x \in 1 .. n /\ x <= m
        OBVIOUS
      <3>2. m - 1 \in 0 .. n
        BY <3>1
      <3>3. ASSUME NEW y \in s PROVE y <= m - 1
        <4>1. y \in 1 .. n /\ y <= m /\ y # m
          BY <2>1
        <4> QED
          BY <4>1
      <3> QED
        BY <1>2, <3>2, <3>3
    <2> QED
      BY <2>1
  <1> QED
    BY <1>2, <1>3, MaxIs

(* g is defined as a fold over the indices 1 .. n, when F gives for each   *)
(* index what a step does.                                                 *)
IsFold(g, base, F, n) ==
    \A s \in SUBSET (1 .. n) :
       g[s] = IF s = {} THEN base ELSE F[Max(s)][g[s \ {Max(s)}]]

(* Such a function exists.                                                 *)
LEMMA FoldExists ==
    ASSUME NEW T, NEW base \in T, NEW F \in [Nat -> [T -> T]], NEW n \in Nat
    PROVE  \E g \in [SUBSET (1 .. n) -> T] : IsFold(g, base, F, n)
  <1> DEFINE Good == {m \in Nat : \E g \in [SUBSET (1 .. m) -> T] :
                                    IsFold(g, base, F, m)}
  <1>1. 0 \in Good
    <2>1. 1 .. 0 = {}
      OBVIOUS
    <2> DEFINE g == [s \in SUBSET (1 .. 0) |-> base]
    <2>2. g \in [SUBSET (1 .. 0) -> T] /\ IsFold(g, base, F, 0)
      BY <2>1 DEF IsFold
    <2> QED
      BY <2>2
  <1>2. ASSUME NEW m \in Good PROVE m + 1 \in Good
    <2>0. m \in Nat
      OBVIOUS
    <2>1. PICK g \in [SUBSET (1 .. m) -> T] : IsFold(g, base, F, m)
      BY <1>2
    <2> DEFINE h == [s \in SUBSET (1 .. m + 1) |->
                       IF m + 1 \in s THEN F[m + 1][g[s \ {m + 1}]] ELSE g[s]]
    <2>2. ASSUME NEW s \in SUBSET (1 .. m + 1), m + 1 \notin s
          PROVE  s \in SUBSET (1 .. m)
      <3> SUFFICES ASSUME NEW x \in s PROVE x \in 1 .. m
        OBVIOUS
      <3>1. x \in 1 .. m + 1 /\ x # m + 1
        BY <2>2
      <3> QED
        BY <2>0, <3>1
    <2>3. ASSUME NEW s \in SUBSET (1 .. m + 1)
          PROVE  s \ {m + 1} \in SUBSET (1 .. m)
      BY <2>0
    <2>4. h \in [SUBSET (1 .. m + 1) -> T]
      BY <2>2, <2>3
    <2>5. ASSUME NEW s \in SUBSET (1 .. m + 1)
          PROVE  h[s] = IF s = {} THEN base ELSE F[Max(s)][h[s \ {Max(s)}]]
      <3>1. CASE m + 1 \in s
        <4>1. Max(s) = m + 1
          BY <2>0, <3>1, MaxIs
        <4>2. h[s] = F[m + 1][g[s \ {m + 1}]]
          BY <3>1
        <4>3. h[s \ {m + 1}] = g[s \ {m + 1}]
          BY <2>3
        <4> QED
          BY <3>1, <4>1, <4>2, <4>3
      <3>2. CASE m + 1 \notin s
        <4>1. s \in SUBSET (1 .. m) /\ h[s] = g[s]
          BY <2>2, <3>2
        <4>2. CASE s # {}
          <5>1. s \ {Max(s)} \in SUBSET (1 .. m) /\ m + 1 \notin s \ {Max(s)}
            BY <4>1, <3>2
          <5> HIDE DEF h
          <5>2. h[s \ {Max(s)}] = g[s \ {Max(s)}]
            BY <5>1 DEF h
          <5> QED
            BY <2>1, <4>1, <4>2, <5>2 DEF IsFold
        <4> QED
          BY <2>1, <4>1, <4>2 DEF IsFold
      <3> QED
        BY <3>1, <3>2
    <2>6. IsFold(h, base, F, m + 1)
      BY <2>5 DEF IsFold
    <2> HIDE DEF h
    <2> QED
      BY <2>0, <2>4, <2>6
  <1> HIDE DEF Good
  <1>3. Good = Nat
    <2>1. Good \in SUBSET Nat
      BY DEF Good
    <2> QED
      BY <1>1, <1>2, <2>1, SetInduction
  <1> QED
    BY <1>3 DEF Good
-----------------------------------------------------------------------------
(* The loop of findLRU.                                                    *)

(* The candidates of the loop, before it and after each iteration.         *)
AreCandidates(r, c, n, order) ==
    /\ r[0] = NoKey
    /\ \A i \in 1 .. n : r[i] = Better(c, r[i - 1], order[i])

(* The last of them is its result.                                         *)
LEMMA Candidates ==
    ASSUME NEW c, NEW n \in Nat, NEW order \in [1 .. n -> Keys]
    PROVE  \E r \in [0 .. n -> Keys \cup {NoKey}] :
              AreCandidates(r, c, n, order) /\ findLRU(c, order) = r[n]
  <1> DEFINE T == Keys \cup {NoKey}
             D == 1 .. n
             F == [i \in Nat |-> [b \in T |->
                     IF i \in D THEN Better(c, b, order[i]) ELSE b]]
             Is(g) == g = [s \in SUBSET D |->
                IF s = {} THEN NoKey
                ELSE Better(c, g[s \ {Max(s)}], order[Max(s)])]
             it == CHOOSE g : Is(g)
  <1>1. findLRU(c, order) = it[D]
    <2>1. DOMAIN order = D
      OBVIOUS
    <2>2. findLRU(c, order) = (CHOOSE g : g = [s \in SUBSET DOMAIN order |->
                IF s = {} THEN NoKey
                ELSE Better(c, g[s \ {Max(s)}], order[Max(s)])])[DOMAIN order]
      BY DEF findLRU, FoldLeft, MapThenFoldSet
    <2> QED
      BY <2>1, <2>2
  <1>2. F \in [Nat -> [T -> T]]
    BY DEF Better
  <1>3. \A s \in SUBSET D : s # {} => Max(s) \in s
    BY MaxOfIndices
  <1>4. PICK g \in [SUBSET D -> T] : \A s \in SUBSET D :
           g[s] = IF s = {} THEN NoKey ELSE F[Max(s)][g[s \ {Max(s)}]]
    <2>1. NoKey \in T
      OBVIOUS
    <2> HIDE DEF F, T, it, Is
    <2>2. \E g \in [SUBSET (1 .. n) -> T] : IsFold(g, NoKey, F, n)
      BY <1>2, <2>1, FoldExists
    <2> QED
      BY <2>2 DEF IsFold
  <1>5. Is(g)
    <2>1. ASSUME NEW s \in SUBSET D, s # {}
          PROVE  F[Max(s)][g[s \ {Max(s)}]]
                    = Better(c, g[s \ {Max(s)}], order[Max(s)])
      <3> DEFINE m == Max(s)
      <3>1. m \in s
        BY <1>3, <2>1
      <3> HIDE DEF m, F
      <3>2. m \in D /\ m \in Nat /\ g[s \ {m}] \in T
        BY <3>1
      <3>3. F[m][g[s \ {m}]] = Better(c, g[s \ {m}], order[m])
        BY <3>2 DEF F
      <3> QED
        BY <3>3 DEF m
    <2>2. \A s \in SUBSET D : g[s] =
                IF s = {} THEN NoKey
                ELSE Better(c, g[s \ {Max(s)}], order[Max(s)])
      BY <1>4, <2>1
    <2> QED
      BY <1>4, <2>2
  <1>6. Is(it)
    BY <1>5
  <1>7. \A s \in SUBSET D : it[s] =
           IF s = {} THEN NoKey ELSE Better(c, it[s \ {Max(s)}], order[Max(s)])
    BY <1>6
  <1> HIDE DEF it, Is, F
  <1>8. \A i \in 1 .. n : it[1 .. i] = Better(c, it[1 .. i - 1], order[i])
    <2> TAKE i \in 1 .. n
    <2>1. 1 .. i \in SUBSET D /\ 1 .. i # {} /\ (1 .. i) \ {i} = 1 .. i - 1
      OBVIOUS
    <2>2. Max(1 .. i) = i
      <3>1. 1 .. i \in SUBSET Int /\ i \in 1 .. i /\ \A y \in 1 .. i : i >= y
        OBVIOUS
      <3> QED
        BY <3>1, MaxIs
    <2> QED
      BY <1>7, <2>1, <2>2
  <1>9. it[1 .. 0] = NoKey
    <2>1. 1 .. 0 = {}
      OBVIOUS
    <2> QED
      BY <1>7, <2>1
  <1> DEFINE r == [i \in 0 .. n |-> it[1 .. i]]
  <1>10. AreCandidates(r, c, n, order) /\ r[n] = it[D]
    <2>1. \A i \in 0 .. n : r[i] = it[1 .. i]
      OBVIOUS
    <2>2. \A i \in 1 .. n : i \in 0 .. n /\ i - 1 \in 0 .. n
      OBVIOUS
    <2> HIDE DEF r
    <2> QED
      BY <1>8, <1>9, <2>1, <2>2 DEF AreCandidates
  <1>11. r \in [0 .. n -> T]
    <2> DEFINE Typed == {i \in Nat : i \in 0 .. n => r[i] \in T}
    <2> HIDE DEF r
    <2>1. 0 \in Typed
      BY <1>10 DEF AreCandidates
    <2>2. ASSUME NEW i \in Typed PROVE i + 1 \in Typed
      <3> SUFFICES ASSUME i + 1 \in 0 .. n PROVE r[i + 1] \in T
        OBVIOUS
      <3>1. i + 1 \in 1 .. n /\ (i + 1) - 1 = i /\ i \in 0 .. n /\ r[i] \in T
        OBVIOUS
      <3>2. r[i + 1] = Better(c, r[i], order[i + 1])
        BY <1>10, <3>1 DEF AreCandidates
      <3>3. order[i + 1] \in T
        BY <3>1
      <3> QED
        BY <3>1, <3>2, <3>3 DEF Better
    <2> HIDE DEF Typed
    <2>3. Typed = Nat
      <3>1. Typed \in SUBSET Nat
        BY DEF Typed
      <3> QED
        BY <2>1, <2>2, <3>1, SetInduction
    <2>4. \A i \in 0 .. n : r[i] \in T
      BY <2>3 DEF Typed
    <2> QED
      BY <2>4 DEF r
  <1> HIDE DEF r
  <1> QED
    BY <1>1, <1>10, <1>11

(* An iteration over a finite set meets each of its elements.              *)
LEMMA IterationCovers ==
    ASSUME NEW S, IsFiniteSet(S), NEW order \in SetToSeqs(S)
    PROVE  /\ Cardinality(S) \in Nat
           /\ order \in [1 .. Cardinality(S) -> S]
           /\ \A x \in S : \E i \in 1 .. Cardinality(S) : order[i] = x
  <1> DEFINE n == Cardinality(S)
  <1>1. n \in Nat
    BY FS_CardinalityType
  <1>2. /\ order \in [1 .. n -> S]
        /\ \A i, j \in 1 .. n : i # j => order[i] # order[j]
    BY DEF SetToSeqs
  <1>3. order \in Injection(1 .. n, S)
    BY <1>2 DEF Injection, IsInjective
  <1>4. Cardinality(1 .. n) = n
    BY <1>1, FS_Interval
  <1> HIDE DEF n
  <1>5. order \in Surjection(1 .. n, S)
    BY <1>3, <1>4, FS_Injection DEF n
  <1> QED
    BY <1>1, <1>2, <1>5 DEF Surjection, n

(* What findLRU returns, whatever the order of the iteration: an item that *)
(* has expired, or was used before one that has, or before all others.     *)
LEMMA VictimIsOld ==
    ASSUME NEW c, IsCache(c), Stored(c) # {}, NEW order \in SetToSeqs(Stored(c))
    PROVE  LET v == findLRU(c, order)
           IN  /\ v \in Stored(c)
               /\ \/ v \in Expired(c)
                  \/ \E e \in Expired(c) : Older(c, v, e)
                  \/ \A j \in Stored(c) \ {v} : Older(c, v, j)
  <1> DEFINE S == Stored(c)
             n == Cardinality(S)
  <1>1. S \subseteq Keys /\ NoKey \notin S /\ IsFiniteSet(S) /\ Expired(c) \subseteq S
    BY CacheAssumption, FS_Subset DEF Stored, Expired
  <1>2. /\ n \in Nat /\ order \in [1 .. n -> S]
        /\ \A x \in S : \E i \in 1 .. n : order[i] = x
    BY <1>1, IterationCovers
  <1>3. Orders(c.older, S)
    BY DEF IsCache
  <1>4. order \in [1 .. n -> Keys]
    BY <1>1, <1>2
  <1> HIDE DEF n, S
  <1>5. PICK r \in [0 .. n -> Keys \cup {NoKey}] :
           AreCandidates(r, c, n, order) /\ findLRU(c, order) = r[n]
    BY <1>2, <1>4, Candidates
  <1> DEFINE Old(v, i) ==
                /\ v \in S
                /\ \/ v \in Expired(c)
                   \/ \E e \in Expired(c) : Older(c, v, e)
                   \/ \A j \in 1 .. i : order[j] # v => Older(c, v, order[j])
             Good == {i \in Nat : i \in 1 .. n => Old(r[i], i)}
  <1>6. ASSUME NEW i \in Good PROVE i + 1 \in Good
    <2> SUFFICES ASSUME i + 1 \in 1 .. n PROVE Old(r[i + 1], i + 1)
      OBVIOUS
    <2> DEFINE k == order[i + 1]
               b == r[i]
    <2>1. k \in S /\ i \in Nat /\ \A j \in 1 .. i + 1 : j \in 1 .. i \/ order[j] = k
      BY <1>2
    <2>2. r[i + 1] = Better(c, b, k)
      <3>1. (i + 1) - 1 = i
        OBVIOUS
      <3> QED
        BY <1>5, <3>1 DEF AreCandidates
    <2> HIDE DEF k
    <2>3. CASE k \in Expired(c)
      BY <2>1, <2>2, <2>3 DEF Better
    <2>4. CASE k \notin Expired(c) /\ i = 0
      <3>1. \A j \in 1 .. i + 1 : order[j] = k
        BY <2>4 DEF k
      <3>2. r[i + 1] = k
        BY <1>5, <2>2, <2>4 DEF Better, AreCandidates
      <3> QED
        BY <2>1, <3>1, <3>2
    <2>5. CASE k \notin Expired(c) /\ i # 0
      <3>1. i \in 1 .. n
        BY <1>2, <2>1, <2>5
      <3>2. Old(b, i) /\ b # NoKey
        BY <1>1, <3>1 DEF S
      <3> HIDE DEF b
      <3>3. CASE Older(c, k, b)
        <4>1. r[i + 1] = k
          BY <2>2, <3>3 DEF Better
        <4>2. ASSUME NEW j \in S, Older(c, b, j) PROVE Older(c, k, j)
          BY <1>3, <2>1, <3>2, <3>3, <4>2 DEF Orders, Older
        <4>3. \/ \E e \in Expired(c) : Older(c, k, e)
              \/ \A j \in 1 .. i : order[j] # k => Older(c, k, order[j])
          BY <1>1, <1>2, <3>1, <3>2, <3>3, <4>2 DEF S
        <4> QED
          BY <2>1, <4>1, <4>3
      <3>4. CASE ~Older(c, k, b)
        <4>1. r[i + 1] = b
          BY <2>2, <2>5, <3>2, <3>4 DEF Better
        <4>2. k # b => Older(c, b, k)
          BY <1>3, <2>1, <3>2, <3>4 DEF Orders, Older
        <4> QED
          BY <2>1, <3>2, <4>1, <4>2
      <3> QED
        BY <3>3, <3>4
    <2> QED
      BY <2>3, <2>4, <2>5
  <1>7. Good = Nat
    <2>1. Good \in SUBSET Nat /\ 0 \in Good
      OBVIOUS
    <2> HIDE DEF Good
    <2> QED
      BY <1>6, <2>1, SetInduction
  <1>8. Old(r[n], n)
    <2>1. n # 0
      BY <1>2 DEF S
    <2> QED
      BY <1>2, <1>7, <2>1
  <1> QED
    BY <1>2, <1>5, <1>8 DEF S
-----------------------------------------------------------------------------
(* The operations keep a cache a cache.                                    *)

LEMMA LeaveKeepsOrder ==
    ASSUME NEW R, NEW S, Orders(R, S), NEW k
    PROVE  Orders(Leave(R, k), S \ {k})
  BY DEF Orders, Leave

LEMMA TouchKeepsOrder ==
    ASSUME NEW R, NEW S, Orders(R, S), NEW k
    PROVE  Orders(Touch(R, S, k), S \cup {k})
  BY DEF Orders, Leave, Touch

LEMMA NewCacheIsCache == IsCache(NewCache)
  <1>1. Stored(NewCache) = {}
    BY DEF Stored, NewCache
  <1>2. Cardinality({}) = 0
    BY FS_EmptySet
  <1> QED
    BY <1>1, <1>2, CacheAssumption DEF IsCache, NewCache, Orders

LEMMA RefreshKeepsCache ==
    ASSUME NEW c, IsCache(c), NEW k \in Keys
    PROVE  IsCache(Refresh(c, k)) /\ Refresh(c, k).items = c.items
  <1>1. CASE Get(c, k) = Nothing
    BY <1>1 DEF Refresh
  <1>2. CASE Get(c, k) # Nothing
    <2>1. k \in Stored(c) /\ Stored(c) \subseteq Keys
      BY <1>2 DEF Get, IsCache, Stored
    <2>2. Orders(Touch(c.older, Stored(c), k), Stored(c) \cup {k})
      BY TouchKeepsOrder DEF IsCache
    <2>3. Stored(c) \cup {k} = Stored(c)
      BY <2>1
    <2>4. Touch(c.older, Stored(c), k) \in SUBSET (Keys \X Keys)
      BY <2>1 DEF IsCache, Touch, Leave
    <2>5. Refresh(c, k) = [c EXCEPT !.older = Touch(c.older, Stored(c), k)]
      BY <1>2 DEF Refresh
    <2>6. Stored(Refresh(c, k)) = Stored(c)
      BY <2>5 DEF Stored, IsCache
    <2> QED
      BY <2>2, <2>3, <2>4, <2>5, <2>6 DEF IsCache
  <1> QED
    BY <1>1, <1>2

LEMMA DeleteKeepsCache ==
    ASSUME NEW c, IsCache(c), NEW k \in Keys
    PROVE  /\ IsCache(Delete(c, k))
           /\ Stored(Delete(c, k)) = Stored(c) \ {k}
           /\ \A j \in Keys \ {k} : Delete(c, k).items[j] = c.items[j]
  <1> DEFINE d == Delete(c, k)
  <1>1. d \in [items : [Keys -> Objects \cup {Nothing}],
               older : SUBSET (Keys \X Keys),
               live : SUBSET Keys,
               sooner : SUBSET (Keys \X Keys)]
    BY DEF Delete, IsCache, Leave
  <1>2. /\ d.items = [c.items EXCEPT ![k] = Nothing]
        /\ d.older = Leave(c.older, k)
        /\ d.live = c.live \ {k}
        /\ d.sooner = Leave(c.sooner, k)
    BY DEF Delete
  <1>3. /\ Stored(d) = Stored(c) \ {k}
        /\ \A j \in Keys \ {k} : d.items[j] = c.items[j]
    BY <1>2 DEF Stored, IsCache
  <1>4. Cardinality(Stored(d)) <= CacheSize
    <2>1. IsFiniteSet(Stored(c))
      BY CacheAssumption, FS_Subset DEF Stored
    <2>2. /\ Cardinality(Stored(c)) \in Nat /\ Cardinality(Stored(d)) \in Nat
          /\ Cardinality(Stored(d)) <= Cardinality(Stored(c))
      BY <1>3, <2>1, FS_Subset, FS_CardinalityType
    <2> QED
      BY <2>2, CacheAssumption DEF IsCache
  <1>5. Orders(d.older, Stored(d)) /\ Orders(d.sooner, d.live)
    BY <1>2, <1>3, LeaveKeepsOrder DEF IsCache
  <1>6. d.live \subseteq Stored(d)
    BY <1>2, <1>3 DEF IsCache
  <1> HIDE DEF d
  <1>7. IsCache(d)
    BY <1>1, <1>4, <1>5, <1>6 DEF IsCache
  <1> QED
    BY <1>3, <1>7 DEF d

LEMMA DeleteExpiredKeepsCache ==
    ASSUME NEW c, IsCache(c)
    PROVE  /\ IsCache(DeleteExpired(c))
           /\ \A k \in c.live : DeleteExpired(c).items[k] = c.items[k]
  <1> DEFINE d == DeleteExpired(c)
  <1>1. /\ d.items = [k \in Keys |-> IF k \in c.live THEN c.items[k] ELSE Nothing]
        /\ d.older = c.older \cap (c.live \X c.live)
        /\ d.live = c.live
        /\ d.sooner = c.sooner
        /\ d \in [items : [Keys -> Objects \cup {Nothing}],
                  older : SUBSET (Keys \X Keys),
                  live : SUBSET Keys,
                  sooner : SUBSET (Keys \X Keys)]
    BY DEF DeleteExpired, IsCache
  <1>2. Stored(d) = c.live /\ \A k \in c.live : d.items[k] = c.items[k]
    BY <1>1 DEF Stored, IsCache
  <1>3. Cardinality(Stored(d)) <= CacheSize
    <2>1. IsFiniteSet(Stored(c)) /\ Stored(d) \subseteq Stored(c)
      BY <1>2, CacheAssumption, FS_Subset DEF Stored, IsCache
    <2>2. /\ Cardinality(Stored(c)) \in Nat /\ Cardinality(Stored(d)) \in Nat
          /\ Cardinality(Stored(d)) <= Cardinality(Stored(c))
      BY <2>1, FS_Subset, FS_CardinalityType
    <2> QED
      BY <2>2, CacheAssumption DEF IsCache
  <1>4. Orders(d.older, c.live)
    BY <1>1 DEF IsCache, Orders
  <1> HIDE DEF d
  <1>5. IsCache(d)
    BY <1>1, <1>2, <1>3, <1>4 DEF IsCache
  <1> QED
    BY <1>2, <1>5 DEF d

LEMMA StoreKeepsCache ==
    ASSUME NEW c, IsCache(c), NEW k \in Keys, NEW x \in Objects,
           k \in Stored(c) \/ Cardinality(Stored(c)) < CacheSize
    PROVE  /\ IsCache(Store(c, k, x))
           /\ Store(c, k, x).items = [c.items EXCEPT ![k] = x]
  <1> DEFINE d == Store(c, k, x)
  <1>1. /\ d.items = [c.items EXCEPT ![k] = x]
        /\ d.older = Touch(c.older, Stored(c), k)
        /\ d.live = c.live \cup {k}
        /\ d.sooner = Touch(c.sooner, c.live, k)
    BY DEF Store
  <1>2. Stored(c) \subseteq Keys /\ c.live \subseteq Keys
    BY DEF Stored, IsCache
  <1>3. d \in [items : [Keys -> Objects \cup {Nothing}],
               older : SUBSET (Keys \X Keys),
               live : SUBSET Keys,
               sooner : SUBSET (Keys \X Keys)]
    BY <1>2 DEF Store, IsCache, Touch, Leave
  <1>4. Stored(d) = Stored(c) \cup {k}
    BY <1>1, CacheAssumption DEF Stored, IsCache
  <1>5. Cardinality(Stored(d)) <= CacheSize
    <2>1. IsFiniteSet(Stored(c))
      BY CacheAssumption, FS_Subset DEF Stored
    <2>2. /\ Cardinality(Stored(c)) \in Nat
          /\ Cardinality(Stored(d)) = IF k \in Stored(c) THEN Cardinality(Stored(c))
                                      ELSE Cardinality(Stored(c)) + 1
      BY <1>4, <2>1, FS_AddElement, FS_CardinalityType
    <2> QED
      BY <2>2, CacheAssumption DEF IsCache
  <1>6. Orders(d.older, Stored(d)) /\ Orders(d.sooner, d.live)
    BY <1>1, <1>4, TouchKeepsOrder DEF IsCache
  <1>7. d.live \subseteq Stored(d)
    BY <1>1, <1>4 DEF IsCache
  <1> HIDE DEF d
  <1>8. IsCache(d)
    BY <1>3, <1>5, <1>6, <1>7 DEF IsCache
  <1> QED
    BY <1>1, <1>8 DEF d

LEMMA NextExpiresKeepsCache ==
    ASSUME NEW c, IsCache(c)
    PROVE  IsCache(NextExpires(c)) /\ NextExpires(c).items = c.items
  <1> DEFINE d == NextExpires(c)
             L == {p[2] : p \in c.sooner}
             R == {p \in c.sooner : \E q \in c.sooner : q[2] = p[1]}
  <1>1. d = [c EXCEPT !.live = L, !.sooner = R]
    BY DEF NextExpires
  <1>2. Stored(d) = Stored(c)
    BY <1>1 DEF Stored, IsCache
  <1>3. Orders(c.sooner, c.live) /\ L \subseteq c.live
    BY DEF IsCache, Orders
  <1>4. Orders(R, L)
    <2>1. ASSUME NEW p \in R PROVE p \in L \X L
      BY <1>3 DEF Orders
    <2>2. ASSUME NEW j \in L, NEW k \in c.live, <<j, k>> \in c.sooner
          PROVE  <<j, k>> \in R
      <3>1. PICK q \in c.sooner : q[2] = j
        OBVIOUS
      <3> QED
        BY <2>2, <3>1
    <2> HIDE DEF L
    <2>3. R \subseteq c.sooner
      OBVIOUS
    <2> HIDE DEF R
    <2> QED
      BY <1>3, <2>1, <2>2, <2>3 DEF Orders
  <1> HIDE DEF L, R
  <1>5. R \subseteq c.sooner
    BY DEF R
  <1> QED
    BY <1>1, <1>2, <1>3, <1>4, <1>5 DEF IsCache

(* What Set may leave is a cache, whatever it removed to make room; and it *)
(* removed nothing that is alive but the least recently used, or what was  *)
(* used before an item that has expired.                                   *)
LEMMA SetKeepsCache ==
    ASSUME NEW c, IsCache(c), NEW k \in Keys, NEW x \in Objects,
           NEW d \in Set(c, k, x)
    PROVE  /\ IsCache(d)
           /\ \A j \in c.live :
                 \/ d.items[j] # Nothing
                 \/ \A i \in Stored(c) \ {j} : Older(c, j, i)
                 \/ \E e \in Expired(c) : Older(c, j, e)
  <1>1. /\ c.items \in [Keys -> Objects \cup {Nothing}]
        /\ c.live \subseteq Keys /\ Stored(c) \subseteq Keys
        /\ \A j \in c.live : j \in Stored(c)
        /\ \A j \in Stored(c) : c.items[j] # Nothing
    BY DEF IsCache, Stored
  <1>2. IsFiniteSet(Stored(c)) /\ Cardinality(Stored(c)) \in Nat
    BY <1>1, CacheAssumption, FS_Subset, FS_CardinalityType
  <1>3. CASE k \in Stored(c) \/ Cardinality(Stored(c)) < CacheSize
    <2>1. d = Store(c, k, x)
      BY <1>3 DEF Set
    <2>2. IsCache(d) /\ d.items = [c.items EXCEPT ![k] = x]
      BY <1>3, <2>1, StoreKeepsCache
    <2>3. \A j \in c.live : d.items[j] # Nothing
      BY <1>1, <2>2, CacheAssumption
    <2> QED
      BY <2>2, <2>3
  <1>4. CASE k \notin Stored(c) /\ ~(Cardinality(Stored(c)) < CacheSize)
    <2>1. PICK order \in SetToSeqs(Stored(c)) :
             d = Store(Delete(c, findLRU(c, order)), k, x)
      BY <1>4 DEF Set
    <2> DEFINE v == findLRU(c, order)
               w == Delete(c, v)
    <2>2. Stored(c) # {}
      BY <1>2, <1>4, CacheAssumption, FS_EmptySet
    <2>3. /\ v \in Stored(c)
          /\ \/ v \in Expired(c)
             \/ \E e \in Expired(c) : Older(c, v, e)
             \/ \A j \in Stored(c) \ {v} : Older(c, v, j)
      BY <2>2, VictimIsOld
    <2> HIDE DEF v
    <2>4. /\ IsCache(w) /\ Stored(w) = Stored(c) \ {v}
          /\ \A j \in Keys \ {v} : w.items[j] = c.items[j]
      BY <1>1, <2>3, DeleteKeepsCache
    <2> HIDE DEF w
    <2>5. Cardinality(Stored(w)) < CacheSize
      <3>1. Cardinality(Stored(w)) = Cardinality(Stored(c)) - 1
        BY <1>2, <2>3, <2>4, FS_RemoveElement
      <3> QED
        BY <1>2, <3>1, CacheAssumption DEF IsCache
    <2>6. d = Store(w, k, x)
      BY <2>1 DEF v, w
    <2>7. IsCache(d) /\ d.items = [w.items EXCEPT ![k] = x]
      BY <2>4, <2>5, <2>6, StoreKeepsCache
    <2>8. \A j \in c.live \ {v} : d.items[j] # Nothing
      <3>1. w.items \in [Keys -> Objects \cup {Nothing}]
        BY <2>4 DEF IsCache
      <3> QED
        BY <1>1, <2>4, <2>7, <3>1, CacheAssumption
    <2>9. v \in c.live => v \notin Expired(c)
      BY DEF Expired
    <2> QED
      BY <2>3, <2>7, <2>8, <2>9
  <1> QED
    BY <1>3, <1>4
=============================================================================
