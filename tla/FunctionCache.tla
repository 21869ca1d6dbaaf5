--------------------------- MODULE FunctionCache ---------------------------
(***************************************************************************)
(* The cache of a node (internal/cache/cache.go): a bounded map whose items*)
(* expire, and from which an insertion may remove another item.            *)
(*                                                                         *)
(* Time is what it tells apart.  The fields Age of the items, the instants *)
(* of their last uses, are the order older of the cache; their fields      *)
(* Expiration, the same delay after each Set, are the set live of those    *)
(* that lie ahead, and their order sooner.  Expired items stay in the map  *)
(* until the janitor, a replacement or an insertion removes them.          *)
(*                                                                         *)
(* An operation holds the lock of the cache throughout; here it is an      *)
(* operator from caches to caches.                                         *)
(***************************************************************************)
EXTENDS Naturals, FiniteSets, SequencesExt

CONSTANTS
    Keys,        \* the names of functions
    Objects,     \* what may be cached
    Nothing,     \* no object: the second result of Get is FALSE
    NoKey,       \* the empty string, which names no function
    CacheSize    \* cache.size

ASSUME CacheAssumption ==
    /\ IsFiniteSet(Keys)
    /\ Nothing \notin Objects
    /\ NoKey \notin Keys
    /\ CacheSize \in Nat \ {0}

NewCache == [items |-> [k \in Keys |-> Nothing],
             older |-> {}, live |-> {}, sooner |-> {}]

Stored(c) == {k \in Keys : c.items[k] # Nothing}
Expired(c) == Stored(c) \ c.live

\* An order as the set of its pairs: k leaves, and k comes after all of S.
Leave(R, k) == {p \in R : k \notin {p[1], p[2]}}
Touch(R, S, k) == Leave(R, k) \cup ((S \ {k}) \X {k})

\* j was used before k.
Older(c, j, k) == <<j, k>> \in c.older

\* Fault for CachesConverge: what has expired is served.
GetIgnoresExpiration(c, k) == c.items[k]

\* Get, its result: an item that has expired is not found.
Get(c, k) == IF k \in c.live THEN c.items[k] ELSE Nothing

\* Get, its effect: the age of an item that is found is refreshed.  Its
\* expiration is not.
Refresh(c, k) ==
    IF Get(c, k) = Nothing THEN c
    ELSE [c EXCEPT !.older = Touch(@, Stored(c), k)]

Delete(c, k) ==
    [items |-> [c.items EXCEPT ![k] = Nothing],
     older |-> Leave(c.older, k),
     live |-> c.live \ {k},
     sooner |-> Leave(c.sooner, k)]

DeleteExpired(c) ==
    [c EXCEPT !.items = [k \in Keys |-> IF k \in c.live THEN @[k] ELSE Nothing],
              !.older = @ \cap (c.live \X c.live)]

\* Fault for InsertionsTakeTheOld: the comparison of ages the other way round.
BetterIfNewer(c, best, k) ==
    IF best = NoKey \/ k \in Expired(c) \/ Older(c, best, k) THEN k ELSE best

\* An iteration of findLRU: the candidate after it has seen k.  An expired item
\* becomes the candidate, with its age, whatever the candidate was.
Better(c, best, k) ==
    IF best = NoKey \/ k \in Expired(c) \/ Older(c, k, best) THEN k ELSE best

\* findLRU, when the iteration over the map goes in this order.
findLRU(c, order) == FoldLeft(LAMBDA best, k : Better(c, best, k), NoKey, order)

Store(c, k, x) ==
    [items |-> [c.items EXCEPT ![k] = x],
     older |-> Touch(c.older, Stored(c), k),
     live |-> c.live \cup {k},
     sooner |-> Touch(c.sooner, c.live, k)]

\* Fault for RegistryTypeOK: a full cache is not looked at.
SetUnbounded(c, k, x) == {Store(c, k, x)}

\* Set: the caches it may leave.  Go iterates over a map in any order.
Set(c, k, x) ==
    IF k \in Stored(c) \/ Cardinality(Stored(c)) < CacheSize
    THEN {Store(c, k, x)}
    ELSE {Store(Delete(c, findLRU(c, order)), k, x) : order \in SetToSeqs(Stored(c))}

\* Time passes until the next item expires: live is what comes after it.
NextExpires(c) ==
    [c EXCEPT !.live = {p[2] : p \in c.sooner},
              !.sooner = {p \in @ : \E q \in @ : q[2] = p[1]}]

Orders(R, S) ==
    /\ R \subseteq S \X S
    /\ \A j \in S : <<j, j>> \notin R
    /\ \A j, k \in S : j # k => <<j, k>> \in R \/ <<k, j>> \in R
    /\ \A i, j, k \in S : <<i, j>> \in R /\ <<j, k>> \in R => <<i, k>> \in R

(* A cache that its operations can leave: the size is kept, no two items   *)
(* have the same age, and those that have not expired expire in turn.      *)
IsCache(c) ==
    /\ c \in [items : [Keys -> Objects \cup {Nothing}],
              older : SUBSET (Keys \X Keys),
              live : SUBSET Keys,
              sooner : SUBSET (Keys \X Keys)]
    /\ c.live \subseteq Stored(c)
    /\ Cardinality(Stored(c)) <= CacheSize
    /\ Orders(c.older, Stored(c))
    /\ Orders(c.sooner, c.live)
=============================================================================
