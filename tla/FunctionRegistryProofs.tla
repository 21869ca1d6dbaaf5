----------------------- MODULE FunctionRegistryProofs -----------------------
(***************************************************************************)
(* FunctionRegistry, for any functions, handlers, requests and size of the *)
(* cache: the cache keeps its size, and gives up only what may be given up *)
(* for an insertion.                                                       *)
(***************************************************************************)
EXTENDS FunctionRegistry, FunctionCacheProofs

(* The places a handler can be at, and what it keeps there.                *)
HandlersTyped ==
    handler \in [Handlers ->
       [st : {"idle", "miss", "fill", "exists", "unknown", "save", "uncache"},
        request : Request \cup {NoRequest}, read : Objects \cup {Nothing}]]

(* The handlers keep their types when one of them goes on or answers.      *)
LEMMA MovesTyped ==
    ASSUME HandlersTyped, NEW h \in Handlers,
           NEW stage \in {"exists", "unknown", "save", "uncache"},
           GoTo(h, stage) \/ Answer(h)
    PROVE  /\ HandlersTyped'
           /\ \A i \in Handlers \ {h} : handler'[i] = handler[i]
           /\ GoTo(h, stage) => /\ handler'[h].st = stage
                                /\ handler'[h].request = handler[h].request
           /\ Answer(h) => handler'[h].st = "idle"
  BY DEF HandlersTyped, GoTo, Answer, Idle

(* Inductive: what a handler is about to put into the cache or etcd is an  *)
(* object, under the name of a function.                                   *)
RegistryInv ==
    /\ RegistryTypeOK
    /\ \A h \in Handlers :
          /\ handler[h].st # "idle" => handler[h].request \in Request
          /\ handler[h].st = "fill" => handler[h].read \in Objects
          /\ handler[h].st = "save" => Op(h) = "create"

(* A live item that a step takes from the cache was deleted, or was to give*)
(* way to an insertion.                                                    *)
OnlyTheOldIsTaken ==
    \A k \in cache.live :
       \/ cache'.items[k] # Nothing
       \/ \E h \in Handlers : handler[h].st = "uncache" /\ Name(h) = k
       \/ \A j \in Stored(cache) \ {k} : Older(cache, k, j)
       \/ \E e \in Expired(cache) : Older(cache, k, e)

LEMMA HandlerKeepsRegistry ==
    ASSUME RegistryInv, NEW h \in Handlers,
           NEW stage \in {"exists", "unknown", "save", "uncache"},
           GoTo(h, stage) \/ Answer(h),
           stage = "save" => Op(h) = "create", handler[h].st # "idle",
           etcd' \in [Keys -> Objects \cup {Nothing}],
           IsCache(cache')
    PROVE  RegistryInv'
  <1> USE DEF RegistryInv, RegistryTypeOK
  <1>1. /\ HandlersTyped'
        /\ \A i \in Handlers \ {h} : handler'[i] = handler[i]
        /\ GoTo(h, stage) => /\ handler'[h].st = stage
                             /\ handler'[h].request = handler[h].request
        /\ Answer(h) => handler'[h].st = "idle"
    BY MovesTyped DEF HandlersTyped
  <1>2. \A i \in Handlers :
          /\ handler'[i].st # "idle" => handler'[i].request \in Request
          /\ handler'[i].st = "fill" => handler'[i].read \in Objects
          /\ handler'[i].st = "save" => handler'[i].request.op = "create"
    BY <1>1 DEF Op
  <1> QED
    BY <1>1, <1>2 DEF Op, HandlersTyped

LEMMA RequestsTyped ==
    ASSUME RegistryInv, NEW h \in Handlers, handler[h].st # "idle"
    PROVE  /\ Name(h) \in Keys
           /\ Op(h) = "create" => handler[h].request.def \in Objects
  BY DEF RegistryInv, Name, Op, Request

LEMMA RegistryStep ==
    RegistryInv /\ [RegistryNext]_vars => RegistryInv' /\ OnlyTheOldIsTaken
  <1> SUFFICES ASSUME RegistryInv, [RegistryNext]_vars
               PROVE  RegistryInv' /\ OnlyTheOldIsTaken
    OBVIOUS
  <1>0. /\ IsCache(cache) /\ etcd \in [Keys -> Objects \cup {Nothing}]
        /\ cache.items \in [Keys -> Objects \cup {Nothing}]
        /\ cache.live \subseteq Stored(cache)
    BY DEF RegistryInv, RegistryTypeOK, IsCache
  <1>a. ASSUME cache'.items = cache.items PROVE OnlyTheOldIsTaken
    BY <1>a, <1>0 DEF OnlyTheOldIsTaken, Stored
  <1>b. ASSUME UNCHANGED handler, IsCache(cache'),
               etcd' \in [Keys -> Objects \cup {Nothing}]
        PROVE  RegistryInv'
    BY <1>b DEF RegistryInv, RegistryTypeOK, Op
  <1>1. ASSUME NEW h \in Handlers, NEW request \in Requests[h], Start(h, request)
        PROVE  RegistryInv' /\ OnlyTheOldIsTaken
    <2>1. request \in Request /\ request.name \in Keys
      BY <1>1, RegistryAssumption DEF Request
    <2>2. IsCache(cache') /\ cache'.items = cache.items
      BY <1>0, <1>1, <2>1, RefreshKeepsCache DEF Start
    <2>3. /\ HandlersTyped'
          /\ handler'[h].st \in {"miss", "exists"} /\ handler'[h].request = request
          /\ \A i \in Handlers \ {h} : handler'[i] = handler[i]
      BY <1>1, <2>1 DEF Start, HandlersTyped, RegistryInv, RegistryTypeOK
    <2>4. etcd' = etcd
      BY <1>1 DEF Start
    <2>5. RegistryInv'
      BY <2>1, <2>2, <2>3, <2>4 DEF RegistryInv, RegistryTypeOK, Op, HandlersTyped
    <2> QED
      BY <1>a, <2>2, <2>5
  <1>2. ASSUME NEW h \in Handlers, getFromEtcd(h)
        PROVE  RegistryInv' /\ OnlyTheOldIsTaken
    <2>1. UNCHANGED <<etcd, cache>> /\ handler[h].st = "miss"
      BY <1>2 DEF getFromEtcd
    <2>2. CASE GoTo(h, "unknown")
      <3>1. IsCache(cache') /\ etcd' \in [Keys -> Objects \cup {Nothing}]
        BY <1>0, <2>1
      <3>2. RegistryInv'
        BY <2>1, <2>2, <3>1, HandlerKeepsRegistry
      <3> QED
        BY <1>a, <2>1, <3>2
    <2>3. CASE etcd[Name(h)] # Nothing /\
               handler' = [handler EXCEPT ![h].st = "fill", ![h].read = etcd[Name(h)]]
      <3>1. etcd[Name(h)] \in Objects
        BY <1>0, <2>1, <2>3, RequestsTyped
      <3>2. /\ HandlersTyped'
            /\ handler'[h].st = "fill" /\ handler'[h].read \in Objects
            /\ handler'[h].request = handler[h].request
            /\ \A i \in Handlers \ {h} : handler'[i] = handler[i]
        BY <2>3, <3>1 DEF HandlersTyped, RegistryInv, RegistryTypeOK
      <3> QED
        BY <1>0, <1>a, <2>1, <3>2
        DEF RegistryInv, RegistryTypeOK, Op, HandlersTyped
    <2> QED
      BY <1>2, <1>a, <2>1, <2>2, <2>3 DEF getFromEtcd
  <1>3. ASSUME NEW h \in Handlers, Fill(h) \/ SaveToCache(h)
        PROVE  RegistryInv' /\ OnlyTheOldIsTaken
    <2>1. PICK x \in Objects : cache' \in Set(cache, Name(h), x)
      BY <1>3, RequestsTyped DEF Fill, SaveToCache, RegistryInv
    <2>2. Name(h) \in Keys
      BY <1>3, RequestsTyped DEF Fill, SaveToCache
    <2>3. IsCache(cache') /\ OnlyTheOldIsTaken
      BY <1>0, <2>1, <2>2, SetKeepsCache DEF OnlyTheOldIsTaken
    <2> QED
      BY <1>0, <1>3, <2>3, HandlerKeepsRegistry DEF Fill, SaveToCache
  <1>4. ASSUME NEW h \in Handlers, Finish(h) PROVE RegistryInv' /\ OnlyTheOldIsTaken
    BY <1>0, <1>4, <1>a, HandlerKeepsRegistry DEF Finish
  <1>5. ASSUME NEW h \in Handlers, PutFunction(h)
        PROVE  RegistryInv' /\ OnlyTheOldIsTaken
    <2>1. etcd' \in [Keys -> Objects \cup {Nothing}]
      BY <1>0, <1>5, RequestsTyped DEF PutFunction
    <2> QED
      BY <1>0, <1>5, <1>a, <2>1, HandlerKeepsRegistry DEF PutFunction
  <1>6. ASSUME NEW h \in Handlers, DeleteFromEtcd(h)
        PROVE  RegistryInv' /\ OnlyTheOldIsTaken
    <2>1. etcd' \in [Keys -> Objects \cup {Nothing}]
      BY <1>0, <1>6 DEF DeleteFromEtcd
    <2> QED
      BY <1>0, <1>6, <1>a, <2>1, HandlerKeepsRegistry DEF DeleteFromEtcd
  <1>7. ASSUME NEW h \in Handlers, Uncache(h)
        PROVE  RegistryInv' /\ OnlyTheOldIsTaken
    <2>1. Name(h) \in Keys /\ handler[h].st = "uncache"
      BY <1>7, RequestsTyped DEF Uncache
    <2>2. /\ IsCache(cache')
          /\ \A k \in Keys \ {Name(h)} : cache'.items[k] = cache.items[k]
      BY <1>0, <1>7, <2>1, DeleteKeepsCache DEF Uncache
    <2>3. OnlyTheOldIsTaken
      BY <1>0, <2>1, <2>2 DEF OnlyTheOldIsTaken, Stored
    <2> QED
      BY <1>0, <1>7, <2>2, <2>3, HandlerKeepsRegistry DEF Uncache
  <1>8. ASSUME NEW k \in Keys, NEW f \in OtherObjects \cup {Nothing}, OtherNode(k, f)
        PROVE  RegistryInv' /\ OnlyTheOldIsTaken
    <2>1. etcd' \in [Keys -> Objects \cup {Nothing}]
      BY <1>0, <1>8, RegistryAssumption DEF OtherNode
    <2> QED
      BY <1>0, <1>8, <1>a, <1>b, <2>1 DEF OtherNode
  <1>9. CASE Expire
    BY <1>0, <1>9, <1>a, <1>b, NextExpiresKeepsCache DEF Expire
  <1>10. CASE CleanUp
    <2>1. /\ IsCache(cache')
          /\ \A k \in cache.live : cache'.items[k] = cache.items[k]
      BY <1>0, <1>10, DeleteExpiredKeepsCache DEF CleanUp
    <2>2. OnlyTheOldIsTaken
      BY <1>0, <2>1 DEF OnlyTheOldIsTaken, Stored
    <2> QED
      BY <1>0, <1>10, <1>b, <2>1, <2>2 DEF CleanUp
  <1>11. CASE UNCHANGED vars
    BY <1>0, <1>11, <1>a DEF vars, RegistryInv, RegistryTypeOK, Op
  <1> QED
    BY <1>1, <1>2, <1>3, <1>4, <1>5, <1>6, <1>7, <1>8, <1>9, <1>10, <1>11
    DEF RegistryNext, Step

LEMMA RegistryInitially == RegistryInit => RegistryInv
  BY NewCacheIsCache DEF RegistryInit, RegistryInv, RegistryTypeOK, Idle, Op

(* Types hold, and with them the size of the cache: no insertion, whatever *)
(* it finds, leaves more items than cache.size.                            *)
THEOREM RegistryTypeCorrect == RegistrySpec => []RegistryTypeOK
  <1>1. RegistryInv => RegistryTypeOK
    BY DEF RegistryInv
  <1>2. RegistryInv /\ [RegistryNext]_vars => RegistryInv'
    BY RegistryStep
  <1> QED
    BY <1>1, <1>2, RegistryInitially, PTL DEF RegistrySpec

(* What is alive is taken from the cache by a deletion, or by an insertion *)
(* that found it the least recently used or older than an expired item.    *)
THEOREM InsertionsTakeOnlyTheOld == RegistrySpec => InsertionsTakeTheOld
  <1>1. RegistryInv /\ [RegistryNext]_vars => [OnlyTheOldIsTaken]_vars
    BY RegistryStep
  <1>2. RegistryInv /\ [RegistryNext]_vars => RegistryInv'
    BY RegistryStep
  <1>3. RegistrySpec => [][OnlyTheOldIsTaken]_vars
    BY <1>1, <1>2, RegistryInitially, PTL DEF RegistrySpec
  <1> QED
    BY <1>3 DEF InsertionsTakeTheOld, OnlyTheOldIsTaken
=============================================================================
