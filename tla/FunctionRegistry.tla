-------------------------- MODULE FunctionRegistry --------------------------
(***************************************************************************)
(* The functions known to a node: etcd, which all nodes share, and the     *)
(* node's cache (internal/function/function.go), as the handlers of its    *)
(* API use them (internal/api: creation, deletion, and every request that  *)
(* names a function).                                                      *)
(*                                                                         *)
(* A handler reads and writes the cache and etcd in separate steps and     *)
(* takes no lock across them, so handlers of one node interleave.  Other   *)
(* nodes meet this one in etcd only; what they do there is OtherNode.      *)
(***************************************************************************)
EXTENDS FunctionCache

CONSTANTS
    Handlers,      \* the goroutines of requests
    Requests,      \* what each of them may be asked for; a creation names a
                   \* runtime that exists, or it ends before any effect
    OtherObjects,  \* what other nodes may create
    EtcdFaults     \* whether etcd may fail to answer

Request == [op : {"use", "delete"}, name : Keys, def : {Nothing}]
             \cup [op : {"create"}, name : Keys, def : Objects]

ASSUME RegistryAssumption ==
    /\ Requests \in [Handlers -> SUBSET Request]
    /\ OtherObjects \subseteq Objects
    /\ EtcdFaults \in BOOLEAN

VARIABLES
    etcd,      \* the definition under /function/<name>, for each name
    cache,     \* the cache of this node
    handler    \* where each handler is, and its local variables

vars == <<etcd, cache, handler>>

NoRequest == [op |-> "use", name |-> NoKey, def |-> Nothing]
Idle == [st |-> "idle", request |-> NoRequest, read |-> Nothing]

Op(h) == handler[h].request.op
Name(h) == handler[h].request.name

RegistryInit ==
    /\ etcd = [k \in Keys |-> Nothing]
    /\ cache = NewCache
    /\ handler = [h \in Handlers |-> Idle]

\* h goes on; only between its reads of etcd and its next write does it keep
\* the function it read.
GoTo(h, stage) ==
    handler' = [handler EXCEPT ![h].st = stage, ![h].read = Nothing]

\* h has answered.
Answer(h) == handler' = [handler EXCEPT ![h] = Idle]

-----------------------------------------------------------------------------
(* GetFunction, which every operation starts with.                         *)

\* A request names a function; getFromCache.
Start(h, request) ==
    /\ handler[h].st = "idle"
    /\ handler' = [handler EXCEPT ![h] =
          [st |-> IF Get(cache, request.name) = Nothing THEN "miss" ELSE "exists",
           request |-> request, read |-> Nothing]]
    /\ cache' = Refresh(cache, request.name)
    /\ UNCHANGED etcd

\* getFromEtcd: an error, after a second at most, is no different from a
\* function that does not exist.
getFromEtcd(h) ==
    /\ handler[h].st = "miss"
    /\ UNCHANGED <<etcd, cache>>
    /\ \/ /\ etcd[Name(h)] # Nothing
          /\ handler' = [handler EXCEPT ![h].st = "fill", ![h].read = etcd[Name(h)]]
       \/ /\ etcd[Name(h)] = Nothing \/ EtcdFaults
          /\ GoTo(h, "unknown")

\* What was read some time ago goes into the cache.
Fill(h) ==
    /\ handler[h].st = "fill"
    /\ cache' \in Set(cache, Name(h), handler[h].read)
    /\ GoTo(h, "exists")
    /\ UNCHANGED etcd

\* Invocations and prewarming go on with the function, or answer 404, as a
\* deletion does.  A creation answers 409 if the function exists.
Finish(h) ==
    /\ \/ handler[h].st = "exists" /\ Op(h) \in {"use", "create"}
       \/ handler[h].st = "unknown" /\ Op(h) \in {"use", "delete"}
    /\ Answer(h)
    /\ UNCHANGED <<etcd, cache>>

-----------------------------------------------------------------------------
(* CreateFunction and SaveToEtcd.                                          *)

\* Put, with no condition on what is there now.  An error may come before or
\* after its effect.
PutFunction(h) ==
    /\ handler[h].st = "unknown" /\ Op(h) = "create"
    /\ \/ /\ etcd' = [etcd EXCEPT ![Name(h)] = handler[h].request.def]
          /\ \/ GoTo(h, "save")
             \/ EtcdFaults /\ Answer(h)
       \/ /\ EtcdFaults
          /\ Answer(h)
          /\ UNCHANGED etcd
    /\ UNCHANGED cache

SaveToCache(h) ==
    /\ handler[h].st = "save"
    /\ cache' \in Set(cache, Name(h), handler[h].request.def)
    /\ Answer(h)
    /\ UNCHANGED etcd

-----------------------------------------------------------------------------
(* DeleteFunction and Delete.                                              *)

\* etcd must have deleted one key; after anything else the cache keeps the
\* function and the answer is an error.
DeleteFromEtcd(h) ==
    /\ handler[h].st = "exists" /\ Op(h) = "delete"
    /\ \/ /\ etcd[Name(h)] # Nothing
          /\ etcd' = [etcd EXCEPT ![Name(h)] = Nothing]
          /\ \/ GoTo(h, "uncache")
             \/ EtcdFaults /\ Answer(h)
       \/ /\ EtcdFaults \/ etcd[Name(h)] = Nothing
          /\ Answer(h)
          /\ UNCHANGED etcd
    /\ UNCHANGED cache

\* The containers of the function are deleted next: ContainerPool has that.
Uncache(h) ==
    /\ handler[h].st = "uncache"
    /\ cache' = Delete(cache, Name(h))
    /\ Answer(h)
    /\ UNCHANGED etcd

-----------------------------------------------------------------------------
(* The rest of the world.                                                  *)

\* Another node creates or deletes a function.
OtherNode(k, f) ==
    /\ etcd[k] # f
    /\ etcd' = [etcd EXCEPT ![k] = f]
    /\ UNCHANGED <<cache, handler>>

\* The clock.
Expire ==
    /\ cache.live # {}
    /\ cache' = NextExpires(cache)
    /\ UNCHANGED <<etcd, handler>>

\* The janitor of the cache.
CleanUp ==
    /\ Expired(cache) # {}
    /\ cache' = DeleteExpired(cache)
    /\ UNCHANGED <<etcd, handler>>

Step(h) ==
    \/ getFromEtcd(h) \/ Fill(h) \/ Finish(h)
    \/ PutFunction(h) \/ SaveToCache(h)
    \/ DeleteFromEtcd(h) \/ Uncache(h)

RegistryNext ==
    \/ \E h \in Handlers : \E request \in Requests[h] : Start(h, request)
    \/ \E h \in Handlers : Step(h)
    \/ \E k \in Keys, f \in OtherObjects \cup {Nothing} : OtherNode(k, f)
    \/ Expire
    \/ CleanUp

RegistrySpec == RegistryInit /\ [][RegistryNext]_vars

(* Handlers run, and time passes.  The janitor need not run: it only does  *)
(* if cache.cleanup is positive.                                           *)
RegistryFairSpec ==
    /\ RegistrySpec
    /\ \A h \in Handlers : WF_vars(Step(h))
    /\ WF_vars(Expire)

-----------------------------------------------------------------------------
(* Properties.                                                             *)

(* Types; and the cache keeps its size and one age for each item.          *)
RegistryTypeOK ==
    /\ etcd \in [Keys -> Objects \cup {Nothing}]
    /\ IsCache(cache)
    /\ handler \in [Handlers ->
          [st : {"idle", "miss", "fill", "exists", "unknown", "save", "uncache"},
           request : Request \cup {NoRequest}, read : Objects \cup {Nothing}]]

(* What an insertion may remove of the items that have not expired: the    *)
(* least recently used one, or one used before some item that has expired. *)
(* Nothing but a deletion removes another.                                 *)
InsertionsTakeTheOld ==
    [][\A k \in cache.live :
          \/ cache'.items[k] # Nothing
          \/ \E h \in Handlers : handler[h].st = "uncache" /\ Name(h) = k
          \/ \A j \in Stored(cache) \ {k} : Older(cache, k, j)
          \/ \E e \in Expired(cache) : Older(cache, k, e)]_vars

(* A node learns of deletions and creations elsewhere by expiration alone: *)
(* when a function stops changing in etcd, the node's cache comes to hold  *)
(* that definition or none, whatever races went before.                    *)
CachesConverge ==
    \A k \in Keys, f \in Objects \cup {Nothing} :
       <>[](etcd[k] = f) => <>[](Get(cache, k) \in {f, Nothing})
=============================================================================
