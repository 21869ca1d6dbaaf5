\* The pool, its leases and the janitor, when any Docker call may fail.
SPECIFICATION FairSpec
CONSTANTS
    c1 = c1  c2 = c2  c3 = c3  c4 = c4
    w1 = w1  w2 = w2  w3 = w3
    f = f  g = g
    Containers = {c1, c2, c3}
    Clients = {w1, w2}
    Names = {f, g}
    Descs <- MCDescs
    NameOf <- MCNameOf
    MemOf <- MCMemOf
    CpuOf <- MCCpuOf
    MaxDemand = 2
    PoolMem = 3
    PoolCPUs = 2
    Faults = {"start", "destroy", "exit"}
    NoFun = NoFun
    NoCont = NoCont
INVARIANTS
    TypeOK ListsDisjoint ExclusiveLease NoDangling PoolHasOwnName
    MemAccounting CpuAccounting
PROPERTIES
    LeaseSpec GarbageIsCollected
CHECK_DEADLOCK FALSE
