\* The queue of the default policy, when several invocations wait.
SPECIFICATION SchedSpec
CONSTANTS
    c1 = c1  c2 = c2  c3 = c3
    r1 = r1  r2 = r2  r3 = r3
    f = f  g = g
    Containers = {c1, c2, c3}
    Clients = {r1, r2, r3}
    Names = {f, g}
    Descs <- MCDescs
    NameOf <- MCNameOf
    MemOf <- MCMemOf
    CpuOf <- MCCpuOf
    MaxDemand = 2
    PoolMem = 2
    PoolCPUs = 2
    Faults = {"create"}
    NoFun = NoFun
    NoCont = NoCont
    Policies = {"default"}
    QueueCap = 2
    Recycle = FALSE
    Kinds <- SyncAndAsync
SYMMETRY Symmetry
INVARIANTS
    LeaseOnItsWay QueueConsistent NobodyIsForgotten 
PROPERTIES
    PoolSpec
CHECK_DEADLOCK FALSE
