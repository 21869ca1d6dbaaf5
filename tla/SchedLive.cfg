\* Without a queue, every policy answers every invocation. What edgecloud
\* does, custom1 may do.
SPECIFICATION SchedFairSpec
CONSTANTS
    c1 = c1  c2 = c2  c3 = c3
    r1 = r1  r2 = r2  r3 = r3
    f = f  g = g
    Containers = {c1, c2}
    Clients = {r1, r2}
    Names = {f, g}
    Descs <- MCDescs
    NameOf <- MCNameOf
    MemOf <- MCMemOf
    CpuOf <- MCCpuOf
    MaxDemand = 2
    PoolMem = 2
    PoolCPUs = 2
    Faults = {"create"}
    NoFun = NoFun
    NoCont = NoCont
    Policies = {"default", "cloudonly", "edgeonly", "custom1"}
    QueueCap = 0
    Recycle = FALSE
    Kinds <- Mixed
INVARIANTS
    SchedTypeOK AnswersAreTrue AnsweredWhenDone
PROPERTIES
    AnswersAreFinal EveryRequestAnswered LeasesEnd
CHECK_DEADLOCK FALSE
