\* A warm acquisition that fails for CPU leaves its container busy.
SPECIFICATION Spec
CONSTANTS
    c1 = c1  c2 = c2  c3 = c3  c4 = c4
    w1 = w1  w2 = w2  w3 = w3
    f = f  g = g
    Containers = {c1, c2, c3}
    Clients = {w1, w2}
    Names = {f, g}
    Descs <- MCDescs
    NameOf <- MCNameOf
    MemOf <- MCMemOf
    CpuOf <- MCCpuOf
    MaxDemand = 2
    PoolMem = 3
    PoolCPUs = 2
    Faults = {}
    NoFun = NoFun
    NoCont = NoCont
INVARIANTS
    BusyIsHeld
CHECK_DEADLOCK FALSE
