\* A cache of two items for three functions, two requests at a time, and other
\* nodes.
SPECIFICATION RegistryFairSpec
CONSTANTS
    k1 = k1  k2 = k2  k3 = k3
    d1 = d1  d2 = d2
    h1 = h1  h2 = h2
    Keys = {k1, k2, k3}
    Objects = {d1, d2}
    OtherObjects = {d2}
    Nothing = Nothing
    NoKey = NoKey
    CacheSize = 2
    Handlers = {h1, h2}
    Requests <- MCRequests
    EtcdFaults = TRUE
INVARIANTS
    RegistryTypeOK
PROPERTIES
    InsertionsTakeTheOld CachesConverge
