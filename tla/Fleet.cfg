\* Edge nodes under the eyes of one of them, or cloud nodes behind a load
\* balancer; restarts, failing etcd, lost leases and datagrams, statuses out of reach.
SPECIFICATION FleetFairSpec
CONSTANTS
    e = e  f = f  c = c  d = d  p = p
    e1 = e1  e2 = e2  f1 = f1  f2 = f2  c1 = c1  c2 = c2  d1 = d1
    Nodes = {e, f, c, d, p}
    EdgeNodes = {e, f}
    Keys = {e1, e2, f1, f2, c1, c2, d1}
    NodeOf <- MCNodeOf
    NoKey = NoKey
    Deployments = {{e, f}, {c, d, p}}
    Faults = {"etcd", "lease", "loss", "update"}
    Proxy = p
    Self = e
    Rank = 2
    Mutable = {f}
    MaxTriggers = 1
INVARIANTS
    FleetTypeOK NoTargetIsMissing GhostsWereDoubled NeverWithoutTarget
PROPERTIES
    AnsweringAreKept DeadAreForgotten NewcomersAreFound
    MonitorStopsOnlyOnLoss TargetsFollow RegisteredAreTargets
CHECK_DEADLOCK FALSE
