\* Two invocations in one container, one of them without parameters.
SPECIFICATION ExecFairSpec
CONSTANTS
    r1 = r1  r2 = r2
    Invocations = {r1, r2}
    WithParams = {r1}
    NoInv = NoInv
    NoFile = NoFile
    TimeoutMillis = 4
    FirstBackoff = 1
    MaxBackoff = 2
    Commands = {TRUE, FALSE}
    Faults = {"reset", "exit", "write", "silent"}
INVARIANTS
    ExecTypeOK FunctionRunsOnce OwnUnlessAbandoned
PROPERTIES
    ExecuteReturns
CHECK_DEADLOCK FALSE
