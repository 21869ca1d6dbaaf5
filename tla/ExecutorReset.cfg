\* A retry gives up an invocation whose handler goes on in the container.
SPECIFICATION ExecSpec
CONSTANTS
    r1 = r1  r2 = r2
    Invocations = {r1, r2}
    WithParams = {r1, r2}
    NoInv = NoInv
    NoFile = NoFile
    TimeoutMillis = 4
    FirstBackoff = 1
    MaxBackoff = 2
    Commands = {TRUE}
    Faults = {"reset"}
INVARIANTS
    ResultIsOwn
CHECK_DEADLOCK FALSE
