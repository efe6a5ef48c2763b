\* Shutdown while a clone of the registry is still submitting; nothing fails.
SPECIFICATION Spec
CONSTANTS
    j1 = j1
    j2 = j2
    k1 = k1
    k2 = k2
    Jobs = {j1, j2}
    Keys = {k1, k2}
    None = None
    KeysOf <- AnyKeyForTheSecond
    Careless = {}
    MaxInFlight = 2
    MaxFaults = 0
    MaxCrashes = 0
INVARIANTS
    CancelledBeforeExecution
\* In the end every job is over and there is nothing left to submit.
CHECK_DEADLOCK FALSE
