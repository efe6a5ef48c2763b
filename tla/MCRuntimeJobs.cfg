\* The job registry: two jobs, one failing journal write, one crash; the closures of the
\* second job may choose a code that replay refuses.
SPECIFICATION FairSpec
CONSTANTS
    j1 = j1
    j2 = j2
    k1 = k1
    k2 = k2
    Jobs = {j1, j2}
    Keys = {k1, k2}
    None = None
    KeysOf <- AnyKeyForTheSecond
    Careless = {j2}
    MaxInFlight = 2
    MaxFaults = 1
    MaxCrashes = 1
INVARIANTS
    TypeOK
    OutcomeTruthful
    JournalReplays
PROPERTIES
    JobsEnd
\* A torn journal never opens again, and in the end there is nothing left to submit.
CHECK_DEADLOCK FALSE
