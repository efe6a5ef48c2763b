\* A key used for two intents leaves a plan that no open gets past.
SPECIFICATION Spec
CONSTANTS
    Missions = {m1, m2}
    Packets = {p1}
    TxIds = {t1, t2, t3}
    Keys = {k1, k2}
    None = None
    MaxSeq = 5
    ClientReusesKeys = TRUE
INVARIANTS
    RecoveryNeverStuck
\* A fenced WAL never reopens, so the system may come to rest.
CHECK_DEADLOCK FALSE
