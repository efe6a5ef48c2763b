\* Every plan is settled, under fairness, when no key is used for two intents.
SPECIFICATION FairSpec
CONSTANTS
    Missions = {m1, m2}
    Packets = {p1}
    TxIds = {t1, t2}
    Keys = {k1, k2}
    None = None
    MaxSeq = 5
    ClientReusesKeys = FALSE
INVARIANTS
    OneLandingInFlight
    RecoveryNeverStuck
PROPERTIES
    PlansSettle
\* A fenced WAL never reopens, so the system may come to rest.
CHECK_DEADLOCK FALSE
