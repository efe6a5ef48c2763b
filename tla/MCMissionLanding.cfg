\* Two missions land, race and recover, whatever keys the clients use.
SPECIFICATION Spec
CONSTANTS
    Missions = {m1, m2}
    Packets = {p1, p2}
    TxIds = {t1, t2, t3}
    Keys = {k1, k2}
    None = None
    MaxSeq = 7
    ClientReusesKeys = TRUE
SYMMETRY Interchangeable
INVARIANTS
    TypeOK
    VisibleOnlyCommitted
    CommitNeverLost
    LandingsSerial
PROPERTIES
    StaleMissionsFrozen
    ImplementsChain
\* A fenced WAL never reopens, so the system may come to rest.
CHECK_DEADLOCK FALSE
