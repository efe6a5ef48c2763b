\* A request whose clock sample lags blocks every later repair.
SPECIFICATION Spec
CONSTANTS
    m1 = m1
    p1 = p1
    p2 = p2
    e1 = e1
    e2 = e2
    Missions = {m1}
    Packets = {p1, p2}
    Execs = {e1, e2}
    None = None
    ClockSkew = 1
    Offers <- ReworkOffers
    Heads <- MCHeads
    MaxTime = 2
    MaxLag = 1
    MaxLetters = 3
INVARIANTS
    NoRepairBlocked
\* A torn outbox never reopens and the clock stops, so the system may come to rest.
CHECK_DEADLOCK FALSE
