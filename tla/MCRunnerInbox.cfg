\* The runner inbox on its own, against an owner that may send anything.
SPECIFICATION RunnerSpec
CONSTANTS
    m1 = m1
    p1 = p1
    p2 = p2
    e1 = e1
    e2 = e2
    Missions = {m1}
    Packets = {p1, p2}
    Execs = {e1, e2}
    None = None
    ClockSkew = 1
    Offers <- MCOffers
    Heads <- MCHeads
    MaxTime = 3
INVARIANTS
    AtMostOneProcess
    InboxReplayable
PROPERTIES
    InboxStepsLegal
\* A torn journal never reopens, and at the last instant nothing is left to do.
CHECK_DEADLOCK FALSE
