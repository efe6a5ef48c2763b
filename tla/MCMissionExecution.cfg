\* One mission through dispatch, rework and review; request clocks lag by up to one.
SPECIFICATION Spec
CONSTANTS
    m1 = m1
    p1 = p1
    p2 = p2
    e1 = e1
    e2 = e2
    Missions = {m1}
    Packets = {p1, p2}
    Execs = {e1, e2}
    None = None
    ClockSkew = 1
    Offers <- ReworkOffers
    Heads <- MCHeads
    MaxTime = 1
    MaxLag = 1
    MaxLetters = 9
INVARIANTS
    TypeOK
    ExecutingIsReal
    OutboxNamesLetters
    ResultAgreement
    MergeWaitEarned
    ServesRepaired
    OutboxReplayable
    ExecutionBoundOnce
    ChainInv
PROPERTIES
    OutboxStepsLegal
    ReplayIsInert
    ImplementsChain
    IterationBindsPacket
    TerminalFrozen
\* A torn outbox never reopens and the clock stops, so the system may come to rest.
CHECK_DEADLOCK FALSE
