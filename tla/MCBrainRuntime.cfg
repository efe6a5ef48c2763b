SPECIFICATION FairSpec
CONSTANTS
    None = None
    Writes = {w1}
    Proposals = {p1}
    Debounce = 2
    MaxDrift = 2
    MaxPreActor = 1
    MaxManifests = 3
    MaxFaults = 2
    MaxCrashes = 1
INVARIANTS
    TypeOK
    AcknowledgedSurvives
    ServedIsCurrent
    ProposalsFresh
PROPERTIES
    QuarantineEnds
\* A brain may stay stopped or quarantined when its bounds are used up.
CHECK_DEADLOCK FALSE
