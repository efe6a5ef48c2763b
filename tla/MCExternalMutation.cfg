SPECIFICATION FairSpec
CONSTANTS
    r1 = r1
    r2 = r2
    p1 = p1
    blocks = blocks
    medulla = medulla
    source = source
    Ops = {r1, r2, p1}
    Promotes = {p1}
    Targets = {blocks, medulla, source}
    Files <- MCFiles
    Writers = {w1}
    None = None
    MaxFaults = 2
    MaxCrashes = 1
INVARIANTS
    OutcomesAgree
PROPERTIES
    FilesOnlyGrow
    LeasesSettle
\* A log ahead of its head ends every request and every boot.
CHECK_DEADLOCK FALSE
