\* A rollback from the page, which names no version.
CONSTANTS
    r1 = r1
    r2 = r2
    Run = {r1, r2}
    LastRelease = 2
    MaxCuts = 1
    Entries <- Rollbacks
    Named = FALSE
    Overlap = FALSE
SPECIFICATION FairSpec
CHECK_DEADLOCK FALSE
PROPERTY StatusSettles
