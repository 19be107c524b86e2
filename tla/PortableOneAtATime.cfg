\* Updates, rollbacks and backups, failures everywhere, a power failure.
CONSTANTS
    r1 = r1
    r2 = r2
    Run = {r1, r2}
    LastRelease = 2
    MaxCuts = 1
    Entries <- AllEntries
    Named = TRUE
    Overlap = FALSE
SPECIFICATION FairSpec
CHECK_DEADLOCK FALSE
INVARIANT TypeOK
INVARIANT OnePipeline
INVARIANT FailedUpdateRestores
PROPERTY StatusSettles
