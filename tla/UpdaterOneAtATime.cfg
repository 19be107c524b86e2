\* Any way in that takes the lock, failures everywhere, a restart.
CONSTANTS
    r1 = r1
    r2 = r2
    Run = {r1, r2}
    LastVersion = 2
    ScriptChanges = {2}
    MaxBackups = 1
    MaxDumps = 2
    Restarts = TRUE
    Entries <- LockedEntries
    Overlap = FALSE
SPECIFICATION FairSpec
CHECK_DEADLOCK FALSE
INVARIANT TypeOK
INVARIANT OnePipeline
 
PROPERTY EveryRunEnds
PROPERTY SuccessIsWhole
