\* Updates from the page, one after the other, without a restart.
CONSTANTS
    r1 = r1
    r2 = r2
    Run = {r1, r2}
    LastVersion = 2
    ScriptChanges = {2}
    MaxBackups = 2
    MaxDumps = 2
    Restarts = FALSE
    Entries <- ServerUpdates
    Overlap = FALSE
SPECIFICATION Spec
CHECK_DEADLOCK FALSE
INVARIANT OutcomeIsTold
