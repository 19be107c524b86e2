--------------------------- MODULE PortableUpdater ---------------------------
(***************************************************************************)
(* The portable Windows updater: update.ps1 and common.ps1, started by     *)
(* system.service.ts over one folder app\ with the running release, the    *)
(* folder releases\ with earlier ones, and the database.                    *)
(*                                                                         *)
(* A run is one execution of update.ps1.  Each command that moves files,   *)
(* the database, the application or the lock is one step, and each may     *)
(* fail.  A power failure may come at any moment: all runs end, what they  *)
(* were writing or removing is half done, and the lock is honoured for two *)
(* more hours.                                                             *)
(*                                                                         *)
(* A release is a number; a folder and a schema are known by the release   *)
(* they are of.  Downloads, log files, staging\, and the folders           *)
(* releases\<version>-failed-<time> are left out; a run is assumed to end  *)
(* within the two hours its lock is honoured.  The dump a rollback is told *)
(* to restore may be any file, and is chosen where it is first looked at.  *)
(***************************************************************************)
EXTENDS Integers

CONSTANTS
    Run,          \* ids of runs: bounds how many are alive at a time
    LastRelease,  \* the newest release that is ever published
    MaxCuts,      \* bounds how often the power fails or a script ends untold
    Entries,      \* the actions runs are started with
    Named,        \* is a rollback always given a version that releases\ has?
    Overlap       \* may a run start while another is between test and lock?

AllEntries == {"Update", "Rollback", "Backup"}
Releases == 1..LastRelease

ASSUME PortableNumbers == LastRelease \in Nat \ {0} /\ MaxCuts \in Nat
ASSUME PortableSwitches == Entries \subseteq AllEntries /\ {Named, Overlap} \subseteq BOOLEAN
ASSUME PortableRuns == \A r \in Run : r \notin {"free", "left", "expired"}

VARIABLES
    latest,    \* "latest" of the release feed
    app,       \* the tree in app\
    releases,  \* the trees in releases\<version>
    db,        \* the schema of the database
    up,        \* does the application answer requests?
    lock,      \* update.lock: its run, or how a run that is gone left it
    status,    \* "status" of update-status.json
    run,       \* what each script is doing
    cuts       \* how often a script was cut off before it could tell its end

files == <<app, releases, db>>
vars == <<latest, files, up, lock, status, run, cuts>>
-----------------------------------------------------------------------------
\* Half a tree, half a schema or half a dump; no tree; no version and no dump given.
Torn == -2
Gone == -1
None == 0

Trees == Releases \cup {Gone, Torn}
Schemas == Releases \cup {Torn}

\* What Get-LocalVersion may say: 0.0.0 when there is no VERSION file, which half a
\* tree may have or not.
Versions == {0} \cup Releases
LocalVersion == CASE app \in Releases -> {app}
                  [] app = Torn       -> Versions
                  [] app = Gone       -> {0}

Busy == {"running", "rolling_back"}
Told == {"idle", "success", "error", "failed"}

Steps == {"off", "start", "test", "lock", "prepare", "dump", "stop", "clear", "move", "copy", "migrate",
          "up", "health", "finish", "undo stop", "undo db", "undo app", "undo up", "recover", "failed",
          "leave"}

\* Marks: the outer catch has been entered, $appRecoveryStarted; and, for the
\* properties alone, whether the run found one release running and still found it
\* when it had the lock, whether what it installed passed the health check, and
\* whether its recovery failed somewhere.
Marks == {"outer", "restarted", "sound", "healthy", "stuck"}

\* A run at a step: the version it was given, the version it found, $target, $prevDir (Gone before step 7), and $backupFile.
RunAt(pc, entry, version) ==
    [pc |-> pc, entry |-> entry, version |-> version, found |-> None,
     target |-> None, prev |-> Gone, dump |-> None, marks |-> {}]
Off == RunAt("off", "Update", None)

At(r, pc) == run[r].pc = pc
Alive(r) == run[r].pc # "off"
Updating(r) == run[r].entry = "Update"
Undoing(r) == run[r].pc \in {"undo stop", "undo db", "undo app", "undo up"}

Go(r, pc) == run' = [run EXCEPT ![r].pc = pc]
Mark(r, pc, mark) == run' = [run EXCEPT ![r].pc = pc, ![r].marks = @ \cup {mark}]
End(r) == run' = [run EXCEPT ![r] = Off]

\* Only the finally block is left, which reads nothing of the run.
Done(r) == run' = [run EXCEPT ![r] = [Off EXCEPT !.pc = "leave"]]

Held == lock \in Run \cup {"left"}
-----------------------------------------------------------------------------
\* No script is on its way to the lock.
Quiet == Overlap \/ \A v \in Run : run[v].pc \notin {"start", "test", "lock"}

\* triggerUpdate, triggerRollback: the API writes a running status and launches
\* the script; nothing asks whether another one is under way.
Request(r, entry, version) ==
    /\ entry \in Entries \cap {"Update", "Rollback"}
    /\ ~Alive(r) /\ Quiet /\ up
    /\ entry = "Update" => version = None
    /\ entry = "Rollback" /\ Named => version # None /\ releases[version] # Gone
    /\ \/ status' = "running" /\ run' = [run EXCEPT ![r] = RunAt("start", entry, version)]
       \/ status' = "error" /\ UNCHANGED run
    /\ UNCHANGED <<latest, files, up, lock, cuts>>

\* triggerBackup, by hand or by the daily scheduler.
RequestBackup(r) ==
    /\ "Backup" \in Entries
    /\ ~Alive(r) /\ Quiet /\ up
    /\ run' = [run EXCEPT ![r] = RunAt("start", "Backup", None)]
    /\ UNCHANGED <<latest, files, up, lock, status, cuts>>

\* Invoke-Rollback without -Version, or with one that releases\ has not: the
\* script ends before it has a lock or writes a status.
RefuseVersion(r) ==
    /\ At(r, "start") /\ run[r].entry = "Rollback"
    /\ run[r].version = None \/ releases[run[r].version] = Gone
    /\ End(r)
    /\ UNCHANGED <<latest, files, up, lock, status, cuts>>

Startable(r) == run[r].entry = "Rollback" => /\ run[r].version # None
                                             /\ releases[run[r].version] # Gone

\* What is read before the lock is tested, and not again: $current of an update, and
\* $src of a rollback.
ReadVersion(r) ==
    /\ At(r, "start") /\ Startable(r)
    /\ \E found \in IF Updating(r) THEN LocalVersion ELSE {None} :
          run' = [run EXCEPT ![r].found = found, ![r].pc = "test"]
    /\ UNCHANGED <<latest, files, up, lock, status, cuts>>

\* "Another update is already running"; a backup writes no status.
Refused(r) == IF run[r].entry = "Backup" THEN status ELSE "error"

\* Mutant: a busy lock is not told.
TestLockSilent(r) ==
    /\ At(r, "test")
    /\ \/ Held /\ End(r)
       \/ ~Held /\ Go(r, "lock")
    /\ UNCHANGED <<latest, files, up, lock, status, cuts>>

\* Mutant: every lock is taken for a stale one.
TestLockSteals(r) ==
    /\ At(r, "test")
    /\ Go(r, "lock")
    /\ UNCHANGED <<latest, files, up, lock, status, cuts>>

\* Acquire-UpdateLock, the test: busy for two hours after it was written.
TestLock(r) ==
    /\ At(r, "test")
    /\ \/ Held /\ End(r) /\ status' = Refused(r)
       \/ ~Held /\ Go(r, "lock") /\ UNCHANGED status
    /\ UNCHANGED <<latest, files, up, lock, cuts>>

\* Acquire-UpdateLock, the writing, and the first status.
WriteLock(r) ==
    /\ At(r, "lock")
    /\ lock' = r
    /\ status' = CASE run[r].entry = "Update"   -> "running"
                   [] run[r].entry = "Rollback" -> "rolling_back"
                   [] run[r].entry = "Backup"   -> status
    /\ run' = [run EXCEPT ![r].pc = IF Updating(r) THEN "prepare" ELSE "dump",
                          ![r].marks = IF Updating(r) /\ up /\ {app, db} = {run[r].found} THEN {"sound"} ELSE {}]
    /\ UNCHANGED <<latest, files, up, cuts>>

\* The lock cannot be written, which is told like a busy one.
LockFails(r) ==
    /\ At(r, "lock")
    /\ End(r)
    /\ status' = Refused(r)
    /\ UNCHANGED <<latest, files, up, lock, cuts>>

\* The finally block: the lock file goes, whoever wrote it.
Leave(r) ==
    /\ At(r, "leave")
    /\ lock' = "free"
    /\ End(r)
    /\ UNCHANGED <<latest, files, up, status, cuts>>
-----------------------------------------------------------------------------
\* Steps 2 to 4: resolve, download, verify, extract.
Prepare(r) ==
    /\ At(r, "prepare")
    /\ \/ run[r].found >= latest /\ status' = "success" /\ Done(r)
       \/ /\ run[r].found < latest
          /\ run' = [run EXCEPT ![r].target = latest, ![r].pc = "dump"]
          /\ UNCHANGED status
    /\ UNCHANGED <<latest, files, up, lock, cuts>>

\* Invoke-PgDumpBackup: step 5, pre-rollback, or all there is to a backup.
Dump(r) ==
    /\ At(r, "dump")
    /\ CASE run[r].entry = "Update"   -> run' = [run EXCEPT ![r].dump = db, ![r].pc = "stop"]
         [] run[r].entry = "Rollback" -> Go(r, "stop")
         [] run[r].entry = "Backup"   -> Done(r)
    /\ UNCHANGED <<latest, app, releases, db, up, lock, status, cuts>>

\* Step 6, Stop-VbApp.
Stop(r) ==
    /\ At(r, "stop")
    /\ up' = FALSE
    /\ Go(r, IF Updating(r) THEN "clear" ELSE "move")
    /\ UNCHANGED <<latest, files, lock, status, cuts>>

\* Step 7, what an earlier update left in releases\<current> is removed.
Clear(r) ==
    /\ At(r, "clear")
    /\ releases' = [releases EXCEPT ![run[r].found] = Gone]
    /\ run' = [run EXCEPT ![r].prev = run[r].found, ![r].pc = "move"]
    /\ UNCHANGED <<latest, app, db, up, lock, status, cuts>>

\* Step 7, app\ is moved there; a rollback moves it to a folder of its own.
Move(r) ==
    /\ At(r, "move")
    /\ app' = Gone
    /\ releases' = IF Updating(r) THEN [releases EXCEPT ![run[r].prev] = app] ELSE releases
    /\ Go(r, "copy")
    /\ UNCHANGED <<latest, db, up, lock, status, cuts>>

\* Step 7, the package is copied to app\; Restore-AppFromRelease.
Copy(r) ==
    /\ At(r, "copy")
    /\ \/ Updating(r) /\ app' = run[r].target /\ Go(r, "migrate")
       \/ /\ ~Updating(r) /\ releases[run[r].version] # Gone
          /\ app' = releases[run[r].version]
          /\ Go(r, "up") \/ Go(r, "undo db")
    /\ UNCHANGED <<latest, releases, db, up, lock, status, cuts>>

\* Step 8: a half-applied migration blocks it.
Migrate(r) ==
    /\ At(r, "migrate") /\ db # Torn
    /\ db' = run[r].target
    /\ Go(r, "up")
    /\ UNCHANGED <<latest, app, releases, up, lock, status, cuts>>

\* Step 9, Start-VbApp.
Start(r) ==
    /\ At(r, "up")
    /\ up' = (app \in Releases)
    /\ Go(r, "health")
    /\ UNCHANGED <<latest, files, lock, status, cuts>>

\* Wait-VbHealth finds the application up.
Healthy(r) ==
    /\ At(r, "health") /\ up
    /\ IF Updating(r) THEN Mark(r, "finish", "healthy") ELSE Go(r, "finish")
    /\ UNCHANGED <<latest, files, up, lock, status, cuts>>

\* Releases beyond the newest few are pruned; a removal that fails is not noticed.
Pruned(r) ==
    IF ~Updating(r) THEN {releases}
    ELSE {[v \in Versions |-> IF v \in old THEN Gone
                             ELSE IF v \in torn /\ releases[v] # Gone THEN Torn ELSE releases[v]] :
             old \in SUBSET Versions, torn \in SUBSET Versions}

\* Step 10, and the last status of a rollback.
Finalize(r) ==
    /\ At(r, "finish")
    /\ releases' \in Pruned(r)
    /\ status' = "success"
    /\ Done(r)
    /\ UNCHANGED <<latest, app, db, up, lock, cuts>>
-----------------------------------------------------------------------------
\* A command, or the writing of the status before it, fails.  What it leaves
\* behind, and where the script goes on: the migration and the health check have a
\* rollback of their own, everything else of an update falls to the outer catch,
\* what follows the health check too; a backup only ends, and a rollback that fails
\* is left as it is.
Fails == {"prepare", "dump", "stop", "clear", "move", "copy", "migrate", "up", "health", "finish"}

AfterFailure(r) ==
    CASE run[r].entry = "Rollback" -> "failed"
      [] Updating(r) -> CASE At(r, "migrate") -> "undo db"
                          [] At(r, "health")  -> "undo stop"
                          [] OTHER            -> "recover"

\* What a removal of a release leaves when it fails or is cut off.
Cleared(v) == {releases} \cup (IF releases[v] # Gone THEN {[releases EXCEPT ![v] = Torn]} ELSE {})

Fail(r) ==
    /\ run[r].pc \in Fails
    /\ up' \in IF At(r, "stop") THEN {up, FALSE} ELSE {up}
    /\ app' \in IF At(r, "copy") THEN {Gone, Torn} \cup (IF Updating(r) THEN {run[r].target} ELSE {}) ELSE {app}
    /\ db' \in IF At(r, "migrate") THEN {db, Torn} ELSE {db}
    /\ \E prev \in IF At(r, "clear") THEN {run[r].prev, run[r].found} ELSE {run[r].prev} :
          /\ releases' \in CASE At(r, "clear") /\ prev # Gone -> Cleared(prev)
                             [] At(r, "finish")              -> Pruned(r)
                             [] OTHER                        -> {releases}
          /\ IF run[r].entry = "Backup" THEN Done(r)
             ELSE run' = [run EXCEPT ![r].pc = AfterFailure(r), ![r].prev = prev]
    /\ UNCHANGED <<latest, lock, status, cuts>>

\* Where the outer catch begins: the previous release is put back if releases\ has
\* it, after a stop when app\ has a VERSION file; otherwise app\ is only started.
RecoverAt(r) ==
    IF run[r].prev = Gone \/ releases[run[r].prev] = Gone THEN {"undo up"}
    ELSE (IF app # Gone THEN {"undo stop"} ELSE {}) \cup (IF app \notin Releases THEN {"undo db"} ELSE {})

\* The outer catch of Invoke-Update.  An application that a rollback restarted, or
\* that answers, is left alone; it may also fail to answer in five seconds.
Recover(r) ==
    /\ At(r, "recover")
    /\ \/ ("restarted" \in run[r].marks \/ up) /\ Go(r, "failed")
       \/ /\ "restarted" \notin run[r].marks
          /\ \E pc \in RecoverAt(r) : Mark(r, pc, "outer")
    /\ UNCHANGED <<latest, files, up, lock, status, cuts>>

UndoStop(r) ==
    /\ At(r, "undo stop")
    /\ up' = FALSE
    /\ Go(r, "undo db")
    /\ UNCHANGED <<latest, files, lock, status, cuts>>

\* Mutant: the schema is left as the migration made it.
UndoDbSkipped(r) ==
    /\ At(r, "undo db")
    /\ Go(r, IF Updating(r) THEN "undo app" ELSE "up")
    /\ UNCHANGED <<latest, files, up, lock, status, cuts>>

\* Restore-AppTree, the dump first; or -RestoreBackup of a rollback: a dump of any
\* schema that there has been, half a schema perhaps.
UndoDb(r) ==
    /\ At(r, "undo db")
    /\ db' \in IF Updating(r) THEN {run[r].dump} ELSE {Torn} \cup 1..latest
    /\ Go(r, IF Updating(r) THEN "undo app" ELSE "up")
    /\ UNCHANGED <<latest, app, releases, up, lock, status, cuts>>

\* Restore-AppTree, then the tree.
UndoApp(r) ==
    /\ At(r, "undo app")
    /\ releases[run[r].prev] # Gone
    /\ app' = releases[run[r].prev]
    /\ Go(r, "undo up")
    /\ UNCHANGED <<latest, releases, db, up, lock, status, cuts>>

\* Mutant: the application is started on whatever is in app\.
UndoUpAnyTree(r) ==
    /\ At(r, "undo up")
    /\ up' = TRUE
    /\ IF "outer" \in run[r].marks THEN Go(r, "failed") ELSE Mark(r, "recover", "restarted")
    /\ UNCHANGED <<latest, files, lock, status, cuts>>

\* Start-VbApp; the inner rollback then throws, into the outer catch.
UndoUp(r) ==
    /\ At(r, "undo up")
    /\ up' = (app \in Releases)
    /\ IF "outer" \in run[r].marks THEN Go(r, "failed") ELSE Mark(r, "recover", "restarted")
    /\ UNCHANGED <<latest, files, lock, status, cuts>>

\* A command of the recovery fails: the inner one is tried again by the outer
\* catch, the outer one is logged.
UndoFails(r) ==
    /\ Undoing(r)
    /\ up' \in IF At(r, "undo stop") THEN {up, FALSE} ELSE {up}
    /\ db' \in IF At(r, "undo db") THEN {db, Torn} ELSE {db}
    /\ app' \in IF At(r, "undo app") THEN {app, Gone, Torn} ELSE {app}
    /\ Mark(r, IF ~Updating(r) \/ "outer" \in run[r].marks THEN "failed" ELSE "recover", "stuck")
    /\ UNCHANGED <<latest, releases, lock, status, cuts>>

\* The last status of an update or a rollback that failed.
TellFailed(r) ==
    /\ At(r, "failed")
    /\ status' = "failed"
    /\ Done(r)
    /\ UNCHANGED <<latest, files, up, lock, cuts>>

\* The script ends and leaves the status as it is: nothing before the lock was
\* caught, or a status that tells an end cannot be written.
EndUntold(r) ==
    /\ cuts < MaxCuts
    /\ cuts' = cuts + 1
    /\ \/ At(r, "start") /\ End(r)
       \/ At(r, "test") /\ Held /\ End(r)
       \/ At(r, "failed") /\ Done(r)
    /\ UNCHANGED <<latest, files, up, lock, status>>
-----------------------------------------------------------------------------
\* The operator starts an application that is down: start.bat wants a whole tree.
StartByHand ==
    /\ ~up /\ app \in Releases /\ \A r \in Run : ~Alive(r)
    /\ up' = TRUE
    /\ UNCHANGED <<latest, files, lock, status, run, cuts>>

\* The power fails, in the middle of a removal, a copy or a migration perhaps.
Crash ==
    /\ cuts < MaxCuts
    /\ cuts' = cuts + 1
    /\ app' \in {app} \cup (IF \E r \in Run : At(r, "copy") \/ At(r, "undo app") THEN {Torn} ELSE {})
    /\ db' \in {db} \cup (IF \E r \in Run : At(r, "migrate") \/ At(r, "undo db") THEN {Torn} ELSE {})
    /\ \/ releases' = releases
       \/ \E r \in Run : \/ At(r, "clear") /\ releases' \in Cleared(run[r].found)
                         \/ At(r, "finish") /\ releases' \in Pruned(r)
    /\ up' = (app' \in Releases)
    /\ lock' = IF lock \in Run THEN "left" ELSE lock
    /\ run' = [r \in Run |-> Off]
    /\ UNCHANGED <<latest, status>>

\* Two hours have passed since the lock was written by a run that is gone.
LockExpires ==
    /\ lock = "left"
    /\ lock' = "expired"
    /\ UNCHANGED <<latest, files, up, status, run, cuts>>

\* A new release is published.
Publish ==
    /\ latest < LastRelease
    /\ latest' = latest + 1
    /\ UNCHANGED <<files, up, lock, status, run, cuts>>

Init ==
    /\ latest = 1 /\ app = 1 /\ db = 1 /\ up = TRUE
    /\ releases = [v \in Versions |-> Gone]
    /\ lock = "free" /\ status = "idle"
    /\ run = [r \in Run |-> Off]
    /\ cuts = 0

ScriptStep(r) ==
    \/ RefuseVersion(r) \/ ReadVersion(r) \/ TestLock(r) \/ WriteLock(r) \/ LockFails(r) \/ Leave(r)
    \/ Prepare(r) \/ Dump(r) \/ Stop(r) \/ Clear(r) \/ Move(r) \/ Copy(r) \/ Migrate(r)
    \/ Start(r) \/ Healthy(r) \/ Finalize(r) \/ Fail(r)
    \/ Recover(r) \/ UndoStop(r) \/ UndoDb(r) \/ UndoApp(r) \/ UndoUp(r) \/ UndoFails(r)
    \/ TellFailed(r) \/ EndUntold(r)

Next ==
    \/ \E r \in Run : \/ \E entry \in Entries, version \in Versions : Request(r, entry, version)
                      \/ RequestBackup(r)
                      \/ ScriptStep(r)
    \/ Publish \/ StartByHand \/ Crash \/ LockExpires

Spec == Init /\ [][Next]_vars

\* Every command of a script returns, with success or with an error.
FairSpec == Spec /\ \A r \in Run : WF_vars(ScriptStep(r))
-----------------------------------------------------------------------------
\* The folders, the database and the runs keep their types.
TypeOK ==
    /\ app \in Trees /\ db \in Schemas
    /\ releases \in [Versions -> Trees] /\ latest \in Releases
    /\ up \in BOOLEAN /\ (up => app \in Releases)
    /\ lock \in Run \cup {"free", "left", "expired"}
    /\ status \in Busy \cup Told
    /\ run \in [Run -> [pc : Steps, entry : AllEntries, version : Versions, found : Versions,
                        target : Versions, prev : Versions \cup {Gone}, dump : Schemas \cup {None}, marks : SUBSET Marks]]
    /\ cuts \in 0..MaxCuts

\* Never do two runs stop, move and start the application at once, whatever was
\* refused, failed or cut off before.
Working(r) == run[r].pc \notin {"off", "start", "test", "lock", "leave"}
OnePipeline == \A r, s \in Run : Working(r) /\ Working(s) => r = s

\* An update that found one release running, and still found it when it had the
\* lock, fails, and its own recovery meets no further failure.  Then the release it
\* found is running on the schema it found; or what was already in releases\ under
\* that number, not all of it perhaps, was put over it, on that schema; or the new
\* release had passed its health check and is running on its own schema.
FailedUpdateRestores ==
    \A r \in Run :
       At(r, "failed") /\ Updating(r) /\ "sound" \in run[r].marks /\ "stuck" \notin run[r].marks
          => \/ db = run[r].found /\ app = run[r].found /\ up
             \/ db = run[r].found /\ app = releases[run[r].found] /\ app # run[r].found
             \/ db = run[r].target /\ app = run[r].target /\ up /\ "healthy" \in run[r].marks

\* While the power stays on and every script can write its status, a status that
\* says a run is under way is followed by one that says how it ended: the page that
\* polls it comes to an end.
StatusSettles ==
    (status \in Busy /\ cuts = 0) ~> (status \in Told \/ cuts > 0)
=============================================================================
