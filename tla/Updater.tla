------------------------------ MODULE Updater ------------------------------
(***************************************************************************)
(* The Docker updater: server.sh, update.sh, rollback.sh and backup.sh in  *)
(* the updater container, over one checkout of the project, its images,    *)
(* its running containers and its database.                                *)
(*                                                                         *)
(* A run is one execution of a script, from the HTTP endpoint of server.sh *)
(* (a background child that writes its pid into the lock file) or from the *)
(* Makefile.  Each command of a script that changes something is one step; *)
(* every command may fail.  The container may be restarted at any moment,  *)
(* which ends all runs and leaves the files.                               *)
(*                                                                         *)
(* A version is the number of a commit on the branch.  A checkout, an      *)
(* image, the running containers and the schema of the database are known  *)
(* by the version they are of.  Log files and health retries are left out. *)
(***************************************************************************)
EXTENDS Integers, Sequences, SequencesExt

CONSTANTS
    Run,            \* ids of runs: bounds how many are alive at a time
    LastVersion,    \* the newest commit that is ever pushed
    ScriptChanges,  \* versions whose commit changes apps/updater/
    MaxBackups,     \* MAX_BACKUPS of backup.sh
    MaxDumps,       \* bounds how many files failing backups pile up in /app/backups
    Restarts,       \* may the container be restarted?
    Entries,        \* how runs are started
    Overlap         \* may a run start while another is between test and lock?

AllEntries == {"server update", "server rollback", "make update", "make rollback"}
Versions == 1..LastVersion

ASSUME UpdaterNumbers ==
    /\ LastVersion \in Nat \ {0}
    /\ MaxBackups \in Nat \ {0} /\ MaxDumps \in Nat /\ MaxBackups <= MaxDumps
    /\ ScriptChanges \subseteq Versions
    /\ Entries \subseteq AllEntries /\ Overlap \in BOOLEAN /\ Restarts \in BOOLEAN

VARIABLES
    remote,    \* the newest commit on origin/$BRANCH
    head,      \* the commit the project is checked out at
    image,     \* the commit the api and web images were last built from
    running,   \* the commit the running containers were built from
    db,        \* the schema of the database, or NoDb, or EmptyDb
    backups,   \* what the .dump files of /app/backups hold, oldest first
    lock,      \* whose pid /tmp/update.lock holds
    status,    \* "status" of update-status.json
    run        \* what each script is doing

files == <<head, image, running, db, backups>>
vars == <<remote, files, lock, status, run>>
-----------------------------------------------------------------------------
EmptyDb == 0
NoDb == -1
Torn == -2   \* in a file: the beginning of a dump
None == 0    \* no commit, no file
Gone == -1   \* the path of a file that is not there

\* The lock names the background child of server.sh, or update.sh itself, or a
\* process that is gone.
Free == [by |-> "nobody"]
Stale == [by |-> "dead"]
Child(r) == [by |-> "child", run |-> r]
Script(r) == [by |-> "script", run |-> r]

\* Marks: SELF_UPDATED, the EXIT trap that removes the lock, IMAGES_BUILT and
\* DB_CHANGED of update.sh; and, for the properties alone, whether the run found
\* the installation in one version and no command of its rollback has failed, and
\* whether its rollback had no dump to restore.
Marks == {"self", "owns", "built", "changed", "sound", "nodump"}

Steps == {"off", "child", "check", "create", "preflight", "backup", "pull", "scripts", "resume",
          "build", "push", "up", "health", "undo", "drop", "createdb", "restore", "rebuild",
          "reup", "undone", "target", "exit"}

Off == [pc |-> "off", entry |-> "make update", marks |-> {}, point |-> None, dump |-> None]

\* A run at a step; point is ROLLBACK_COMMIT or TARGET_COMMIT, dump the place of
\* BACKUP_FILE among the backups, or None, or Gone.
RunAt(pc, entry, marks, point, dump) ==
    [pc |-> pc, entry |-> entry, marks |-> marks, point |-> point, dump |-> dump]

Alive(r) == run[r].pc # "off"
ByServer(r) == run[r].entry \in {"server update", "server rollback"}
Updating(r) == run[r].entry \in {"server update", "make update"}

\* kill -0 $lock_pid
Held == lock.by \in {"child", "script"}

\* $PPID of update.sh: the child of server.sh, or, once update.sh has re-executed
\* itself from the subshell of its pipeline, the first update.sh.
Parent(r) == IF "self" \in run[r].marks THEN Script(r)
             ELSE IF ByServer(r) THEN Child(r) ELSE [by |-> "make"]

Go(r, pc) == run' = [run EXCEPT ![r] = RunAt(pc, @.entry, @.marks, @.point, @.dump)]
GoWith(r, pc, mark) ==
    run' = [run EXCEPT ![r] = RunAt(pc, @.entry, @.marks \cup {mark}, @.point, @.dump)]

\* A command of the rollback has failed, and the next one follows.
GoOn(r, pc) ==
    run' = [run EXCEPT ![r] = RunAt(pc, @.entry, @.marks \ {"sound"}, @.point, @.dump)]

\* The script is done; its EXIT trap and its parent are left.
End(r) == run' = [run EXCEPT ![r] = RunAt("exit", @.entry, @.marks \cap {"owns"}, None, None)]

\* The run is at a step of its script.
At(r, pc) == run[r].pc = pc

\* How many of the oldest dumps backup.sh removes with a new one.
Surplus == IF Len(backups) < MaxBackups THEN 0 ELSE Len(backups) + 1 - MaxBackups

\* Mutant: nothing is ever removed.
RotatedNever(new) == Append(backups, new)

\* A backup that succeeds: a new dump, and the oldest beyond MAX_BACKUPS removed.
Rotated(new) == SubSeq(Append(backups, new), Surplus + 1, Len(backups) + 1)

\* Where a named file is afterwards.
Moved(file) == IF file > Surplus THEN file - Surplus ELSE IF file > 0 THEN Gone ELSE file
AfterRotation == [r \in Run |-> [run[r] EXCEPT !.dump = Moved(@)]]

\* set -eo pipefail ends a backup at the first command that fails: nothing is
\* removed, and what was written stays, part of a dump when the first pg_dump
\* fails, a whole one when the SQL dump does.
LeftBehind ==
    {backups} \cup {Append(backups, new) :
                       new \in IF Len(backups) < MaxDumps THEN {Torn, db} \ {NoDb} ELSE {}}

\* [ -f "$BACKUP_FILE" ], and whether pg_restore can read it.
Present(r) == run[r].dump \in DOMAIN backups
Restorable(r) == Present(r) /\ backups[run[r].dump] # Torn

OneVersion == head = image /\ image = running /\ running = db
-----------------------------------------------------------------------------
\* Between the test of the lock and its writing.
Quiet == Overlap \/ \A v \in Run : run[v].pc \notin {"child", "check", "create"}

\* Mutant: the endpoint does not look at the lock.
RequestUpdateUnchecked(r, entry) ==
    /\ entry = "server update" /\ entry \in Entries
    /\ ~Alive(r) /\ Quiet
    /\ run' = [run EXCEPT ![r] = RunAt("child", entry, {}, None, None)]
    /\ UNCHANGED <<remote, files, lock, status>>

\* handle_update: 409 while the lock's process lives, and a stale lock is removed.
RequestUpdate(r, entry) ==
    /\ entry = "server update" /\ entry \in Entries
    /\ ~Alive(r) /\ Quiet
    /\ ~Held
    /\ lock' = Free
    /\ run' = [run EXCEPT ![r] = RunAt("child", entry, {}, None, None)]
    /\ UNCHANGED <<remote, files, status>>

\* handle_rollback; a stale lock stays.
RequestRollback(r, entry) ==
    /\ entry = "server rollback" /\ entry \in Entries
    /\ ~Alive(r) /\ Quiet
    /\ ~Held
    /\ run' = [run EXCEPT ![r] = RunAt("child", entry, {}, None, None)]
    /\ UNCHANGED <<remote, files, lock, status>>

\* make update runs update.sh, make rollback runs rollback.sh, which knows no lock.
Make(r, entry) ==
    /\ entry \in Entries \cap {"make update", "make rollback"}
    /\ ~Alive(r) /\ Quiet
    /\ run' = [run EXCEPT ![r] =
                 RunAt(IF entry = "make update" THEN "check" ELSE "target", entry, {}, None, None)]
    /\ UNCHANGED <<remote, files, lock, status>>

\* echo $BASHPID > "$UPDATE_LOCK", whatever is in it by now.
WriteLock(r) ==
    /\ At(r, "child")
    /\ lock' = Child(r)
    /\ Go(r, IF Updating(r) THEN "check" ELSE "target")
    /\ UNCHANGED <<remote, files, status>>

\* Mutant: wait for the lock instead of giving up.
CheckLockWaits(r) ==
    /\ At(r, "check")
    /\ \/ Held /\ lock = Parent(r) /\ UNCHANGED lock
       \/ ~Held /\ lock' = Free
    /\ Go(r, "create")
    /\ UNCHANGED <<remote, files, status>>

\* update.sh, the concurrent update protection: go on under a lock that is its
\* parent's, remove a stale one, refuse any other.
CheckLock(r) ==
    /\ At(r, "check")
    /\ \/ Held /\ lock # Parent(r) /\ End(r) /\ UNCHANGED lock
       \/ Held /\ lock = Parent(r) /\ Go(r, "create") /\ UNCHANGED lock
       \/ ~Held /\ lock' = Free /\ Go(r, "create")
    /\ UNCHANGED <<remote, files, status>>

\* Create the lock if there is none; then the first step, or where the re-executed
\* script goes on.
CreateLock(r) ==
    LET next == IF "self" \in run[r].marks THEN "resume" ELSE "preflight" IN
    /\ At(r, "create")
    /\ \/ lock = Free /\ lock' = Script(r) /\ GoWith(r, next, "owns")
       \/ lock # Free /\ Go(r, next) /\ UNCHANGED lock
    /\ UNCHANGED <<remote, files, status>>
-----------------------------------------------------------------------------
\* A command of the pipeline fails: rollback, unless nothing has started.
Abort(r, from) ==
    /\ At(r, from)
    /\ status' = "rolling_back"
    /\ Go(r, "undo")

\* Step 1: status, git stash, disk space.
Preflight(r) ==
    /\ At(r, "preflight")
    /\ status' = "running"
    /\ run' = [run EXCEPT ![r] =
                 RunAt("backup", @.entry, @.marks \cup (IF OneVersion THEN {"sound"} ELSE {}),
                       None, None)]
    /\ UNCHANGED <<remote, files, lock>>

\* Steps 2 and 3: dump, and the commit to go back to.
BackupDatabase(r) ==
    /\ At(r, "backup") /\ db # NoDb
    /\ backups' = Rotated(db)
    /\ run' = [AfterRotation EXCEPT ![r] =
                 RunAt("pull", @.entry, @.marks, head, Len(Rotated(db)))]
    /\ UNCHANGED <<remote, head, image, running, db, lock, status>>

\* Step 4: git pull.
Pull(r) ==
    /\ At(r, "pull")
    /\ head' = remote
    /\ Go(r, "scripts")
    /\ UNCHANGED <<remote, image, running, db, backups, lock, status>>

\* Step 5: when the pulled commits change apps/updater/, copy the scripts and
\* exec update.sh --self-updated; the EXIT trap is lost with the shell.
ScriptsChanged(from, to) == \E v \in ScriptChanges : from < v /\ v <= to

CheckScripts(r) ==
    /\ At(r, "scripts")
    /\ \/ ScriptsChanged(run[r].point, head)
          /\ run' = [run EXCEPT ![r] =
                       RunAt("check", @.entry, (@.marks \ {"owns"}) \cup {"self"}, @.point, @.dump)]
       \/ ~ScriptsChanged(run[r].point, head) /\ Go(r, "build")
    /\ UNCHANGED <<remote, files, lock, status>>

\* The re-executed script restores the exported state.
Resume(r) ==
    /\ At(r, "resume")
    /\ status' = "running"
    /\ Go(r, "build")
    /\ UNCHANGED <<remote, files, lock>>

\* Mutant: the result of the build is not looked at.
BuildUnchecked(r) ==
    /\ At(r, "build")
    /\ image' \in {image, head} /\ GoWith(r, "push", "built")
    /\ UNCHANGED <<remote, head, running, db, backups, lock, status>>

\* Step 6: docker compose build; a failing build may have built one image.
Build(r) ==
    /\ At(r, "build")
    /\ \/ image' = head /\ GoWith(r, "push", "built") /\ UNCHANGED status
       \/ image' \in {image, head} /\ Abort(r, "build")
    /\ UNCHANGED <<remote, head, running, db, backups, lock>>

\* Mutant: DB_CHANGED is not set.
PushSchemaUnmarked(r) ==
    /\ At(r, "push")
    /\ db' = image
    /\ Go(r, "up")
    /\ UNCHANGED <<remote, head, image, running, backups, lock, status>>

\* Step 7: prisma db push from the new image; it refuses to lose data.
PushSchema(r) ==
    /\ At(r, "push")
    /\ db' = image
    /\ GoWith(r, "up", "changed")
    /\ UNCHANGED <<remote, head, image, running, backups, lock, status>>

\* Step 8: docker compose up --force-recreate; it may fail half-way.
RestartServices(r) ==
    /\ At(r, "up")
    /\ \/ running' = image /\ Go(r, "health") /\ UNCHANGED status
       \/ running' \in {running, image} /\ Abort(r, "up")
    /\ UNCHANGED <<remote, head, image, db, backups, lock>>

\* Steps 9 and 10: the services answer on /health, the update is complete.
Healthy(r) ==
    /\ At(r, "health")
    /\ status' = "success"
    /\ End(r)
    /\ UNCHANGED <<remote, files, lock>>

\* The disk is full, no dump, no pull, a refused schema, no answer within 30
\* seconds: only a failing backup leaves anything behind.
Fail(r) ==
    /\ Updating(r)
    /\ \E pc \in {"preflight", "backup", "pull", "push", "health"} : Abort(r, pc)
    /\ backups' \in IF At(r, "backup") THEN LeftBehind ELSE {backups}
    /\ UNCHANGED <<remote, head, image, running, db, lock>>
-----------------------------------------------------------------------------
\* rollback() of update.sh.  A failing command is logged and the rest is done.
RestoresDb(r) == "changed" \in run[r].marks /\ Present(r)

AfterDb(r) == IF "built" \in run[r].marks THEN "rebuild" ELSE "undone"

\* git reset --hard, if there is a commit to go back to; then the database, if it
\* was changed and the dump has not been rotated away meanwhile.
UndoGit(r) ==
    LET next == IF RestoresDb(r) THEN "drop" ELSE AfterDb(r)
        lost == IF "changed" \in run[r].marks /\ ~Present(r) THEN {"nodump"} ELSE {}
        Then(marks) == run' = [run EXCEPT ![r] = RunAt(next, @.entry, marks \cup lost, @.point, @.dump)]
    IN
    /\ At(r, "undo")
    /\ \/ run[r].point # None /\ head' = run[r].point /\ Then(run[r].marks)
       \/ run[r].point = None /\ Then(run[r].marks) /\ UNCHANGED head
       \/ run[r].point # None /\ Then(run[r].marks \ {"sound"}) /\ UNCHANGED head
    /\ UNCHANGED <<remote, image, running, db, backups, lock, status>>

\* DROP DATABASE
UndoDrop(r) ==
    /\ At(r, "drop") /\ Updating(r)
    /\ \/ db' = NoDb /\ Go(r, "createdb")
       \/ GoOn(r, AfterDb(r)) /\ UNCHANGED db
    /\ UNCHANGED <<remote, head, image, running, backups, lock, status>>

\* CREATE DATABASE
UndoCreate(r) ==
    /\ At(r, "createdb") /\ Updating(r)
    /\ \/ db' = EmptyDb /\ Go(r, "restore")
       \/ GoOn(r, AfterDb(r)) /\ UNCHANGED db
    /\ UNCHANGED <<remote, head, image, running, backups, lock, status>>

\* pg_restore; a dump that is gone by now fails like any other error.
UndoRestore(r) ==
    /\ At(r, "restore") /\ Updating(r)
    /\ \/ Restorable(r) /\ db' = backups[run[r].dump] /\ Go(r, AfterDb(r))
       \/ GoOn(r, AfterDb(r)) /\ UNCHANGED db
    /\ UNCHANGED <<remote, head, image, running, backups, lock, status>>

\* docker compose build || true
UndoBuild(r) ==
    /\ At(r, "rebuild") /\ Updating(r)
    /\ \/ image' = head /\ Go(r, "reup")
       \/ image' \in {image, head} /\ GoOn(r, "reup")
    /\ UNCHANGED <<remote, head, running, db, backups, lock, status>>

\* docker compose up -d || true
UndoUp(r) ==
    /\ At(r, "reup") /\ Updating(r)
    /\ \/ running' = image /\ Go(r, "undone")
       \/ running' \in {running, image} /\ GoOn(r, "undone")
    /\ UNCHANGED <<remote, head, image, db, backups, lock, status>>

\* Whatever happened, the rollback is complete.
Undone(r) ==
    /\ At(r, "undone")
    /\ status' = "rollback_complete"
    /\ End(r)
    /\ UNCHANGED <<remote, files, lock>>
-----------------------------------------------------------------------------
\* rollback.sh, to the commit and the file that the body of the request named (the
\* file may be gone by now): by default one commit back, and the latest dump of any
\* kind.  Without a file the database is left.
Target(r, commit, dump) ==
    LET target == IF commit # None THEN commit ELSE head - 1
        file == IF dump # None THEN dump ELSE Len(backups)
    IN
    /\ At(r, "target")
    /\ ByServer(r) \/ (commit = None /\ dump = None)
    /\ target # None
    /\ head' = target
    /\ status' = "rolling_back"
    /\ run' = [run EXCEPT ![r] = RunAt(IF file \in DOMAIN backups THEN "drop" ELSE "rebuild",
                                       @.entry, @.marks, target, file)]
    /\ UNCHANGED <<remote, image, running, db, backups, lock>>

RollbackDatabase(r) ==
    /\ ~Updating(r)
    /\ \/ At(r, "drop") /\ db' = NoDb /\ Go(r, "createdb")
       \/ At(r, "createdb") /\ db' = EmptyDb /\ Go(r, "restore")
       \/ At(r, "restore") /\ Restorable(r) /\ db' = backups[run[r].dump] /\ Go(r, "rebuild")
    /\ UNCHANGED <<remote, head, image, running, backups, lock, status>>

RollbackServices(r) ==
    /\ ~Updating(r)
    /\ \/ At(r, "rebuild") /\ image' = head /\ Go(r, "reup") /\ UNCHANGED running
       \/ At(r, "reup") /\ running' = image /\ Go(r, "health") /\ UNCHANGED image
    /\ UNCHANGED <<remote, head, db, backups, lock, status>>

\* Every failure of rollback.sh is told and ends it: no commit to go back to, a
\* failing git, database, build or restart; and a warning when nobody answers.
RollbackFails(r) ==
    /\ ~Updating(r)
    /\ \/ /\ \E pc \in {"target", "drop", "createdb", "restore", "rebuild", "reup"} : At(r, pc)
          /\ status' = "error"
       \/ At(r, "health") /\ status' = "warning"
    /\ image' \in IF At(r, "rebuild") THEN {image, head} ELSE {image}
    /\ running' \in IF At(r, "reup") THEN {running, image} ELSE {running}
    /\ End(r)
    /\ UNCHANGED <<remote, head, db, backups, lock>>
-----------------------------------------------------------------------------
\* The script has ended: its EXIT trap, or the child of server.sh, removes the
\* lock file, whoever holds it by now.
Exit(r) ==
    /\ At(r, "exit")
    /\ lock' = IF ByServer(r) \/ "owns" \in run[r].marks THEN Free
               ELSE IF lock = Script(r) THEN Stale ELSE lock
    /\ run' = [run EXCEPT ![r] = Off]
    /\ UNCHANGED <<remote, files, status>>

\* crond runs backup.sh every day at 17:00 and asks for no lock; so does make
\* backup, and POST /backup does when the lock is free.  One that is killed with
\* the container has failed.
ScheduledBackup ==
    /\ \/ db # NoDb /\ backups' = Rotated(db) /\ run' = AfterRotation
       \/ backups' \in LeftBehind /\ UNCHANGED run
    /\ UNCHANGED <<remote, head, image, running, db, lock, status>>

\* Somebody pushes a commit to the branch.
PushCommit ==
    /\ remote < LastVersion
    /\ remote' = remote + 1
    /\ UNCHANGED <<files, lock, status, run>>

\* The container is restarted: the runs are gone, the files stay.
RestartUpdater ==
    /\ Restarts
    /\ run' = [r \in Run |-> Off]
    /\ lock' = IF lock = Free THEN Free ELSE Stale
    /\ UNCHANGED <<remote, files, status>>

Init ==
    /\ remote = 1 /\ head = 1 /\ image = 1 /\ running = 1 /\ db = 1
    /\ backups = <<>>
    /\ lock = Free /\ status = "idle"
    /\ run = [r \in Run |-> Off]

Start(r) ==
    \E entry \in Entries : RequestUpdate(r, entry) \/ RequestRollback(r, entry) \/ Make(r, entry)

ScriptStep(r) ==
    \/ WriteLock(r) \/ CheckLock(r) \/ CreateLock(r)
    \/ Preflight(r) \/ BackupDatabase(r) \/ Pull(r) \/ CheckScripts(r) \/ Resume(r)
    \/ Build(r) \/ PushSchema(r) \/ RestartServices(r) \/ Healthy(r) \/ Fail(r)
    \/ UndoGit(r) \/ UndoDrop(r) \/ UndoCreate(r) \/ UndoRestore(r)
    \/ UndoBuild(r) \/ UndoUp(r) \/ Undone(r)
    \/ \E commit \in 0..head, dump \in Gone..Len(backups) : Target(r, commit, dump)
    \/ RollbackDatabase(r) \/ RollbackServices(r) \/ RollbackFails(r)
    \/ Exit(r)

Next ==
    \/ \E r \in Run : Start(r) \/ ScriptStep(r)
    \/ ScheduledBackup \/ PushCommit \/ RestartUpdater

Spec == Init /\ [][Next]_vars

\* Every command of a script returns, with success or with an error.
FairSpec == Spec /\ \A r \in Run : WF_vars(ScriptStep(r))
-----------------------------------------------------------------------------
Busy == {"running", "rolling_back"}
Told == {"idle", "success", "error", "warning", "rollback_complete"}

\* The files and the runs keep their types; failing backups apart, no dumps pile up.
TypeOK ==
    /\ remote \in Versions /\ head \in Versions /\ image \in Versions /\ running \in Versions
    /\ db \in Versions \cup {EmptyDb, NoDb}
    /\ backups \in Seq(Versions \cup {EmptyDb, Torn}) /\ Len(backups) <= MaxDumps
    /\ lock \in {Free, Stale} \cup [by : {"child", "script"}, run : Run]
    /\ status \in Busy \cup Told
    /\ run \in [Run -> [pc : Steps, entry : AllEntries, marks : SUBSET Marks,
                        point : 0..LastVersion, dump : Gone..MaxDumps]]

InPipeline(r) == run[r].pc \notin {"off", "child", "check", "create", "exit"}

\* Two pipelines never work on the project at once, whatever was refused,
\* re-executed, failed or killed before.
OnePipeline == \A r, s \in Run : InPipeline(r) /\ InPipeline(s) => r = s

\* A rollback whose own commands all succeed leaves an installation that the
\* update found in one version in that version, checkout and containers wherever the
\* pipeline failed, and the schema too unless nightly backups had rotated the dump
\* away before the rollback looked for it.
RollbackRestores ==
    \A r \in Run :
       At(r, "undone") /\ "sound" \in run[r].marks
          => /\ head = running
             /\ running = db \/ "nodump" \in run[r].marks
             /\ run[r].point # None => head = run[r].point

\* When an update reports success, checkout, images, containers and schema are of
\* one version.
SuccessStep ==
    \A r \in Run :
       At(r, "health") /\ Updating(r) /\ run'[r].pc = "exit" /\ status' = "success" => OneVersion
SuccessIsWhole == [][SuccessStep]_vars

\* Every run ends: none waits for a lock that its own ancestor holds.
EveryRunEnds == \A r \in Run : Alive(r) ~> ~Alive(r)

\* Once no script runs, the status the page polls says how the last one ended.
OutcomeIsTold == (\A r \in Run : ~Alive(r)) => status \in Told

=============================================================================
