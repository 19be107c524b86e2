---------------------------- MODULE UpdaterProofs ----------------------------
(***************************************************************************)
(* When no run starts between the test of the lock and its writing by      *)
(* another, and nobody uses "make rollback", which knows no lock, two      *)
(* pipelines never work on the project at once, a success is whole, and a  *)
(* rollback puts back what the update found, as far as the dump is still   *)
(* there: for any number of runs, versions, dumps, restarts, nightly       *)
(* backups and self-updates.  The types hold whatever overlaps.            *)
(***************************************************************************)
EXTENDS Updater, SequenceTheorems, TLAPS

\* The same types, by named parts.
Runs == [pc : Steps, entry : AllEntries, marks : SUBSET Marks,
         point : 0..LastVersion, dump : Gone..MaxDumps]
RunsTyped == run \in [Run -> Runs]
FilesTyped == /\ head \in Versions /\ image \in Versions /\ running \in Versions
              /\ db \in Versions \cup {EmptyDb, NoDb}
Dumps == Versions \cup {EmptyDb, Torn}
BackupsTyped == backups \in Seq(Dumps) /\ Len(backups) <= MaxDumps
LockTyped == lock \in {Free, Stale} \cup [by : {"child", "script"}, run : Run]
Rest == remote \in Versions /\ status \in Busy \cup Told
Typed == RunsTyped /\ FilesTyped /\ BackupsTyped /\ LockTyped /\ Rest

LEMMA TypedIsTypeOK == Typed => TypeOK
BY DEF Typed, TypeOK, Runs, RunsTyped, FilesTyped, BackupsTyped, Dumps, LockTyped, Rest

\* A run that has not yet come to the lock, the two forms in which its lock names
\* it, and whether the lock is its own.
Fresh(r) == run[r].pc \in {"child", "check", "create"} /\ "self" \notin run[r].marks
Mine(r) == {Child(r), Script(r)}
Owner(r) == /\ run[r].pc # "off" /\ ~Fresh(r)
            /\ run[r].pc = "exit" => ByServer(r) \/ "owns" \in run[r].marks

Locks ==
    /\ \A r, s \in Run : Fresh(r) /\ Fresh(s) => r = s
    /\ \A r \in Run : Owner(r) => lock \in Mine(r)
    /\ \A r \in Run : run[r].pc = "child" => ~Held /\ "self" \notin run[r].marks
    /\ \A r \in Run : Fresh(r) /\ run[r].pc = "check" /\ ByServer(r) => lock = Child(r)
    /\ \A r \in Run : Fresh(r) /\ run[r].pc = "create" => lock \in {Free} \cup Mine(r)

LEMMA Names ==
  /\ \A r, s \in Run : Child(r) # Script(s) /\ (Child(r) = Child(s) => r = s)
                       /\ (Script(r) = Script(s) => r = s)
  /\ \A r \in Run : Free \notin Mine(r) /\ Stale \notin Mine(r)
  /\ \A r \in Run : [by |-> "make"] \notin Mine(r)
  /\ Free # Stale
<1>1. \A r \in Run : Child(r).by = "child" /\ Script(r).by = "script" /\ Child(r).run = r /\ Script(r).run = r
  BY DEF Child, Script
<1>2. Free.by = "nobody" /\ Stale.by = "dead" /\ [by |-> "make"].by = "make"
  BY DEF Free, Stale
<1>3. QED BY <1>1, <1>2 DEF Mine

LEMMA HeldNames ==
  /\ (lock \in {Free, Stale} => ~Held)
  /\ \A r \in Run : lock \in Mine(r) => Held
  /\ (LockTyped /\ Held => \E r \in Run : lock \in Mine(r))
<1>1. lock \in {Free, Stale} => ~Held
  BY DEF Free, Stale, Held
<1>2. \A r \in Run : lock \in Mine(r) => Held
  BY DEF Mine, Child, Script, Held
<1>3. ASSUME LockTyped, Held PROVE \E r \in Run : lock \in Mine(r)
  <2>1. lock \in [by : {"child", "script"}, run : Run]
    BY <1>1, <1>3 DEF LockTyped
  <2>2. PICK b \in {"child", "script"}, r \in Run : lock = [by |-> b, run |-> r]
    BY <2>1
  <2>3. QED BY <2>2 DEF Mine, Child, Script
<1>4. QED BY <1>1, <1>2, <1>3

LEMMA MineTyped == \A r \in Run : Child(r) \in [by : {"child", "script"}, run : Run]
                                  /\ Script(r) \in [by : {"child", "script"}, run : Run]
BY DEF Child, Script

LEMMA MineNames == \A r, s \in Run : lock \in Mine(r) /\ lock \in Mine(s) => r = s
BY Names DEF Mine

\* The run a step belongs to, and the others.
Same(r) == \A s \in Run \ {r} : run'[s] = run[s]

\* A rotation may take their dumps away from the others.
Alike(r) == \A s \in Run \ {r} : /\ run'[s].pc = run[s].pc /\ run'[s].entry = run[s].entry
                                  /\ run'[s].marks = run[s].marks

LEMMA SameIsAlike == \A r \in Run : Same(r) => Alike(r)
BY DEF Same, Alike

LEMMA PutRun ==
  ASSUME RunsTyped, NEW r \in Run, NEW pc \in Steps, NEW entry \in AllEntries, NEW marks \in SUBSET Marks,
         NEW point \in 0..LastVersion, NEW dump \in Gone..MaxDumps,
         run' = [run EXCEPT ![r] = RunAt(pc, entry, marks, point, dump)]
  PROVE  /\ RunsTyped' /\ Same(r) /\ run'[r].pc = pc /\ run'[r].entry = entry
         /\ run'[r].marks = marks /\ run'[r].point = point /\ run'[r].dump = dump
<1>1. RunAt(pc, entry, marks, point, dump) \in Runs
  BY DEF RunAt, Runs
<1>2. run'[r] = RunAt(pc, entry, marks, point, dump) /\ Same(r) /\ RunsTyped'
  BY <1>1 DEF RunsTyped, Same
<1>3. QED BY <1>2 DEF RunAt

LEMMA OneRun ==
  ASSUME RunsTyped, NEW r \in Run, NEW q \in Runs, run' = [run EXCEPT ![r] = q]
  PROVE  RunsTyped' /\ Same(r) /\ run'[r] = q
BY DEF RunsTyped, Same

LEMMA GoRun ==
  ASSUME RunsTyped, NEW r \in Run, NEW pc \in Steps, Go(r, pc)
  PROVE  /\ RunsTyped' /\ Same(r) /\ run'[r].pc = pc /\ run'[r].entry = run[r].entry
         /\ run'[r].marks = run[r].marks /\ run'[r].point = run[r].point
         /\ run'[r].dump = run[r].dump
<1> DEFINE q == RunAt(pc, run[r].entry, run[r].marks, run[r].point, run[r].dump)
<1>1. run[r] \in Runs BY DEF RunsTyped
<1>2. q \in Runs /\ q.pc = pc /\ q.entry = run[r].entry /\ q.marks = run[r].marks
      /\ q.point = run[r].point /\ q.dump = run[r].dump
  BY <1>1 DEF RunAt, Runs
<1>3. run' = [run EXCEPT ![r] = q] BY DEF Go
<1> HIDE DEF q
<1>4. QED BY <1>2, <1>3, OneRun

LEMMA GoWithRun ==
  ASSUME RunsTyped, NEW r \in Run, NEW pc \in Steps, NEW mark \in Marks, GoWith(r, pc, mark)
  PROVE  /\ RunsTyped' /\ Same(r) /\ run'[r].pc = pc /\ run'[r].entry = run[r].entry
         /\ run'[r].marks = run[r].marks \cup {mark} /\ run'[r].point = run[r].point
         /\ run'[r].dump = run[r].dump
<1> DEFINE q == RunAt(pc, run[r].entry, run[r].marks \cup {mark}, run[r].point, run[r].dump)
<1>1. run[r] \in Runs BY DEF RunsTyped
<1>2. q \in Runs /\ q.pc = pc /\ q.entry = run[r].entry /\ q.marks = run[r].marks \cup {mark}
      /\ q.point = run[r].point /\ q.dump = run[r].dump
  BY <1>1 DEF RunAt, Runs
<1>3. run' = [run EXCEPT ![r] = q] BY DEF GoWith
<1> HIDE DEF q
<1>4. QED BY <1>2, <1>3, OneRun

LEMMA GoOnRun ==
  ASSUME RunsTyped, NEW r \in Run, NEW pc \in Steps, GoOn(r, pc)
  PROVE  /\ RunsTyped' /\ Same(r) /\ run'[r].pc = pc /\ run'[r].entry = run[r].entry
         /\ run'[r].marks = run[r].marks \ {"sound"} /\ run'[r].point = run[r].point
         /\ run'[r].dump = run[r].dump
<1> DEFINE q == RunAt(pc, run[r].entry, run[r].marks \ {"sound"}, run[r].point, run[r].dump)
<1>1. run[r] \in Runs BY DEF RunsTyped
<1>2. q \in Runs /\ q.pc = pc /\ q.entry = run[r].entry /\ q.marks = run[r].marks \ {"sound"}
      /\ q.point = run[r].point /\ q.dump = run[r].dump
  BY <1>1 DEF RunAt, Runs
<1>3. run' = [run EXCEPT ![r] = q] BY DEF GoOn
<1> HIDE DEF q
<1>4. QED BY <1>2, <1>3, OneRun

LEMMA EndRun ==
  ASSUME RunsTyped, NEW r \in Run, End(r)
  PROVE  /\ RunsTyped' /\ Same(r) /\ run'[r].pc = "exit" /\ run'[r].entry = run[r].entry
         /\ run'[r].marks = run[r].marks \cap {"owns"}
<1> DEFINE q == RunAt("exit", run[r].entry, run[r].marks \cap {"owns"}, None, None)
<1>1. run[r] \in Runs /\ None \in 0..LastVersion /\ None \in Gone..MaxDumps
  BY UpdaterNumbers DEF RunsTyped, None, Gone
<1>2. q \in Runs /\ q.pc = "exit" /\ q.entry = run[r].entry /\ q.marks = run[r].marks \cap {"owns"}
  BY <1>1 DEF RunAt, Runs, Steps
<1>3. run' = [run EXCEPT ![r] = q] BY DEF End
<1> HIDE DEF q
<1>4. QED BY <1>2, <1>3, OneRun

LEMMA Bounds == /\ 1 \in Versions /\ Versions \subseteq 0..LastVersion /\ 0 \in 0..LastVersion
                /\ 0 \notin Versions /\ None = 0 /\ EmptyDb = 0
                /\ \A v \in 0..LastVersion : v # 0 => v \in Versions
                /\ None \in Gone..MaxDumps
BY UpdaterNumbers DEF Versions, None, EmptyDb, Gone

\* What backup.sh leaves is a sequence of dumps within the bound, and at least one
\* dump after a success, the one just made.
LEMMA RotatedTyped ==
  ASSUME BackupsTyped, NEW d \in Versions \cup {EmptyDb}
  PROVE  /\ Rotated(d) \in Seq(Dumps) /\ Len(Rotated(d)) <= MaxDumps
         /\ Len(Rotated(d)) \in 1..MaxDumps /\ Rotated(d)[Len(Rotated(d))] = d
         /\ Surplus \in Nat /\ Len(Rotated(d)) = Len(backups) + 1 - Surplus
         /\ \A i \in 1..Len(Rotated(d)) : Rotated(d)[i] = Append(backups, d)[i + Surplus]
<1> DEFINE all == Append(backups, d)
           n == Len(backups)
<1>1. backups \in Seq(Dumps) /\ n \in Nat /\ d \in Dumps
  BY DEF BackupsTyped, Dumps
<1>2. all \in Seq(Dumps) /\ Len(all) = n + 1 /\ all[n + 1] = d
  BY <1>1
<1>3. /\ MaxBackups \in Nat \ {0} /\ MaxDumps \in Nat /\ MaxBackups <= MaxDumps
  BY UpdaterNumbers
<1>4. /\ Surplus \in Nat /\ Surplus <= n /\ n + 1 - Surplus <= MaxDumps
  <2>1. CASE n < MaxBackups
    BY <1>1, <1>3, <2>1 DEF Surplus
  <2>2. CASE ~(n < MaxBackups)
    BY <1>1, <1>3, <2>2 DEF Surplus
  <2>3. QED BY <2>1, <2>2
<1>5. Rotated(d) = SubSeq(all, Surplus + 1, n + 1)
  BY DEF Rotated
<1> HIDE DEF all, n
<1>6. /\ SubSeq(all, Surplus + 1, n + 1) \in Seq(Dumps)
      /\ Len(SubSeq(all, Surplus + 1, n + 1)) = n + 1 - Surplus
      /\ \A i \in 1..(n + 1 - Surplus) : SubSeq(all, Surplus + 1, n + 1)[i] = all[i + Surplus]
  <2>1. Surplus + 1 \in 1..Len(all) /\ n + 1 \in 1..Len(all) /\ n + 1 - (Surplus + 1) + 1 = n + 1 - Surplus
    BY <1>1, <1>2, <1>4
  <2>2. /\ SubSeq(all, Surplus + 1, n + 1) \in Seq(Dumps)
        /\ Len(SubSeq(all, Surplus + 1, n + 1)) = n + 1 - Surplus
    BY <1>1, <1>2, <1>4, <2>1, SubSeqProperties
  <2>3. ASSUME NEW i \in 1..(n + 1 - Surplus)
        PROVE  SubSeq(all, Surplus + 1, n + 1)[i] = all[i + Surplus]
    <3>1. Surplus + 1 + i - 1 = i + Surplus /\ Surplus + 1 <= n + 2
      BY <1>1, <1>4
    <3>2. SubSeq(all, Surplus + 1, n + 1)[i] = all[Surplus + 1 + i - 1]
      BY <1>1, <1>2, <1>4, <2>1, <3>1, SubSeqProperties
    <3>3. QED BY <3>1, <3>2
  <2>4. QED BY <2>2, <2>3
<1>7. n + 1 - Surplus \in 1..MaxDumps
  BY <1>1, <1>3, <1>4
<1>8. Rotated(d)[n + 1 - Surplus] = d
  <2>1. n + 1 - Surplus + Surplus = n + 1 /\ n + 1 - Surplus \in 1..(n + 1 - Surplus)
    BY <1>1, <1>4, <1>7
  <2>2. QED BY <1>2, <1>5, <1>6, <2>1
<1>9. QED BY <1>4, <1>5, <1>6, <1>7, <1>8 DEF all, n

\* A named file keeps its content over a rotation, or is gone.
LEMMA MovedKeeps ==
  ASSUME BackupsTyped, NEW d \in Versions \cup {EmptyDb}, NEW file \in Gone..MaxDumps
  PROVE  /\ Moved(file) \in Gone..MaxDumps
         /\ file = None => Moved(file) = None
         /\ file = Gone => Moved(file) = Gone
         /\ file \in 1..Len(backups) =>
               \/ Moved(file) = Gone
               \/ Moved(file) \in 1..Len(Rotated(d)) /\ Rotated(d)[Moved(file)] = backups[file]
<1>1. /\ Surplus \in Nat /\ Len(backups) \in Nat /\ MaxDumps \in Nat /\ file \in Int
      /\ Len(Rotated(d)) = Len(backups) + 1 - Surplus
      /\ \A i \in 1..Len(Rotated(d)) : Rotated(d)[i] = Append(backups, d)[i + Surplus]
  BY RotatedTyped, UpdaterNumbers DEF BackupsTyped, Gone
<1>2. Moved(file) \in Gone..MaxDumps
  BY <1>1 DEF Moved, Gone
<1>3. (file = None => Moved(file) = None) /\ (file = Gone => Moved(file) = Gone)
  BY <1>1 DEF Moved, Gone, None
<1>4. ASSUME file \in 1..Len(backups), file > Surplus
      PROVE  file - Surplus \in 1..Len(Rotated(d)) /\ Rotated(d)[file - Surplus] = backups[file]
  <2>1. file - Surplus \in 1..Len(Rotated(d)) /\ file - Surplus + Surplus = file
    BY <1>1, <1>4
  <2>2. Append(backups, d)[file] = backups[file]
    BY <1>4 DEF BackupsTyped
  <2>3. QED BY <1>1, <2>1, <2>2
<1>5. ASSUME file \in 1..Len(backups)
      PROVE \/ Moved(file) = Gone
            \/ Moved(file) \in 1..Len(Rotated(d)) /\ Rotated(d)[Moved(file)] = backups[file]
  <2>1. CASE file > Surplus
    BY <1>4, <1>5, <2>1 DEF Moved
  <2>2. CASE ~(file > Surplus)
    BY <1>5, <2>2 DEF Moved
  <2>3. QED BY <2>1, <2>2
<1>6. QED BY <1>2, <1>3, <1>5

\* A failing backup only adds.
LEMMA LeftTyped ==
  ASSUME BackupsTyped, FilesTyped, NEW left \in LeftBehind
  PROVE  /\ left \in Seq(Dumps) /\ Len(left) <= MaxDumps /\ Len(backups) <= Len(left)
         /\ \A i \in 1..Len(backups) : left[i] = backups[i]
<1>1. backups \in Seq(Dumps) /\ Len(backups) \in Nat /\ MaxDumps \in Nat
  BY UpdaterNumbers DEF BackupsTyped
<1>2. CASE left = backups
  BY <1>1, <1>2 DEF BackupsTyped
<1>3. CASE left # backups
  <2>1. PICK d \in {Torn, db} \ {NoDb} : left = Append(backups, d) /\ Len(backups) < MaxDumps
    BY <1>3 DEF LeftBehind
  <2>2. d \in Dumps
    BY DEF FilesTyped, Dumps
  <2>3. QED BY <1>1, <2>1, <2>2
<1>4. QED BY <1>2, <1>3

-----------------------------------------------------------------------------
\* What holds of a run: some steps are of updates only; a run on its way to the
\* lock, and one at its first step, carry no mark but that of their lock; what
\* the images, containers and schema are when the step before has succeeded.
UpdateSteps == {"check", "create", "preflight", "backup", "pull", "scripts", "resume", "build",
                "push", "up", "undo", "undone"}
Shape(r) ==
    /\ run[r].pc \in UpdateSteps => Updating(r)
    /\ Fresh(r) => run[r].marks = {}
    /\ run[r].pc = "preflight" => run[r].marks \subseteq {"owns"}
    /\ run[r].pc = "target" => ~Updating(r)
    /\ run[r].pc \in {"push", "up"} => image = head
    /\ run[r].pc = "up" => db = head
    /\ run[r].pc = "health" /\ Updating(r) => OneVersion

\* What an update that found one version, and whose rollback has met no failure,
\* can still go back to.
Marked(r, mark) == mark \in run[r].marks
Untouched(r) == ~Marked(r, "built") /\ ~Marked(r, "changed")
Point(r) ==
    /\ run[r].point # None
    /\ \/ run[r].dump = Gone
       \/ run[r].dump \in 1..Len(backups) /\ backups[run[r].dump] = run[r].point
WayBack(r) ==
    /\ run[r].pc = "backup" => OneVersion /\ run[r].point = None /\ Untouched(r)
    /\ run[r].pc = "pull" => OneVersion /\ Point(r) /\ run[r].point = head /\ Untouched(r)
    /\ run[r].pc \in {"scripts", "check", "create", "resume", "build"}
          => Point(r) /\ running = run[r].point /\ db = run[r].point /\ Untouched(r)
    /\ run[r].pc = "push" => Point(r) /\ db = run[r].point
    /\ run[r].pc \in {"up", "health"} => Point(r) /\ Marked(r, "changed")
    /\ run[r].pc \in {"push", "up", "health", "drop", "createdb", "restore", "rebuild", "reup"}
          => Marked(r, "built")
    /\ run[r].pc = "undo"
          => \/ run[r].point = None /\ OneVersion /\ Untouched(r)
             \/ /\ Point(r)
                /\ Marked(r, "changed") \/ db = run[r].point
                /\ Marked(r, "built") \/ (running = run[r].point /\ ~Marked(r, "changed"))
    /\ run[r].pc \in {"drop", "createdb", "restore", "rebuild", "reup"} => Point(r) /\ head = run[r].point
    /\ run[r].pc \in {"rebuild", "reup"} => db = run[r].point \/ Marked(r, "nodump")
    /\ run[r].pc = "reup" => image = head
    /\ run[r].pc = "undone" => /\ head = running
                               /\ running = db \/ Marked(r, "nodump")
                               /\ run[r].point # None => head = run[r].point

Sound(r) == Marked(r, "sound") /\ Updating(r)
Facts(r) == Shape(r) /\ (run[r].pc \notin {"off", "exit"} /\ Sound(r) => WayBack(r))

\* The entry that knows no lock is not in use.
Locked == "make rollback" \notin Entries

Orderly == Typed /\ Locks /\ \A r \in Run : Facts(r)

LEMMA OrderlyImplies == Orderly => OnePipeline /\ RollbackRestores
<1> SUFFICES ASSUME Orderly PROVE OnePipeline /\ RollbackRestores
  OBVIOUS
<1>1. ASSUME NEW r \in Run, InPipeline(r) PROVE lock \in Mine(r)
  BY <1>1 DEF Orderly, Locks, InPipeline, Owner, Fresh
<1>2. OnePipeline
  BY <1>1, MineNames DEF OnePipeline
<1>3. RollbackRestores
  BY DEF Orderly, Facts, Shape, WayBack, Sound, Marked, At, RollbackRestores, UpdateSteps
<1>4. QED BY <1>2, <1>3

\* A step of the pipeline leaves the lock alone, and the other runs but their dumps.
LEMMA PipelineStep ==
  ASSUME Orderly, NEW r \in Run, InPipeline(r), Alike(r), run'[r].pc \notin {"off", "child"},
         run'[r].pc \in {"check", "create"} => "self" \in run'[r].marks,
         lock' = lock, RunsTyped', FilesTyped', BackupsTyped', Rest', Facts(r)'
  PROVE  Orderly'
<1>1. Owner(r) /\ lock \in Mine(r) /\ Held
  BY HeldNames DEF Orderly, Locks, InPipeline, Owner, Fresh
<1>2. ~Fresh(r) /\ ~Fresh(r)'
  BY DEF InPipeline, Fresh
<1>3. \A s \in Run \ {r} : /\ ~Owner(s) /\ run'[s].pc = run[s].pc
                            /\ run'[s].entry = run[s].entry /\ run'[s].marks = run[s].marks
  BY <1>1, MineNames DEF Orderly, Locks, Alike
<1>4. \A s \in Run \ {r} : (Fresh(s)' <=> Fresh(s)) /\ (Owner(s)' <=> Owner(s)) /\ (ByServer(s)' <=> ByServer(s))
  BY <1>3 DEF Fresh, Owner, ByServer
<1>5. Locks'
  <2>1. \A s, t \in Run : Fresh(s)' /\ Fresh(t)' => s = t
    BY <1>2, <1>4 DEF Orderly, Locks
  <2>2. \A s \in Run : Owner(s)' => (lock \in Mine(s))'
    BY <1>1, <1>3, <1>4 DEF Mine, Child, Script
  <2>3. \A s \in Run : run'[s].pc = "child" => ~Held' /\ "self" \notin run'[s].marks
    BY <1>1, <1>3 DEF Orderly, Locks, Held
  <2>4. \A s \in Run : Fresh(s)' /\ run'[s].pc = "check" /\ ByServer(s)' => lock' = Child(s)
    BY <1>2, <1>3, <1>4 DEF Orderly, Locks
  <2>5. \A s \in Run : Fresh(s)' /\ run'[s].pc = "create" => lock' \in {Free} \cup Mine(s)
    BY <1>2, <1>3, <1>4 DEF Orderly, Locks
  <2>6. QED BY <2>1, <2>2, <2>3, <2>4, <2>5 DEF Locks, Mine, Child, Script
<1>6. ASSUME NEW s \in Run \ {r} PROVE Facts(s)'
  <2>1. /\ run'[s].pc = run[s].pc /\ run'[s].entry = run[s].entry /\ run'[s].marks = run[s].marks
        /\ run[s].pc \in {"off", "exit"} \/ Fresh(s)
    BY <1>3, <1>6 DEF Owner
  <2>2. Facts(s)
    BY DEF Orderly
  <2>3. run[s].pc \in {"off", "exit", "child", "check", "create"}
    BY <2>1 DEF Fresh
  <2>4. Shape(s)'
    BY <2>1, <2>2, <2>3 DEF Facts, Shape, Fresh, Updating, UpdateSteps
  <2>5. run[s].pc \notin {"off", "exit"} => ~Sound(s)'
    BY <2>1, <2>2 DEF Facts, Shape, Sound, Marked
  <2>6. QED
    BY <2>1, <2>4, <2>5 DEF Facts
<1>7. LockTyped'
  BY DEF Orderly, Typed, LockTyped, Free, Stale
<1>8. QED BY <1>5, <1>6, <1>7 DEF Orderly, Typed

LEMMA StepPull ==
  ASSUME Orderly, NEW r \in Run, Pull(r)
  PROVE  Orderly'
<1>0. RunsTyped /\ FilesTyped /\ BackupsTyped /\ Rest /\ run[r] \in Runs /\ Facts(r)
  BY DEF Orderly, Typed, RunsTyped
<1>1. run[r].pc = "pull" /\ InPipeline(r)
  BY DEF Pull, At, InPipeline
<1>2. /\ RunsTyped' /\ Same(r)
      /\ run'[r].pc = "scripts"
      /\ run'[r].entry = run[r].entry
      /\ run'[r].marks = run[r].marks
      /\ run'[r].point = run[r].point
      /\ run'[r].dump = run[r].dump
  BY <1>0, <1>1, GoRun, GoWithRun, GoOnRun, EndRun DEF Pull, Steps, Marks
<1>3. FilesTyped' /\ Rest' /\ lock' = lock
  BY <1>0, <1>1, <1>2, Bounds DEF Pull, FilesTyped, Rest, files, Runs, Told, Busy, Facts, Shape
<1>4. BackupsTyped'
  BY <1>0, <1>1 DEF Pull, BackupsTyped, files, FilesTyped
<1>5. Facts(r)'
  <2>1. Shape(r)'
    BY <1>0, <1>1, <1>2 DEF Pull, Facts, Shape, WayBack, Sound, Marked, Untouched, Point, OneVersion, Updating, UpdateSteps, Fresh, InPipeline, ByServer, files, FilesTyped
  <2>2. run'[r].pc \notin {"off", "exit"} /\ Sound(r)' => WayBack(r)'
    BY <1>0, <1>1, <1>2, Bounds DEF Pull, Facts, Shape, WayBack, Sound, Marked, Untouched, Point, OneVersion, Updating, UpdateSteps, Fresh, InPipeline, files, FilesTyped, Runs
  <2>3. QED BY <2>1, <2>2 DEF Facts
<1>6. QED BY <1>1, <1>2, <1>3, <1>4, <1>5, SameIsAlike, PipelineStep

LEMMA StepResume ==
  ASSUME Orderly, NEW r \in Run, Resume(r)
  PROVE  Orderly'
<1>0. RunsTyped /\ FilesTyped /\ BackupsTyped /\ Rest /\ run[r] \in Runs /\ Facts(r)
  BY DEF Orderly, Typed, RunsTyped
<1>1. run[r].pc = "resume" /\ InPipeline(r)
  BY DEF Resume, At, InPipeline
<1>2. /\ RunsTyped' /\ Same(r)
      /\ run'[r].pc = "build"
      /\ run'[r].entry = run[r].entry
      /\ run'[r].marks = run[r].marks
      /\ run'[r].point = run[r].point
      /\ run'[r].dump = run[r].dump
  BY <1>0, <1>1, GoRun, GoWithRun, GoOnRun, EndRun DEF Resume, Steps, Marks
<1>3. FilesTyped' /\ Rest' /\ lock' = lock
  BY <1>0, <1>1, <1>2, Bounds DEF Resume, FilesTyped, Rest, files, Runs, Told, Busy, Facts, Shape
<1>4. BackupsTyped'
  BY <1>0, <1>1 DEF Resume, BackupsTyped, files, FilesTyped
<1>5. Facts(r)'
  <2>1. Shape(r)'
    BY <1>0, <1>1, <1>2 DEF Resume, Facts, Shape, WayBack, Sound, Marked, Untouched, Point, OneVersion, Updating, UpdateSteps, Fresh, InPipeline, ByServer, files, FilesTyped
  <2>2. run'[r].pc \notin {"off", "exit"} /\ Sound(r)' => WayBack(r)'
    BY <1>0, <1>1, <1>2, Bounds DEF Resume, Facts, Shape, WayBack, Sound, Marked, Untouched, Point, OneVersion, Updating, UpdateSteps, Fresh, InPipeline, files, FilesTyped, Runs
  <2>3. QED BY <2>1, <2>2 DEF Facts
<1>6. QED BY <1>1, <1>2, <1>3, <1>4, <1>5, SameIsAlike, PipelineStep

LEMMA StepBuild ==
  ASSUME Orderly, NEW r \in Run, Build(r)
  PROVE  Orderly'
<1>0. RunsTyped /\ FilesTyped /\ BackupsTyped /\ Rest /\ run[r] \in Runs /\ Facts(r)
  BY DEF Orderly, Typed, RunsTyped
<1>1. run[r].pc = "build" /\ InPipeline(r)
  BY DEF Build, At, InPipeline, Abort
<1>2. /\ RunsTyped' /\ Same(r)
      /\ run'[r].pc \in {"push", "undo"}
      /\ run'[r].entry = run[r].entry
      /\ run'[r].marks \in {run[r].marks, run[r].marks \cup {"built"}}
      /\ run'[r].point = run[r].point
      /\ run'[r].dump = run[r].dump
      /\ (run'[r].pc = "push" => "built" \in run'[r].marks)
      /\ (run'[r].pc = "undo" => run'[r].marks = run[r].marks)
      /\ (run'[r].pc = "push" => image' = head)
  BY <1>0, <1>1, GoRun, GoWithRun, GoOnRun, EndRun DEF Build, Steps, Marks, Abort
<1>3. FilesTyped' /\ Rest' /\ lock' = lock
  BY <1>0, <1>1, <1>2, Bounds DEF Build, FilesTyped, Rest, files, Runs, Told, Busy, Facts, Shape, Abort
<1>4. BackupsTyped'
  BY <1>0, <1>1 DEF Build, BackupsTyped, files, FilesTyped, Abort
<1>5. Facts(r)'
  <2>1. Shape(r)'
    BY <1>0, <1>1, <1>2 DEF Build, Facts, Shape, WayBack, Sound, Marked, Untouched, Point, OneVersion, Updating, UpdateSteps, Fresh, InPipeline, ByServer, files, FilesTyped, Abort
  <2>2. ASSUME Sound(r)' PROVE WayBack(r)'
    <3>1. Sound(r)
      <4>1. "sound" \in run[r].marks
        <5>1. CASE run'[r].marks = run[r].marks
          BY <2>2, <5>1 DEF Sound, Marked
        <5>2. CASE run'[r].marks = run[r].marks \cup {"built"}
          BY <2>2, <5>2 DEF Sound, Marked
        <5>3. QED BY <1>2, <5>1, <5>2
      <4>2. QED BY <1>2, <2>2, <4>1 DEF Sound, Marked, Updating
    <3>2. WayBack(r)
      BY <1>0, <1>1, <3>1 DEF Facts
    <3>3. CASE run'[r].pc = "push"
      <4>1. image' = head /\ UNCHANGED <<head, running, db, backups>> BY <1>2, <3>3 DEF Build
      <4>2. QED BY <1>1, <1>2, <3>2, <3>3, <4>1 DEF WayBack, Point, Marked, Untouched, OneVersion
    <3>4. CASE run'[r].pc = "undo"
      <4>1. UNCHANGED <<head, running, db, backups>> BY DEF Build
      <4>2. QED BY <1>1, <1>2, <3>2, <3>4, <4>1 DEF WayBack, Point, Marked, Untouched, OneVersion
    <3>5. QED BY <1>2, <3>3, <3>4
  <2>3. QED BY <2>1, <2>2 DEF Facts
<1>6. QED BY <1>1, <1>2, <1>3, <1>4, <1>5, SameIsAlike, PipelineStep

LEMMA StepPushSchema ==
  ASSUME Orderly, NEW r \in Run, PushSchema(r)
  PROVE  Orderly'
<1>0. RunsTyped /\ FilesTyped /\ BackupsTyped /\ Rest /\ run[r] \in Runs /\ Facts(r)
  BY DEF Orderly, Typed, RunsTyped
<1>1. run[r].pc = "push" /\ InPipeline(r)
  BY DEF PushSchema, At, InPipeline
<1>2. /\ RunsTyped' /\ Same(r)
      /\ run'[r].pc = "up"
      /\ run'[r].entry = run[r].entry
      /\ run'[r].marks = run[r].marks \cup {"changed"}
      /\ run'[r].point = run[r].point
      /\ run'[r].dump = run[r].dump
  BY <1>0, <1>1, GoRun, GoWithRun, GoOnRun, EndRun DEF PushSchema, Steps, Marks
<1>3. FilesTyped' /\ Rest' /\ lock' = lock
  BY <1>0, <1>1, <1>2, Bounds DEF PushSchema, FilesTyped, Rest, files, Runs, Told, Busy, Facts, Shape
<1>4. BackupsTyped'
  BY <1>0, <1>1 DEF PushSchema, BackupsTyped, files, FilesTyped
<1>5. Facts(r)'
  <2>1. Shape(r)'
    BY <1>0, <1>1, <1>2 DEF PushSchema, Facts, Shape, WayBack, Sound, Marked, Untouched, Point, OneVersion, Updating, UpdateSteps, Fresh, InPipeline, ByServer, files, FilesTyped
  <2>2. run'[r].pc \notin {"off", "exit"} /\ Sound(r)' => WayBack(r)'
    BY <1>0, <1>1, <1>2, Bounds DEF PushSchema, Facts, Shape, WayBack, Sound, Marked, Untouched, Point, OneVersion, Updating, UpdateSteps, Fresh, InPipeline, files, FilesTyped, Runs
  <2>3. QED BY <2>1, <2>2 DEF Facts
<1>6. QED BY <1>1, <1>2, <1>3, <1>4, <1>5, SameIsAlike, PipelineStep

LEMMA StepRestartServices ==
  ASSUME Orderly, NEW r \in Run, RestartServices(r)
  PROVE  Orderly'
<1>0. RunsTyped /\ FilesTyped /\ BackupsTyped /\ Rest /\ run[r] \in Runs /\ Facts(r)
  BY DEF Orderly, Typed, RunsTyped
<1>1. run[r].pc = "up" /\ InPipeline(r)
  BY DEF RestartServices, At, InPipeline, Abort
<1>2. /\ RunsTyped' /\ Same(r)
      /\ run'[r].pc \in {"health", "undo"}
      /\ run'[r].entry = run[r].entry
      /\ run'[r].marks = run[r].marks
      /\ run'[r].point = run[r].point
      /\ run'[r].dump = run[r].dump
      /\ (run'[r].pc = "health" => running' = image)
  BY <1>0, <1>1, GoRun, GoWithRun, GoOnRun, EndRun DEF RestartServices, Steps, Marks, Abort
<1>3. FilesTyped' /\ Rest' /\ lock' = lock
  BY <1>0, <1>1, <1>2, Bounds DEF RestartServices, FilesTyped, Rest, files, Runs, Told, Busy, Facts, Shape, Abort
<1>4. BackupsTyped'
  BY <1>0, <1>1 DEF RestartServices, BackupsTyped, files, FilesTyped, Abort
<1>5. Facts(r)'
  <2>1. Shape(r)'
    BY <1>0, <1>1, <1>2 DEF RestartServices, Facts, Shape, WayBack, Sound, Marked, Untouched, Point, OneVersion, Updating, UpdateSteps, Fresh, InPipeline, ByServer, files, FilesTyped, Abort
  <2>2. run'[r].pc \notin {"off", "exit"} /\ Sound(r)' => WayBack(r)'
    BY <1>0, <1>1, <1>2, Bounds DEF RestartServices, Facts, Shape, WayBack, Sound, Marked, Untouched, Point, OneVersion, Updating, UpdateSteps, Fresh, InPipeline, files, FilesTyped, Runs, Abort
  <2>3. QED BY <2>1, <2>2 DEF Facts
<1>6. QED BY <1>1, <1>2, <1>3, <1>4, <1>5, SameIsAlike, PipelineStep

LEMMA StepHealthy ==
  ASSUME Orderly, NEW r \in Run, Healthy(r)
  PROVE  Orderly'
<1>0. RunsTyped /\ FilesTyped /\ BackupsTyped /\ Rest /\ run[r] \in Runs /\ Facts(r)
  BY DEF Orderly, Typed, RunsTyped
<1>1. run[r].pc = "health" /\ InPipeline(r)
  BY DEF Healthy, At, InPipeline
<1>2. /\ RunsTyped' /\ Same(r)
      /\ run'[r].pc = "exit"
      /\ run'[r].entry = run[r].entry
  BY <1>0, <1>1, GoRun, GoWithRun, GoOnRun, EndRun DEF Healthy, Steps, Marks
<1>3. FilesTyped' /\ Rest' /\ lock' = lock
  BY <1>0, <1>1, <1>2, Bounds DEF Healthy, FilesTyped, Rest, files, Runs, Told, Busy, Facts, Shape
<1>4. BackupsTyped'
  BY <1>0, <1>1 DEF Healthy, BackupsTyped, files, FilesTyped
<1>5. Facts(r)'
  <2>1. Shape(r)'
    BY <1>0, <1>1, <1>2 DEF Healthy, Facts, Shape, WayBack, Sound, Marked, Untouched, Point, OneVersion, Updating, UpdateSteps, Fresh, InPipeline, ByServer, files, FilesTyped
  <2>2. run'[r].pc \notin {"off", "exit"} /\ Sound(r)' => WayBack(r)'
    BY <1>0, <1>1, <1>2, Bounds DEF Healthy, Facts, Shape, WayBack, Sound, Marked, Untouched, Point, OneVersion, Updating, UpdateSteps, Fresh, InPipeline, files, FilesTyped, Runs
  <2>3. QED BY <2>1, <2>2 DEF Facts
<1>6. QED BY <1>1, <1>2, <1>3, <1>4, <1>5, SameIsAlike, PipelineStep

LEMMA StepUndone ==
  ASSUME Orderly, NEW r \in Run, Undone(r)
  PROVE  Orderly'
<1>0. RunsTyped /\ FilesTyped /\ BackupsTyped /\ Rest /\ run[r] \in Runs /\ Facts(r)
  BY DEF Orderly, Typed, RunsTyped
<1>1. run[r].pc = "undone" /\ InPipeline(r)
  BY DEF Undone, At, InPipeline
<1>2. /\ RunsTyped' /\ Same(r)
      /\ run'[r].pc = "exit"
      /\ run'[r].entry = run[r].entry
  BY <1>0, <1>1, GoRun, GoWithRun, GoOnRun, EndRun DEF Undone, Steps, Marks
<1>3. FilesTyped' /\ Rest' /\ lock' = lock
  BY <1>0, <1>1, <1>2, Bounds DEF Undone, FilesTyped, Rest, files, Runs, Told, Busy, Facts, Shape
<1>4. BackupsTyped'
  BY <1>0, <1>1 DEF Undone, BackupsTyped, files, FilesTyped
<1>5. Facts(r)'
  <2>1. Shape(r)'
    BY <1>0, <1>1, <1>2 DEF Undone, Facts, Shape, WayBack, Sound, Marked, Untouched, Point, OneVersion, Updating, UpdateSteps, Fresh, InPipeline, ByServer, files, FilesTyped
  <2>2. run'[r].pc \notin {"off", "exit"} /\ Sound(r)' => WayBack(r)'
    BY <1>0, <1>1, <1>2, Bounds DEF Undone, Facts, Shape, WayBack, Sound, Marked, Untouched, Point, OneVersion, Updating, UpdateSteps, Fresh, InPipeline, files, FilesTyped, Runs
  <2>3. QED BY <2>1, <2>2 DEF Facts
<1>6. QED BY <1>1, <1>2, <1>3, <1>4, <1>5, SameIsAlike, PipelineStep

LEMMA StepUndoBuild ==
  ASSUME Orderly, NEW r \in Run, UndoBuild(r)
  PROVE  Orderly'
<1>0. RunsTyped /\ FilesTyped /\ BackupsTyped /\ Rest /\ run[r] \in Runs /\ Facts(r)
  BY DEF Orderly, Typed, RunsTyped
<1>1. run[r].pc = "rebuild" /\ InPipeline(r)
  BY DEF UndoBuild, At, InPipeline
<1>2. /\ RunsTyped' /\ Same(r)
      /\ run'[r].pc = "reup"
      /\ run'[r].entry = run[r].entry
      /\ run'[r].marks \in {run[r].marks, run[r].marks \ {"sound"}}
      /\ run'[r].point = run[r].point
      /\ run'[r].dump = run[r].dump
      /\ ("sound" \in run'[r].marks => image' = head)
  BY <1>0, <1>1, GoRun, GoWithRun, GoOnRun, EndRun DEF UndoBuild, Steps, Marks
<1>3. FilesTyped' /\ Rest' /\ lock' = lock
  BY <1>0, <1>1, <1>2, Bounds DEF UndoBuild, FilesTyped, Rest, files, Runs, Told, Busy, Facts, Shape
<1>4. BackupsTyped'
  BY <1>0, <1>1 DEF UndoBuild, BackupsTyped, files, FilesTyped
<1>5. Facts(r)'
  <2>1. Shape(r)'
    BY <1>0, <1>1, <1>2 DEF UndoBuild, Facts, Shape, WayBack, Sound, Marked, Untouched, Point, OneVersion, Updating, UpdateSteps, Fresh, InPipeline, ByServer, files, FilesTyped
  <2>2. run'[r].pc \notin {"off", "exit"} /\ Sound(r)' => WayBack(r)'
    BY <1>0, <1>1, <1>2, Bounds DEF UndoBuild, Facts, Shape, WayBack, Sound, Marked, Untouched, Point, OneVersion, Updating, UpdateSteps, Fresh, InPipeline, files, FilesTyped, Runs
  <2>3. QED BY <2>1, <2>2 DEF Facts
<1>6. QED BY <1>1, <1>2, <1>3, <1>4, <1>5, SameIsAlike, PipelineStep

LEMMA StepUndoUp ==
  ASSUME Orderly, NEW r \in Run, UndoUp(r)
  PROVE  Orderly'
<1>0. RunsTyped /\ FilesTyped /\ BackupsTyped /\ Rest /\ run[r] \in Runs /\ Facts(r)
  BY DEF Orderly, Typed, RunsTyped
<1>1. run[r].pc = "reup" /\ InPipeline(r)
  BY DEF UndoUp, At, InPipeline
<1>2. /\ RunsTyped' /\ Same(r)
      /\ run'[r].pc = "undone"
      /\ run'[r].entry = run[r].entry
      /\ run'[r].marks \in {run[r].marks, run[r].marks \ {"sound"}}
      /\ run'[r].point = run[r].point
      /\ run'[r].dump = run[r].dump
      /\ ("sound" \in run'[r].marks => running' = image)
  BY <1>0, <1>1, GoRun, GoWithRun, GoOnRun, EndRun DEF UndoUp, Steps, Marks
<1>3. FilesTyped' /\ Rest' /\ lock' = lock
  BY <1>0, <1>1, <1>2, Bounds DEF UndoUp, FilesTyped, Rest, files, Runs, Told, Busy, Facts, Shape
<1>4. BackupsTyped'
  BY <1>0, <1>1 DEF UndoUp, BackupsTyped, files, FilesTyped
<1>5. Facts(r)'
  <2>1. Shape(r)'
    BY <1>0, <1>1, <1>2 DEF UndoUp, Facts, Shape, WayBack, Sound, Marked, Untouched, Point, OneVersion, Updating, UpdateSteps, Fresh, InPipeline, ByServer, files, FilesTyped
  <2>2. run'[r].pc \notin {"off", "exit"} /\ Sound(r)' => WayBack(r)'
    BY <1>0, <1>1, <1>2, Bounds DEF UndoUp, Facts, Shape, WayBack, Sound, Marked, Untouched, Point, OneVersion, Updating, UpdateSteps, Fresh, InPipeline, files, FilesTyped, Runs
  <2>3. QED BY <2>1, <2>2 DEF Facts
<1>6. QED BY <1>1, <1>2, <1>3, <1>4, <1>5, SameIsAlike, PipelineStep

LEMMA StepUndoDrop ==
  ASSUME Orderly, NEW r \in Run, UndoDrop(r)
  PROVE  Orderly'
<1>0. RunsTyped /\ FilesTyped /\ BackupsTyped /\ Rest /\ run[r] \in Runs /\ Facts(r)
  BY DEF Orderly, Typed, RunsTyped
<1>1. run[r].pc = "drop" /\ InPipeline(r)
  BY DEF UndoDrop, At, InPipeline
<1>2. /\ RunsTyped' /\ Same(r)
      /\ run'[r].pc \in {"createdb", "rebuild", "undone"}
      /\ run'[r].entry = run[r].entry
      /\ run'[r].marks \in {run[r].marks, run[r].marks \ {"sound"}}
      /\ run'[r].point = run[r].point
      /\ run'[r].dump = run[r].dump
      /\ ("sound" \in run'[r].marks => run'[r].pc = "createdb")
  <2>1. CASE db' = NoDb /\ Go(r, "createdb")
    BY <1>0, <1>1, <2>1, GoRun DEF UndoDrop, Steps, AfterDb
  <2>2. CASE GoOn(r, AfterDb(r))
    <3>1. AfterDb(r) \in Steps /\ AfterDb(r) \in {"rebuild", "undone"}
      BY DEF AfterDb, Steps
    <3>2. QED BY <1>0, <1>1, <2>2, <3>1, GoOnRun
  <2>3. QED BY <2>1, <2>2 DEF UndoDrop
<1>3. FilesTyped' /\ Rest' /\ lock' = lock
  BY <1>0, <1>1, <1>2, Bounds DEF UndoDrop, FilesTyped, Rest, files, Runs, Told, Busy, Facts, Shape
<1>4. BackupsTyped'
  BY <1>0, <1>1 DEF UndoDrop, BackupsTyped, files, FilesTyped
<1>5. Facts(r)'
  <2>1. Shape(r)'
    BY <1>0, <1>1, <1>2 DEF UndoDrop, Facts, Shape, WayBack, Sound, Marked, Untouched, Point, OneVersion, Updating, UpdateSteps, Fresh, InPipeline, ByServer, files, FilesTyped
  <2>2. run'[r].pc \notin {"off", "exit"} /\ Sound(r)' => WayBack(r)'
    BY <1>0, <1>1, <1>2, Bounds DEF UndoDrop, Facts, Shape, WayBack, Sound, Marked, Untouched, Point, OneVersion, Updating, UpdateSteps, Fresh, InPipeline, files, FilesTyped, Runs
  <2>3. QED BY <2>1, <2>2 DEF Facts
<1>6. QED BY <1>1, <1>2, <1>3, <1>4, <1>5, SameIsAlike, PipelineStep

LEMMA StepUndoCreate ==
  ASSUME Orderly, NEW r \in Run, UndoCreate(r)
  PROVE  Orderly'
<1>0. RunsTyped /\ FilesTyped /\ BackupsTyped /\ Rest /\ run[r] \in Runs /\ Facts(r)
  BY DEF Orderly, Typed, RunsTyped
<1>1. run[r].pc = "createdb" /\ InPipeline(r)
  BY DEF UndoCreate, At, InPipeline
<1>2. /\ RunsTyped' /\ Same(r)
      /\ run'[r].pc \in {"restore", "rebuild", "undone"}
      /\ run'[r].entry = run[r].entry
      /\ run'[r].marks \in {run[r].marks, run[r].marks \ {"sound"}}
      /\ run'[r].point = run[r].point
      /\ run'[r].dump = run[r].dump
      /\ ("sound" \in run'[r].marks => run'[r].pc = "restore")
  <2>1. CASE db' = EmptyDb /\ Go(r, "restore")
    BY <1>0, <1>1, <2>1, GoRun DEF UndoCreate, Steps, AfterDb
  <2>2. CASE GoOn(r, AfterDb(r))
    <3>1. AfterDb(r) \in Steps /\ AfterDb(r) \in {"rebuild", "undone"}
      BY DEF AfterDb, Steps
    <3>2. QED BY <1>0, <1>1, <2>2, <3>1, GoOnRun
  <2>3. QED BY <2>1, <2>2 DEF UndoCreate
<1>3. FilesTyped' /\ Rest' /\ lock' = lock
  BY <1>0, <1>1, <1>2, Bounds DEF UndoCreate, FilesTyped, Rest, files, Runs, Told, Busy, Facts, Shape
<1>4. BackupsTyped'
  BY <1>0, <1>1 DEF UndoCreate, BackupsTyped, files, FilesTyped
<1>5. Facts(r)'
  <2>1. Shape(r)'
    BY <1>0, <1>1, <1>2 DEF UndoCreate, Facts, Shape, WayBack, Sound, Marked, Untouched, Point, OneVersion, Updating, UpdateSteps, Fresh, InPipeline, ByServer, files, FilesTyped
  <2>2. run'[r].pc \notin {"off", "exit"} /\ Sound(r)' => WayBack(r)'
    BY <1>0, <1>1, <1>2, Bounds DEF UndoCreate, Facts, Shape, WayBack, Sound, Marked, Untouched, Point, OneVersion, Updating, UpdateSteps, Fresh, InPipeline, files, FilesTyped, Runs
  <2>3. QED BY <2>1, <2>2 DEF Facts
<1>6. QED BY <1>1, <1>2, <1>3, <1>4, <1>5, SameIsAlike, PipelineStep

LEMMA StepUndoRestore ==
  ASSUME Orderly, NEW r \in Run, UndoRestore(r)
  PROVE  Orderly'
<1>0. RunsTyped /\ FilesTyped /\ BackupsTyped /\ Rest /\ run[r] \in Runs /\ Facts(r)
  BY DEF Orderly, Typed, RunsTyped
<1>1. run[r].pc = "restore" /\ InPipeline(r)
  BY DEF UndoRestore, At, InPipeline
<1>2. /\ RunsTyped' /\ Same(r)
      /\ run'[r].pc \in {"rebuild", "undone"}
      /\ run'[r].entry = run[r].entry
      /\ run'[r].marks \in {run[r].marks, run[r].marks \ {"sound"}}
      /\ run'[r].point = run[r].point
      /\ run'[r].dump = run[r].dump
      /\ run'[r].pc = AfterDb(r)
      /\ ("sound" \in run'[r].marks => Restorable(r) /\ db' = backups[run[r].dump])
  <2>1. CASE Restorable(r) /\ db' = backups[run[r].dump] /\ Go(r, AfterDb(r))
    BY <1>0, <1>1, <2>1, GoRun DEF UndoRestore, Steps, AfterDb
  <2>2. CASE GoOn(r, AfterDb(r))
    <3>1. AfterDb(r) \in Steps /\ AfterDb(r) \in {"rebuild", "undone"}
      BY DEF AfterDb, Steps
    <3>2. QED BY <1>0, <1>1, <2>2, <3>1, GoOnRun
  <2>3. QED BY <2>1, <2>2 DEF UndoRestore
<1>3. /\ FilesTyped' /\ Rest' /\ lock' = lock /\ BackupsTyped'
      /\ UNCHANGED <<head, image, running, backups>>
  <2>1. UNCHANGED <<remote, head, image, running, backups, lock, status>>
    BY DEF UndoRestore
  <2>2. db' \in Versions \cup {EmptyDb, NoDb}
    <3>1. Restorable(r) => backups[run[r].dump] \in Versions \cup {EmptyDb}
      BY <1>0 DEF Restorable, Present, BackupsTyped, Dumps
    <3>2. QED BY <1>0, <3>1 DEF UndoRestore, FilesTyped
  <2>3. QED BY <1>0, <2>1, <2>2 DEF FilesTyped, Rest, BackupsTyped
<1>4. Facts(r)'
  <2>1. Shape(r)'
    <3>1. Updating(r)
      BY <1>0, <1>1 DEF UndoRestore, At, Facts, Shape, UpdateSteps
    <3>2. QED BY <1>0, <1>1, <1>2, <1>3, <3>1 DEF Facts, Shape, Updating, UpdateSteps, Fresh
  <2>2. ASSUME Sound(r)' PROVE WayBack(r)'
    <3>1. Sound(r) /\ "sound" \in run'[r].marks /\ run'[r].marks = run[r].marks
      BY <1>2, <2>2 DEF Sound, Marked, Updating
    <3>2. WayBack(r)
      BY <1>0, <1>1, <3>1 DEF Facts
    <3>3. Point(r) /\ head = run[r].point /\ Marked(r, "built")
      BY <1>1, <3>2 DEF WayBack
    <3>4. run[r].dump \in 1..Len(backups)
      BY <1>0, <1>2, <3>1 DEF Restorable, Present, BackupsTyped
    <3>5. db' = run[r].point
      <4>1. run[r].dump # Gone
        BY <3>4 DEF Gone
      <4>2. QED BY <1>2, <3>1, <3>3, <4>1 DEF Point
    <3>6. Point(r)' /\ Marked(r, "built")' /\ run'[r].pc = "rebuild"
      BY <1>2, <1>3, <3>1, <3>3 DEF Point, Marked, AfterDb
    <3>7. QED BY <1>2, <1>3, <3>3, <3>5, <3>6 DEF WayBack
  <2>3. QED BY <2>1, <2>2 DEF Facts
<1>5. QED BY <1>1, <1>2, <1>3, <1>4, SameIsAlike, PipelineStep

LEMMA StepUndoGit ==
  ASSUME Orderly, NEW r \in Run, UndoGit(r)
  PROVE  Orderly'
<1>0. RunsTyped /\ FilesTyped /\ BackupsTyped /\ Rest /\ run[r] \in Runs /\ Facts(r)
  BY DEF Orderly, Typed, RunsTyped
<1>1. run[r].pc = "undo" /\ InPipeline(r)
  BY DEF UndoGit, At, InPipeline
<1> DEFINE next == IF RestoresDb(r) THEN "drop" ELSE AfterDb(r)
           lost == IF "changed" \in run[r].marks /\ ~Present(r) THEN {"nodump"} ELSE {}
<1>2. PICK marks \in {run[r].marks, run[r].marks \ {"sound"}} :
         /\ run' = [run EXCEPT ![r] = RunAt(next, run[r].entry, marks \cup lost, run[r].point, run[r].dump)]
         /\ head' = (IF run[r].point # None THEN run[r].point ELSE head) \/ (head' = head /\ "sound" \notin marks)
  BY DEF UndoGit
<1>3. UNCHANGED <<remote, image, running, db, backups, lock, status>> /\ head' \in {head, run[r].point}
      /\ (head' # head => run[r].point # None)
  BY DEF UndoGit
<1>4. /\ RunsTyped' /\ Same(r) /\ run'[r].pc = next /\ run'[r].entry = run[r].entry
      /\ run'[r].marks = marks \cup lost /\ run'[r].point = run[r].point /\ run'[r].dump = run[r].dump
  <2>1. next \in Steps /\ marks \cup lost \in SUBSET Marks /\ run[r].entry \in AllEntries
        /\ run[r].point \in 0..LastVersion /\ run[r].dump \in Gone..MaxDumps
    BY <1>0 DEF AfterDb, Steps, Runs, Marks
  <2> DEFINE q == RunAt(next, run[r].entry, marks \cup lost, run[r].point, run[r].dump)
  <2>2. /\ q \in Runs /\ q.pc = next /\ q.entry = run[r].entry
        /\ q.marks = marks \cup lost /\ q.point = run[r].point /\ q.dump = run[r].dump
    <3> HIDE DEF next, lost
    <3>1. QED BY <2>1 DEF RunAt, Runs
  <2>3. run' = [run EXCEPT ![r] = q]
    BY <1>2
  <2> HIDE DEF q
  <2>4. RunsTyped' /\ Same(r) /\ run'[r] = q
    BY <1>0, <2>2, <2>3, OneRun
  <2> HIDE DEF next, lost
  <2>5. QED BY <2>2, <2>4
<1>5. next \in {"drop", "rebuild", "undone"}
  BY DEF AfterDb
<1>6. FilesTyped' /\ Rest' /\ BackupsTyped'
  BY <1>0, <1>3, Bounds DEF FilesTyped, Rest, BackupsTyped, Runs, None
<1>7. Facts(r)'
  <2>1. Shape(r)'
    <3>1. Updating(r)
      BY <1>0, <1>1 DEF Facts, Shape, UpdateSteps
    <3>2. QED BY <1>4, <1>5, <3>1 DEF Shape, Updating, Fresh, UpdateSteps
  <2>2. ASSUME Sound(r)' PROVE WayBack(r)'
    <3>1. "sound" \in marks /\ marks = run[r].marks /\ Sound(r)
      BY <1>4, <2>2 DEF Sound, Marked, Updating
    <3>2. WayBack(r)
      BY <1>0, <1>1, <3>1 DEF Facts
    <3>3. head' = IF run[r].point # None THEN run[r].point ELSE head
      BY <1>2, <3>1
    <3>4. /\ Marked(r, "built") => Marked(r, "built")'
          /\ Marked(r, "changed") /\ ~Present(r) => Marked(r, "nodump")'
      BY <1>4, <3>1 DEF Marked
    <3>5. Point(r) => Point(r)'
      BY <1>3, <1>4 DEF Point
    <3>6. CASE run[r].point = None
      <4>1. OneVersion /\ Untouched(r)
        BY <1>1, <3>2, <3>6 DEF WayBack, Point
      <4>2. next = "undone"
        BY <4>1 DEF Untouched, Marked, RestoresDb, AfterDb
      <4>3. QED BY <1>3, <1>4, <3>3, <3>6, <4>1, <4>2 DEF WayBack, OneVersion
    <3>7. CASE run[r].point # None
      <4>1. /\ Point(r)
            /\ Marked(r, "changed") \/ db = run[r].point
            /\ Marked(r, "built") \/ (running = run[r].point /\ ~Marked(r, "changed"))
        BY <1>1, <3>2, <3>7 DEF WayBack
      <4>2. Point(r)' /\ head' = run'[r].point
        BY <1>4, <3>3, <3>5, <3>7, <4>1
      <4>3. CASE next = "drop"
        <5>1. Marked(r, "built")'
          BY <3>4, <4>1, <4>3 DEF RestoresDb, AfterDb, Marked
        <5>2. QED BY <1>4, <4>2, <4>3, <5>1 DEF WayBack
      <4>4. CASE next = "rebuild"
        <5>1. Marked(r, "built")' /\ (db' = run'[r].point \/ Marked(r, "nodump")')
          BY <1>3, <1>4, <3>4, <4>1, <4>4 DEF RestoresDb, AfterDb, Marked
        <5>2. QED BY <1>4, <4>2, <4>4, <5>1 DEF WayBack
      <4>5. CASE next = "undone"
        <5>1. ~Marked(r, "built")
          BY <4>5 DEF AfterDb, Marked
        <5>2. running' = run'[r].point /\ db' = run'[r].point
          BY <1>3, <1>4, <4>1, <5>1
        <5>3. QED BY <1>4, <4>2, <4>5, <5>2 DEF WayBack
      <4>6. QED BY <1>5, <4>3, <4>4, <4>5
    <3>8. QED BY <3>6, <3>7
  <2>3. QED BY <2>1, <2>2 DEF Facts
<1> HIDE DEF next
<1>8. QED BY <1>1, <1>3, <1>4, <1>5, <1>6, <1>7, SameIsAlike, PipelineStep

LEMMA StepFail ==
  ASSUME Orderly, NEW r \in Run, Fail(r)
  PROVE  Orderly'
<1>0. RunsTyped /\ FilesTyped /\ BackupsTyped /\ Rest /\ run[r] \in Runs /\ Facts(r) /\ Updating(r)
  BY DEF Orderly, Typed, RunsTyped, Fail
<1>1. run[r].pc \in {"preflight", "backup", "pull", "push", "health"} /\ InPipeline(r)
  BY DEF Fail, At, InPipeline, Abort
<1>2. /\ RunsTyped' /\ Same(r)
      /\ run'[r].pc = "undo"
      /\ run'[r].entry = run[r].entry
      /\ run'[r].marks = run[r].marks
      /\ run'[r].point = run[r].point
      /\ run'[r].dump = run[r].dump
  BY <1>0, <1>1, GoRun DEF Fail, Abort, Steps
<1>3. /\ UNCHANGED <<remote, head, image, running, db, lock>> /\ status' = "rolling_back"
      /\ backups' \in LeftBehind \/ backups' = backups
      /\ run[r].pc # "backup" => backups' = backups
  BY DEF Fail, Abort, At
<1>4. FilesTyped' /\ Rest' /\ BackupsTyped'
  BY <1>0, <1>3, LeftTyped DEF FilesTyped, Rest, Busy, BackupsTyped
<1>5. Facts(r)'
  <2>1. Shape(r)'
    BY <1>0, <1>2 DEF Shape, Updating, UpdateSteps, Fresh
  <2>2. ASSUME Sound(r)' PROVE WayBack(r)'
    <3>1. Sound(r)
      BY <1>2, <2>2 DEF Sound, Marked, Updating
    <3>2. WayBack(r)
      BY <1>0, <1>1, <3>1 DEF Facts
    <3>3. run[r].pc # "preflight"
      BY <1>0, <3>1 DEF Facts, Shape, Sound, Marked
    <3>4. CASE run[r].pc = "backup"
      <4>1. run[r].point = None /\ OneVersion /\ Untouched(r)
        BY <3>2, <3>4 DEF WayBack
      <4>2. QED BY <1>2, <1>3, <4>1 DEF WayBack, Marked, Untouched, OneVersion
    <3>5. CASE run[r].pc # "backup"
      <4>1. Point(r)'
        BY <1>1, <1>2, <1>3, <3>2, <3>3, <3>5 DEF WayBack, Point
      <4>2. run[r].pc = "pull" => db = run[r].point /\ running = run[r].point /\ Untouched(r)
        BY <3>2 DEF WayBack, OneVersion
      <4>3. run[r].pc \in {"push", "health"} => Marked(r, "built") /\ (Marked(r, "changed") \/ db = run[r].point)
        BY <3>2 DEF WayBack
      <4>4. QED BY <1>1, <1>2, <1>3, <3>3, <3>5, <4>1, <4>2, <4>3 DEF WayBack, Marked, Untouched
    <3>6. QED BY <3>4, <3>5
  <2>3. QED BY <2>1, <2>2 DEF Facts
<1>6. QED BY <1>1, <1>2, <1>3, <1>4, <1>5, SameIsAlike, PipelineStep

\* The runs after a rotation, but for the dumps they name.
LEMMA AfterRotationRuns ==
  ASSUME RunsTyped, BackupsTyped, NEW d \in Versions \cup {EmptyDb}
  PROVE  /\ AfterRotation \in [Run -> Runs]
         /\ \A s \in Run : /\ AfterRotation[s].pc = run[s].pc /\ AfterRotation[s].entry = run[s].entry
                           /\ AfterRotation[s].marks = run[s].marks /\ AfterRotation[s].point = run[s].point
                           /\ AfterRotation[s].dump = Moved(run[s].dump)
<1>1. ASSUME NEW s \in Run
      PROVE  /\ AfterRotation[s] \in Runs
             /\ AfterRotation[s].pc = run[s].pc /\ AfterRotation[s].entry = run[s].entry
             /\ AfterRotation[s].marks = run[s].marks /\ AfterRotation[s].point = run[s].point
             /\ AfterRotation[s].dump = Moved(run[s].dump)
  <2>1. run[s] \in Runs /\ run[s].dump \in Gone..MaxDumps
    BY DEF RunsTyped, Runs
  <2>2. Moved(run[s].dump) \in Gone..MaxDumps
    BY <2>1, MovedKeeps
  <2>3. AfterRotation[s] = [run[s] EXCEPT !.dump = Moved(run[s].dump)]
    BY DEF AfterRotation
  <2> DEFINE m == Moved(run[s].dump)
  <2> HIDE DEF m
  <2>4. [run[s] EXCEPT !.dump = m] \in Runs
    BY <2>1, <2>2 DEF Runs, m
  <2>5. QED BY <2>1, <2>3, <2>4 DEF Runs, m
<1>2. QED BY <1>1 DEF AfterRotation

LEMMA StepBackupDatabase ==
  ASSUME Orderly, NEW r \in Run, BackupDatabase(r)
  PROVE  Orderly'
<1>0. RunsTyped /\ FilesTyped /\ BackupsTyped /\ Rest /\ run[r] \in Runs /\ Facts(r)
  BY DEF Orderly, Typed, RunsTyped
<1>1. run[r].pc = "backup" /\ InPipeline(r)
  BY DEF BackupDatabase, At, InPipeline
<1>2. db \in Versions \cup {EmptyDb}
  BY <1>0 DEF BackupDatabase, FilesTyped
<1>3. /\ Rotated(db) \in Seq(Dumps) /\ Len(Rotated(db)) <= MaxDumps
      /\ Len(Rotated(db)) \in 1..MaxDumps /\ Rotated(db)[Len(Rotated(db))] = db
  BY <1>0, <1>2, RotatedTyped
<1>4. /\ backups' = Rotated(db)
      /\ UNCHANGED <<remote, head, image, running, db, lock, status>>
  BY DEF BackupDatabase
<1>5. /\ RunsTyped' /\ Alike(r)
      /\ run'[r].pc = "pull" /\ run'[r].entry = run[r].entry /\ run'[r].marks = run[r].marks
      /\ run'[r].point = head /\ run'[r].dump = Len(Rotated(db))
  <2> DEFINE q == RunAt("pull", run[r].entry, run[r].marks, head, Len(Rotated(db)))
             after == AfterRotation
  <2>1. Len(Rotated(db)) \in Gone..MaxDumps
    BY <1>3 DEF Gone
  <2>2. q \in Runs /\ q.pc = "pull" /\ q.entry = run[r].entry /\ q.marks = run[r].marks
        /\ q.point = head /\ q.dump = Len(Rotated(db))
    BY <1>0, <2>1, Bounds DEF RunAt, Runs, Steps, FilesTyped
  <2>3. /\ after \in [Run -> Runs]
        /\ \A s \in Run : /\ after[s].pc = run[s].pc /\ after[s].entry = run[s].entry
                          /\ after[s].marks = run[s].marks
    BY <1>0, <1>2, AfterRotationRuns
  <2>4. run' = [after EXCEPT ![r] = q]
    <3>1. AfterRotation[r].entry = run[r].entry /\ AfterRotation[r].marks = run[r].marks
      BY <2>3
    <3>2. QED BY <3>1 DEF BackupDatabase
  <2> HIDE DEF q, after
  <2>5. RunsTyped' /\ run'[r] = q /\ \A s \in Run \ {r} : run'[s] = after[s]
    BY <2>2, <2>3, <2>4 DEF RunsTyped
  <2>6. QED BY <2>2, <2>3, <2>5 DEF Alike
<1>6. FilesTyped' /\ Rest' /\ BackupsTyped'
  BY <1>0, <1>3, <1>4 DEF FilesTyped, Rest, BackupsTyped
<1>7. Facts(r)'
  <2>1. Updating(r)
    BY <1>0, <1>1 DEF Facts, Shape, UpdateSteps
  <2>2. Shape(r)'
    BY <1>5, <2>1 DEF Shape, Updating, UpdateSteps, Fresh
  <2>3. ASSUME Sound(r)' PROVE WayBack(r)'
    <3>1. Sound(r)
      BY <1>5, <2>3 DEF Sound, Marked, Updating
    <3>2. WayBack(r)
      BY <1>0, <1>1, <3>1 DEF Facts
    <3>3. OneVersion /\ Untouched(r)
      BY <1>1, <3>2 DEF WayBack
    <3>4. head # None /\ db = head
      BY <1>0, <3>3, Bounds DEF OneVersion, FilesTyped
    <3>5. Point(r)'
      BY <1>3, <1>4, <1>5, <3>4 DEF Point
    <3>6. OneVersion' /\ run'[r].point = head' /\ Untouched(r)'
      BY <1>4, <1>5, <3>3 DEF OneVersion, Untouched, Marked
    <3>7. QED BY <1>5, <3>5, <3>6 DEF WayBack
  <2>4. QED BY <2>2, <2>3 DEF Facts
<1>8. QED BY <1>1, <1>4, <1>5, <1>6, <1>7, PipelineStep

LEMMA StepPreflight ==
  ASSUME Orderly, NEW r \in Run, Preflight(r)
  PROVE  Orderly'
<1>0. RunsTyped /\ FilesTyped /\ BackupsTyped /\ Rest /\ run[r] \in Runs /\ Facts(r)
  BY DEF Orderly, Typed, RunsTyped
<1>1. run[r].pc = "preflight" /\ InPipeline(r)
  BY DEF Preflight, At, InPipeline
<1>2. /\ RunsTyped' /\ Same(r)
      /\ run'[r].pc = "backup"
      /\ run'[r].entry = run[r].entry
      /\ run'[r].marks = run[r].marks \cup (IF OneVersion THEN {"sound"} ELSE {})
      /\ run'[r].point = None
      /\ run'[r].dump = None
  <2> DEFINE m == run[r].marks \cup (IF OneVersion THEN {"sound"} ELSE {})
             q == RunAt("backup", run[r].entry, m, None, None)
  <2>1. q \in Runs /\ q.pc = "backup" /\ q.entry = run[r].entry /\ q.marks = m
        /\ q.point = None /\ q.dump = None
    BY <1>0, <1>1, Bounds DEF RunAt, Runs, Steps, Marks, FilesTyped
  <2>2. run' = [run EXCEPT ![r] = q]
    BY DEF Preflight
  <2> HIDE DEF q
  <2>3. QED BY <1>0, <2>1, <2>2, OneRun
<1>3. FilesTyped' /\ Rest' /\ lock' = lock
  BY <1>0, <1>1, <1>2, Bounds DEF Preflight, FilesTyped, Rest, files, Runs, Told, Busy, Facts, Shape
<1>4. BackupsTyped'
  BY <1>0, <1>1 DEF Preflight, BackupsTyped, files, FilesTyped
<1>5. Facts(r)'
  <2>1. Shape(r)'
    BY <1>0, <1>1, <1>2 DEF Preflight, Facts, Shape, WayBack, Sound, Marked, Untouched, Point, OneVersion, Updating, UpdateSteps, Fresh, InPipeline, ByServer, files, FilesTyped
  <2>2. run'[r].pc \notin {"off", "exit"} /\ Sound(r)' => WayBack(r)'
    BY <1>0, <1>1, <1>2, Bounds DEF Preflight, Facts, Shape, WayBack, Sound, Marked, Untouched, Point, OneVersion, Updating, UpdateSteps, Fresh, InPipeline, files, FilesTyped, Runs
  <2>3. QED BY <2>1, <2>2 DEF Facts
<1>6. QED BY <1>1, <1>2, <1>3, <1>4, <1>5, SameIsAlike, PipelineStep

LEMMA StepCheckScripts ==
  ASSUME Orderly, NEW r \in Run, CheckScripts(r)
  PROVE  Orderly'
<1>0. RunsTyped /\ FilesTyped /\ BackupsTyped /\ Rest /\ run[r] \in Runs /\ Facts(r)
  BY DEF Orderly, Typed, RunsTyped
<1>1. run[r].pc = "scripts" /\ InPipeline(r)
  BY DEF CheckScripts, At, InPipeline
<1>2. /\ RunsTyped' /\ Same(r)
      /\ run'[r].pc \in {"check", "build"}
      /\ run'[r].entry = run[r].entry
      /\ run'[r].marks \in {run[r].marks, (run[r].marks \ {"owns"}) \cup {"self"}}
      /\ run'[r].point = run[r].point
      /\ run'[r].dump = run[r].dump
      /\ (run'[r].pc = "check" => "self" \in run'[r].marks)
  <2>a. CASE Go(r, "build")
    BY <1>0, <1>1, <2>a, GoRun DEF Steps
  <2>b. CASE run' = [run EXCEPT ![r] = RunAt("check", run[r].entry, (run[r].marks \ {"owns"}) \cup {"self"}, run[r].point, run[r].dump)]
    <3> DEFINE m == (run[r].marks \ {"owns"}) \cup {"self"}
               q == RunAt("check", run[r].entry, m, run[r].point, run[r].dump)
    <3>1. q \in Runs /\ q.pc = "check" /\ q.entry = run[r].entry /\ q.marks = m
          /\ q.point = run[r].point /\ q.dump = run[r].dump
      BY <1>0, <1>1, Bounds DEF RunAt, Runs, Steps, Marks, FilesTyped
    <3>2. run' = [run EXCEPT ![r] = q]
      BY <2>b
    <3> HIDE DEF q
    <3>3. QED BY <1>0, <3>1, <3>2, OneRun
  <2>c. QED BY <2>a, <2>b DEF CheckScripts
<1>3. FilesTyped' /\ Rest' /\ lock' = lock
  BY <1>0, <1>1, <1>2, Bounds DEF CheckScripts, FilesTyped, Rest, files, Runs, Told, Busy, Facts, Shape
<1>4. BackupsTyped'
  BY <1>0, <1>1 DEF CheckScripts, BackupsTyped, files, FilesTyped
<1>5. Facts(r)'
  <2>1. Shape(r)'
    BY <1>0, <1>1, <1>2 DEF CheckScripts, Facts, Shape, WayBack, Sound, Marked, Untouched, Point, OneVersion, Updating, UpdateSteps, Fresh, InPipeline, ByServer, files, FilesTyped
  <2>2. ASSUME Sound(r)' PROVE WayBack(r)'
    <3>1. Sound(r)
      <4>1. "sound" \in run[r].marks
        <5>1. CASE run'[r].marks = run[r].marks
          BY <2>2, <5>1 DEF Sound, Marked
        <5>2. CASE run'[r].marks = (run[r].marks \ {"owns"}) \cup {"self"}
          BY <2>2, <5>2 DEF Sound, Marked
        <5>3. QED BY <1>2, <5>1, <5>2
      <4>2. QED BY <1>2, <2>2, <4>1 DEF Sound, Marked, Updating
    <3>2. WayBack(r)
      BY <1>0, <1>1, <3>1 DEF Facts
    <3>3. /\ Point(r) /\ running = run[r].point /\ db = run[r].point /\ Untouched(r)
      BY <1>1, <3>2 DEF WayBack
    <3>4. UNCHANGED <<head, image, running, db, backups>>
      BY DEF CheckScripts, files
    <3>5. Point(r)' /\ running' = run'[r].point /\ db' = run'[r].point
      BY <1>2, <3>3, <3>4 DEF Point
    <3>6. Untouched(r)'
      <4>1. CASE run'[r].marks = run[r].marks
        BY <3>3, <4>1 DEF Untouched, Marked
      <4>2. CASE run'[r].marks = (run[r].marks \ {"owns"}) \cup {"self"}
        BY <3>3, <4>2 DEF Untouched, Marked
      <4>3. QED BY <1>2, <4>1, <4>2
    <3>7. QED BY <1>2, <3>5, <3>6 DEF WayBack
  <2>3. QED BY <2>1, <2>2 DEF Facts
<1>6. QED BY <1>1, <1>2, <1>3, <1>4, <1>5, SameIsAlike, PipelineStep

LEMMA StepRollbackDatabase ==
  ASSUME Orderly, NEW r \in Run, RollbackDatabase(r)
  PROVE  Orderly'
<1>0. RunsTyped /\ FilesTyped /\ BackupsTyped /\ Rest /\ run[r] \in Runs /\ Facts(r)
  BY DEF Orderly, Typed, RunsTyped
<1>1. run[r].pc \in {"drop", "createdb", "restore"} /\ ~Updating(r) /\ InPipeline(r)
  BY DEF RollbackDatabase, At, InPipeline
<1>2. /\ RunsTyped' /\ Same(r)
      /\ run'[r].pc \in {"createdb", "restore", "rebuild"}
      /\ run'[r].entry = run[r].entry
      /\ run'[r].marks = run[r].marks
      /\ run'[r].point = run[r].point
      /\ run'[r].dump = run[r].dump
  BY <1>0, <1>1, GoRun, GoWithRun, GoOnRun, EndRun DEF RollbackDatabase, Steps, Marks
<1>3. FilesTyped' /\ Rest' /\ lock' = lock
  <2>1. Restorable(r) => backups[run[r].dump] \in Versions \cup {EmptyDb}
    BY <1>0 DEF Restorable, Present, BackupsTyped, Dumps
  <2>2. db' \in Versions \cup {EmptyDb, NoDb} /\ UNCHANGED <<remote, head, image, running, lock, status>>
    BY <2>1 DEF RollbackDatabase
  <2>3. QED BY <1>0, <2>2 DEF FilesTyped, Rest
<1>4. BackupsTyped'
  BY <1>0 DEF RollbackDatabase, BackupsTyped
<1>5. Facts(r)'
  <2>1. Shape(r)'
    BY <1>0, <1>1, <1>2 DEF RollbackDatabase, Facts, Shape, WayBack, Sound, Marked, Untouched, Point, OneVersion, Updating, UpdateSteps, Fresh, InPipeline, ByServer, files, FilesTyped
  <2>2. run'[r].pc \notin {"off", "exit"} /\ Sound(r)' => WayBack(r)'
    BY <1>1, <1>2 DEF Sound, Updating
  <2>3. QED BY <2>1, <2>2 DEF Facts
<1>6. QED BY <1>1, <1>2, <1>3, <1>4, <1>5, SameIsAlike, PipelineStep

LEMMA StepRollbackServices ==
  ASSUME Orderly, NEW r \in Run, RollbackServices(r)
  PROVE  Orderly'
<1>0. RunsTyped /\ FilesTyped /\ BackupsTyped /\ Rest /\ run[r] \in Runs /\ Facts(r)
  BY DEF Orderly, Typed, RunsTyped
<1>1. run[r].pc \in {"rebuild", "reup"} /\ ~Updating(r) /\ InPipeline(r)
  BY DEF RollbackServices, At, InPipeline
<1>2. /\ RunsTyped' /\ Same(r)
      /\ run'[r].pc \in {"reup", "health"}
      /\ run'[r].entry = run[r].entry
      /\ run'[r].marks = run[r].marks
      /\ run'[r].point = run[r].point
      /\ run'[r].dump = run[r].dump
  BY <1>0, <1>1, GoRun, GoWithRun, GoOnRun, EndRun DEF RollbackServices, Steps, Marks
<1>3. FilesTyped' /\ Rest' /\ lock' = lock
  BY <1>0, <1>1, <1>2, Bounds DEF RollbackServices, FilesTyped, Rest, files, Runs, Told, Busy, Facts, Shape
<1>4. BackupsTyped'
  BY <1>0, <1>1 DEF RollbackServices, BackupsTyped, files, FilesTyped
<1>5. Facts(r)'
  <2>1. Shape(r)'
    BY <1>0, <1>1, <1>2 DEF RollbackServices, Facts, Shape, WayBack, Sound, Marked, Untouched, Point, OneVersion, Updating, UpdateSteps, Fresh, InPipeline, ByServer, files, FilesTyped
  <2>2. run'[r].pc \notin {"off", "exit"} /\ Sound(r)' => WayBack(r)'
    BY <1>1, <1>2 DEF Sound, Updating
  <2>3. QED BY <2>1, <2>2 DEF Facts
<1>6. QED BY <1>1, <1>2, <1>3, <1>4, <1>5, SameIsAlike, PipelineStep

LEMMA StepRollbackFails ==
  ASSUME Orderly, NEW r \in Run, RollbackFails(r)
  PROVE  Orderly'
<1>0. RunsTyped /\ FilesTyped /\ BackupsTyped /\ Rest /\ run[r] \in Runs /\ Facts(r)
  BY DEF Orderly, Typed, RunsTyped
<1>1. run[r].pc \in {"target", "drop", "createdb", "restore", "rebuild", "reup", "health"} /\ ~Updating(r) /\ InPipeline(r)
  BY DEF RollbackFails, At, InPipeline
<1>2. /\ RunsTyped' /\ Same(r)
      /\ run'[r].pc = "exit"
      /\ run'[r].entry = run[r].entry
  BY <1>0, <1>1, GoRun, GoWithRun, GoOnRun, EndRun DEF RollbackFails, Steps, Marks
<1>3. FilesTyped' /\ Rest' /\ lock' = lock
  BY <1>0, <1>1, <1>2, Bounds DEF RollbackFails, FilesTyped, Rest, files, Runs, Told, Busy, Facts, Shape
<1>4. BackupsTyped'
  BY <1>0, <1>1 DEF RollbackFails, BackupsTyped, files, FilesTyped
<1>5. Facts(r)'
  <2>1. Shape(r)'
    BY <1>0, <1>1, <1>2 DEF RollbackFails, Facts, Shape, WayBack, Sound, Marked, Untouched, Point, OneVersion, Updating, UpdateSteps, Fresh, InPipeline, ByServer, files, FilesTyped
  <2>2. run'[r].pc \notin {"off", "exit"} /\ Sound(r)' => WayBack(r)'
    BY <1>1, <1>2 DEF Sound, Updating
  <2>3. QED BY <2>1, <2>2 DEF Facts
<1>6. QED BY <1>1, <1>2, <1>3, <1>4, <1>5, SameIsAlike, PipelineStep

\* What rollback.sh makes of its arguments.
LEMMA TargetRun ==
  ASSUME RunsTyped, FilesTyped, BackupsTyped, NEW r \in Run,
         NEW c \in 0..head, NEW d \in Gone..Len(backups), Target(r, c, d)
  PROVE  /\ RunsTyped' /\ Same(r) /\ run'[r].pc \in {"rebuild", "drop"}
         /\ run'[r].entry = run[r].entry /\ head' \in Versions
<1> DEFINE target == IF c # None THEN c ELSE head - 1
           file == IF d # None THEN d ELSE Len(backups)
           pc == IF file \in DOMAIN backups THEN "drop" ELSE "rebuild"
<1>1. /\ target # None /\ head' = target
      /\ run' = [run EXCEPT ![r] = RunAt(pc, run[r].entry, run[r].marks, target, file)]
  BY DEF Target
<1>2. run[r].entry \in AllEntries /\ run[r].marks \in SUBSET Marks /\ head \in 1..LastVersion /\ LastVersion \in Nat
  BY UpdaterNumbers DEF RunsTyped, Runs, FilesTyped, Versions
<1>3. target \in 0..LastVersion /\ target \in Versions
  BY <1>1, <1>2 DEF Versions, None
<1>4. file \in Gone..MaxDumps
  <2>1. Len(backups) \in Nat /\ Len(backups) <= MaxDumps /\ MaxDumps \in Nat
    BY UpdaterNumbers DEF BackupsTyped
  <2>2. QED BY <2>1 DEF Gone
<1>5. pc \in {"rebuild", "drop"} /\ pc \in Steps
  BY DEF Steps
<1> DEFINE q == RunAt(pc, run[r].entry, run[r].marks, target, file)
<1>6. q \in Runs /\ q.pc = pc /\ q.entry = run[r].entry
  <2> HIDE DEF target, file, pc
  <2>1. QED BY <1>2, <1>3, <1>4, <1>5 DEF RunAt, Runs
<1>7. run' = [run EXCEPT ![r] = q]
  BY <1>1
<1> HIDE DEF q
<1>8. RunsTyped' /\ Same(r) /\ run'[r] = q
  BY <1>6, <1>7, OneRun
<1>9. QED BY <1>1, <1>3, <1>5, <1>6, <1>8

LEMMA StepTarget ==
  ASSUME Orderly, NEW r \in Run, NEW c \in 0..head, NEW d \in Gone..Len(backups), Target(r, c, d)
  PROVE  Orderly'
<1>0. RunsTyped /\ FilesTyped /\ BackupsTyped /\ Rest /\ Facts(r)
  BY DEF Orderly, Typed
<1>1. run[r].pc = "target" /\ InPipeline(r) /\ ~Updating(r)
  BY <1>0 DEF Target, At, InPipeline, Facts, Shape
<1>2. /\ RunsTyped' /\ Same(r) /\ run'[r].pc \in {"rebuild", "drop"}
      /\ run'[r].entry = run[r].entry /\ head' \in Versions
  BY <1>0, TargetRun
<1>3. UNCHANGED <<remote, image, running, db, backups, lock>> /\ status' = "rolling_back"
  BY DEF Target
<1>4. FilesTyped' /\ BackupsTyped' /\ Rest'
  BY <1>0, <1>2, <1>3 DEF FilesTyped, BackupsTyped, Rest, Busy
<1>5. Facts(r)'
  BY <1>1, <1>2 DEF Facts, Shape, Sound, Updating, UpdateSteps, Fresh
<1>6. QED BY <1>1, <1>2, <1>3, <1>4, <1>5, SameIsAlike, PipelineStep

-----------------------------------------------------------------------------
\* A step that works on no file: the other runs find what they found.
LEMMA OutsideStep ==
  ASSUME Orderly, NEW r \in Run, Same(r), UNCHANGED <<remote, files, status>>,
         RunsTyped', LockTyped', Locks', Facts(r)'
  PROVE  Orderly'
<1>1. UNCHANGED <<remote, head, image, running, db, backups, status>>
  BY DEF files
<1>2. FilesTyped' /\ BackupsTyped' /\ Rest'
  BY <1>1 DEF Orderly, Typed, FilesTyped, BackupsTyped, Rest
<1>3. ASSUME NEW s \in Run \ {r} PROVE Facts(s)'
  <2>1. Facts(s) /\ run'[s] = run[s]
    BY DEF Orderly, Same
  <2>2. Shape(s)'
    BY <1>1, <2>1 DEF Facts, Shape, Fresh, Updating, OneVersion
  <2>3. Sound(s)' => Sound(s)
    BY <2>1 DEF Sound, Marked, Updating
  <2>4. WayBack(s) => WayBack(s)'
    BY <1>1, <2>1 DEF WayBack, Point, Marked, Untouched, OneVersion
  <2>5. QED BY <2>1, <2>2, <2>3, <2>4 DEF Facts
<1>4. QED BY <1>2, <1>3 DEF Orderly, Typed

\* The lock when a run starts: no other is on its way to it.
LEMMA StepStart ==
  ASSUME Orderly, NEW r \in Run, ~Alive(r), Quiet, Overlap = FALSE, NEW q \in Runs,
         run' = [run EXCEPT ![r] = q], q.marks = {},
         UNCHANGED <<remote, files, status>>,
         \/ q.pc = "child" /\ ~Held /\ lock' \in {Free, lock}
         \/ q.pc = "check" /\ q.entry = "make update" /\ lock' = lock
  PROVE  Orderly'
<1>1. RunsTyped /\ LockTyped /\ Locks
  BY DEF Orderly, Typed
<1>2. RunsTyped' /\ Same(r) /\ run'[r] = q
  BY <1>1, OneRun
<1>3. \A s \in Run : run[s].pc \notin {"child", "check", "create"}
  BY DEF Quiet
<1>4. \A s \in Run \ {r} : run'[s] = run[s] /\ ~Fresh(s)' /\ (Owner(s)' => Owner(s)) /\ run'[s].pc # "child"
  BY <1>2, <1>3 DEF Same, Fresh, Owner, ByServer
<1>5. Fresh(r)' /\ ~Owner(r)'
  BY <1>2 DEF Fresh, Owner
<1>6. LockTyped'
  BY <1>1 DEF LockTyped
<1>7. Locks'
  <2>1. \A s, t \in Run : Fresh(s)' /\ Fresh(t)' => s = t
    BY <1>4
  <2>2. ASSUME NEW s \in Run, Owner(s)' PROVE (lock \in Mine(s))'
    <3>1. s # r /\ Owner(s) /\ lock \in Mine(s) /\ Held
      BY <1>1, <1>4, <1>5, <2>2, HeldNames DEF Locks
    <3>2. QED BY <3>1 DEF Mine, Child, Script
  <2>3. q.pc = "child" => ~Held'
    BY HeldNames DEF Held, Free
  <2>4. \A s \in Run : run'[s].pc = "child" => ~Held' /\ "self" \notin run'[s].marks
    BY <1>2, <1>4, <2>3
  <2>5. \A s \in Run : ~(Fresh(s)' /\ run'[s].pc = "check" /\ ByServer(s)')
    BY <1>2, <1>4 DEF ByServer
  <2>6. \A s \in Run : ~(Fresh(s)' /\ run'[s].pc = "create")
    BY <1>2, <1>4
  <2>7. QED BY <2>1, <2>2, <2>4, <2>5, <2>6 DEF Locks
<1>8. Facts(r)'
  <2>1. Shape(r)'
    BY <1>2 DEF Shape, Updating, UpdateSteps
  <2>2. ~Sound(r)'
    BY <1>2 DEF Sound, Marked
  <2>3. QED BY <2>1, <2>2 DEF Facts
<1>9. QED BY <1>2, <1>6, <1>7, <1>8, OutsideStep

LEMMA StepWriteLock ==
  ASSUME Orderly, NEW r \in Run, WriteLock(r)
  PROVE  Orderly'
<1>0. RunsTyped /\ LockTyped /\ Locks /\ Facts(r) /\ run[r].pc = "child" /\ Fresh(r) /\ ~Held
  BY DEF Orderly, Typed, Locks, WriteLock, At, Fresh
<1>1. /\ RunsTyped' /\ Same(r) /\ run'[r].pc = (IF Updating(r) THEN "check" ELSE "target")
      /\ run'[r].entry = run[r].entry /\ run'[r].marks = run[r].marks
  BY <1>0, GoRun DEF WriteLock, Steps
<1>2. \A s \in Run \ {r} : run'[s] = run[s] /\ ~Fresh(s)' /\ ~Owner(s)' /\ run'[s].pc # "child"
  <2>1. \A s \in Run \ {r} : run'[s] = run[s] /\ ~Fresh(s) /\ ~Owner(s) /\ run[s].pc # "child"
    BY <1>0, <1>1, HeldNames DEF Same, Locks, Fresh
  <2>2. QED BY <2>1 DEF Fresh, Owner, ByServer
<1>3. lock' = Child(r) /\ UNCHANGED <<remote, files, status>>
  BY DEF WriteLock
<1>4. LockTyped'
  BY <1>3, MineTyped DEF LockTyped
<1>5. Locks'
  <2>1. (lock \in Mine(r))'
    BY <1>3 DEF Mine, Child, Script
  <2>2. run'[r].pc \notin {"child", "create"}
    BY <1>1
  <2>3. QED BY <1>2, <1>3, <2>1, <2>2 DEF Locks, Child
<1>6. Facts(r)'
  <2>1. Shape(r)'
    BY <1>0, <1>1 DEF Facts, Shape, Fresh, Updating, UpdateSteps
  <2>2. ~Sound(r)'
    BY <1>0, <1>1 DEF Facts, Shape, Sound, Marked
  <2>3. QED BY <2>1, <2>2 DEF Facts
<1>7. QED BY <1>1, <1>3, <1>4, <1>5, <1>6, OutsideStep

LEMMA StepCheckLock ==
  ASSUME Orderly, NEW r \in Run, CheckLock(r)
  PROVE  Orderly'
<1>0. RunsTyped /\ LockTyped /\ Locks /\ Facts(r) /\ run[r].pc = "check" /\ Updating(r)
  BY DEF Orderly, Typed, CheckLock, At, Facts, Shape, UpdateSteps
<1>1. /\ RunsTyped' /\ Same(r) /\ run'[r].pc \in {"exit", "create"}
      /\ run'[r].entry = run[r].entry
      /\ run'[r].pc = "exit" => run'[r].marks = run[r].marks \cap {"owns"}
      /\ run'[r].pc = "create" => /\ run'[r].marks = run[r].marks
                                 /\ run'[r].point = run[r].point /\ run'[r].dump = run[r].dump
  <2>1. CASE Go(r, "create")
    BY <1>0, <2>1, GoRun DEF Steps
  <2>2. CASE End(r)
    BY <1>0, <2>2, EndRun
  <2>3. QED BY <2>1, <2>2 DEF CheckLock
<1>2. UNCHANGED <<remote, files, status>>
  BY DEF CheckLock
<1>3. \A s \in Run \ {r} : run'[s] = run[s] /\ (Fresh(s)' <=> Fresh(s)) /\ (Owner(s)' <=> Owner(s))
                           /\ (ByServer(s)' <=> ByServer(s))
  BY <1>1 DEF Same, Fresh, Owner, ByServer
<1>4. Facts(r)'
  <2>1. Fresh(r)' => Fresh(r)
    BY <1>0, <1>1 DEF Fresh
  <2>2. Shape(r)'
    BY <1>0, <1>1, <2>1 DEF Facts, Shape, Updating
  <2>3. UNCHANGED <<head, image, running, db, backups>>
    BY <1>2 DEF files
  <2>4. ASSUME run'[r].pc = "create", Sound(r)' PROVE WayBack(r)'
    <3>1. WayBack(r)
      BY <1>0, <1>1, <2>4 DEF Facts, Sound, Marked, Updating
    <3>2. QED BY <1>0, <1>1, <2>3, <2>4, <3>1 DEF WayBack, Point, Marked, Untouched
  <2>5. QED BY <1>1, <2>2, <2>4 DEF Facts
<1>5. CASE ~Fresh(r)
  <2>1. Owner(r) /\ lock \in Mine(r) /\ Held /\ "self" \in run[r].marks
    BY <1>0, <1>5, HeldNames DEF Owner, Locks, Fresh
  <2>2. lock' = lock
    BY <2>1 DEF CheckLock
  <2>3. ~Fresh(r)'
    BY <1>1, <2>1 DEF Fresh
  <2>4. LockTyped'
    BY <1>0, <2>2 DEF LockTyped
  <2>5. Locks'
    <3>1. \A s, t \in Run : Fresh(s)' /\ Fresh(t)' => s = t
      BY <1>0, <1>3, <2>3 DEF Locks
    <3>2. \A s \in Run : Owner(s)' => (lock \in Mine(s))'
      BY <1>0, <1>3, <2>1, <2>2 DEF Locks, Mine, Child, Script
    <3>3. \A s \in Run : run'[s].pc = "child" => ~Held' /\ "self" \notin run'[s].marks
      BY <1>0, <1>1, <1>3, <2>1 DEF Locks
    <3>4. \A s \in Run : Fresh(s)' /\ run'[s].pc = "check" /\ ByServer(s)' => lock' = Child(s)
      BY <1>0, <1>3, <2>2, <2>3 DEF Locks
    <3>5. \A s \in Run : Fresh(s)' /\ run'[s].pc = "create" => lock' \in {Free} \cup Mine(s)
      BY <1>0, <1>3, <2>2, <2>3 DEF Locks
    <3>6. QED BY <3>1, <3>2, <3>3, <3>4, <3>5 DEF Locks, Mine, Child, Script
  <2>6. QED BY <1>1, <1>2, <1>4, <2>4, <2>5, OutsideStep
<1>6. CASE Fresh(r)
  <2>1. run[r].marks = {} /\ \A s \in Run \ {r} : ~Fresh(s)' /\ run'[s].pc # "child"
    BY <1>0, <1>3, <1>6 DEF Facts, Shape, Locks, Fresh
  <2>2. CASE run'[r].pc = "exit"
    <3>1. Held /\ lock # Parent(r) /\ lock' = lock
      BY <1>0, <2>2, GoRun DEF CheckLock, Steps
    <3>2. ~ByServer(r)
      BY <1>0, <1>6, <2>1, <3>1 DEF Locks, Parent
    <3>3. ~Owner(r)' /\ ~Fresh(r)'
      BY <1>1, <2>1, <2>2, <3>2 DEF Owner, Fresh, ByServer
    <3>4. \A s \in Run : Owner(s)' => (lock \in Mine(s))'
      BY <1>0, <1>3, <3>1, <3>3 DEF Locks, Mine, Child, Script
    <3>5. Locks'
      BY <1>1, <2>1, <3>3, <3>4 DEF Locks
    <3>6. LockTyped'
      BY <1>0, <3>1 DEF LockTyped
    <3>7. QED BY <1>1, <1>2, <1>4, <3>5, <3>6, OutsideStep
  <2>3. CASE run'[r].pc = "create"
    <3>1. \/ Held /\ lock = Parent(r) /\ lock' = lock
          \/ ~Held /\ lock' = Free
      BY <1>0, <2>3, EndRun DEF CheckLock
    <3>2. \/ lock' = Child(r) /\ lock' = lock
          \/ ~Held /\ lock' = Free
      BY <1>0, <2>1, <3>1, HeldNames, Names DEF Parent
    <3>3. lock' \in {Free} \cup Mine(r) /\ LockTyped'
      BY <1>0, <3>2 DEF LockTyped, Mine
    <3>4. Fresh(r)' /\ ~Owner(r)'
      BY <1>1, <2>1, <2>3 DEF Fresh, Owner
    <3>5. \A s \in Run : Owner(s)' => (lock \in Mine(s))'
      BY <1>0, <1>3, <3>2, <3>4, HeldNames DEF Locks, Mine, Child, Script
    <3>6. Locks'
      <4>1. run'[r].pc \notin {"child", "check"}
        BY <2>3
      <4>2. \A s, t \in Run : Fresh(s)' /\ Fresh(t)' => s = t
        BY <2>1
      <4>3. \A s \in Run : Fresh(s)' /\ run'[s].pc = "create" => lock' \in {Free} \cup Mine(s)
        BY <2>1, <3>3
      <4>4. \A s \in Run : ~(run'[s].pc = "child") /\ ~(Fresh(s)' /\ run'[s].pc = "check")
        BY <2>1, <4>1
      <4>5. QED BY <3>5, <4>2, <4>3, <4>4 DEF Locks, Mine, Child, Script
    <3>7. QED BY <1>1, <1>2, <1>4, <3>3, <3>6, OutsideStep
  <2>4. QED BY <1>1, <2>2, <2>3
<1>7. QED BY <1>5, <1>6

LEMMA StepCreateLock ==
  ASSUME Orderly, NEW r \in Run, CreateLock(r)
  PROVE  Orderly'
<1>0. RunsTyped /\ LockTyped /\ Locks /\ Facts(r) /\ run[r].pc = "create" /\ Updating(r)
  BY DEF Orderly, Typed, CreateLock, At, Facts, Shape, UpdateSteps
<1>1. UNCHANGED <<remote, files, status>>
  BY DEF CreateLock
<1>2. UNCHANGED <<head, image, running, db, backups>>
  BY <1>1 DEF files
<1>3. CASE ~Fresh(r)
  <2>1. Owner(r) /\ lock \in Mine(r) /\ lock # Free /\ "self" \in run[r].marks
    BY <1>0, <1>3, Names DEF Owner, Locks, Fresh
  <2>2. lock' = lock /\ Go(r, "resume")
    BY <2>1 DEF CreateLock
  <2>3. /\ RunsTyped' /\ Same(r) /\ run'[r].pc = "resume"
        /\ run'[r].entry = run[r].entry /\ run'[r].marks = run[r].marks
        /\ run'[r].point = run[r].point /\ run'[r].dump = run[r].dump
    BY <1>0, <2>2, GoRun DEF Steps
  <2>4. \A s \in Run \ {r} : run'[s] = run[s] /\ (Fresh(s)' <=> Fresh(s)) /\ (Owner(s)' <=> Owner(s))
                             /\ (ByServer(s)' <=> ByServer(s))
    BY <2>3 DEF Same, Fresh, Owner, ByServer
  <2>5. ~Fresh(r)' /\ run'[r].pc # "child"
    BY <2>3 DEF Fresh
  <2>6. LockTyped'
    BY <1>0, <2>2 DEF LockTyped
  <2>7. Locks'
    <3>1. \A s, t \in Run : Fresh(s)' /\ Fresh(t)' => s = t
      BY <1>0, <2>4, <2>5 DEF Locks
    <3>2. \A s \in Run : Owner(s)' => (lock \in Mine(s))'
      BY <1>0, <2>4, <2>1, <2>2 DEF Locks, Mine, Child, Script
    <3>3. \A s \in Run : run'[s].pc = "child" => ~Held' /\ "self" \notin run'[s].marks
      BY <1>0, <2>2, <2>4, <2>5 DEF Locks, Held
    <3>4. \A s \in Run : Fresh(s)' /\ run'[s].pc = "check" /\ ByServer(s)' => lock' = Child(s)
      BY <1>0, <2>2, <2>4, <2>5 DEF Locks
    <3>5. \A s \in Run : Fresh(s)' /\ run'[s].pc = "create" => lock' \in {Free} \cup Mine(s)
      BY <1>0, <2>2, <2>4, <2>5 DEF Locks
    <3>6. QED BY <3>1, <3>2, <3>3, <3>4, <3>5 DEF Locks, Mine, Child, Script
  <2>8. Facts(r)'
    <3>1. Shape(r)'
      BY <1>0, <2>3 DEF Shape, Updating, Fresh
    <3>2. ASSUME Sound(r)' PROVE WayBack(r)'
      <4>1. WayBack(r)
        BY <1>0, <2>3, <3>2 DEF Facts, Sound, Marked, Updating
      <4>2. QED BY <1>0, <1>2, <2>3, <4>1 DEF WayBack, Point, Marked, Untouched
    <3>3. QED BY <3>1, <3>2 DEF Facts
  <2>9. QED BY <1>1, <2>3, <2>6, <2>7, <2>8, OutsideStep
<1>4. CASE Fresh(r)
  <2>1. run[r].marks = {} /\ lock \in {Free} \cup Mine(r)
    BY <1>0, <1>4 DEF Facts, Shape, Locks
  <2>2. /\ RunsTyped' /\ Same(r) /\ run'[r].pc = "preflight"
        /\ run'[r].entry = run[r].entry /\ run'[r].marks \subseteq {"owns"}
        /\ lock' \in Mine(r) /\ lock \in {Free, lock'}
    <3>1. CASE lock = Free /\ lock' = Script(r) /\ GoWith(r, "preflight", "owns")
      BY <1>0, <2>1, <3>1, GoWithRun DEF Steps, Marks, Mine
    <3>2. CASE lock # Free /\ lock' = lock /\ Go(r, "preflight")
      BY <1>0, <2>1, <3>2, GoRun DEF Steps
    <3>3. QED BY <2>1, <3>1, <3>2 DEF CreateLock
  <2>3. \A s \in Run \ {r} : ~Owner(s)
    BY <1>0, <2>2, HeldNames, MineNames DEF Locks
  <2>4. \A s \in Run \ {r} : run'[s] = run[s] /\ ~Fresh(s)' /\ run'[s].pc # "child" /\ ~Owner(s)'
    <3>1. \A s \in Run \ {r} : run'[s] = run[s] /\ ~Fresh(s) /\ run[s].pc # "child"
      BY <1>0, <1>4, <2>2 DEF Locks, Fresh, Same
    <3>2. QED BY <2>3, <3>1 DEF Fresh, Owner, ByServer
  <2>5. LockTyped'
    BY <2>2, MineTyped DEF LockTyped, Mine
  <2>6. ~Fresh(r)' /\ run'[r].pc # "child"
    BY <2>2 DEF Fresh
  <2>7. (lock \in Mine(r))'
    BY <2>2 DEF Mine, Child, Script
  <2>8. Locks'
    BY <2>4, <2>6, <2>7 DEF Locks
  <2>9. Facts(r)'
    <3>1. Shape(r)'
      BY <1>0, <2>2, <2>6 DEF Shape, Updating
    <3>2. ~Sound(r)'
      BY <2>2 DEF Sound, Marked
    <3>3. QED BY <3>1, <3>2 DEF Facts
  <2>10. QED BY <1>1, <2>2, <2>5, <2>8, <2>9, OutsideStep
<1>5. QED BY <1>3, <1>4

LEMMA StepExit ==
  ASSUME Orderly, NEW r \in Run, Exit(r)
  PROVE  Orderly'
<1>0. RunsTyped /\ LockTyped /\ Locks /\ run[r].pc = "exit" /\ UNCHANGED <<remote, files, status>>
  BY DEF Orderly, Typed, Exit, At
<1>1. Off \in Runs /\ Off.pc = "off" /\ Off.marks = {}
  BY Bounds DEF Off, Runs, Steps, AllEntries, None
<1>2. RunsTyped' /\ Same(r) /\ run'[r] = Off
  BY <1>0, <1>1, OneRun DEF Exit
<1>3. \A s \in Run \ {r} : run'[s] = run[s] /\ (Fresh(s)' <=> Fresh(s)) /\ (Owner(s)' <=> Owner(s))
                           /\ (ByServer(s)' <=> ByServer(s))
  BY <1>2 DEF Same, Fresh, Owner, ByServer
<1>4. ~Fresh(r)' /\ ~Owner(r)' /\ run'[r].pc # "child"
  BY <1>1, <1>2 DEF Fresh, Owner
<1>5. \/ lock \in Mine(r) /\ lock' \in {Free, Stale}
      \/ lock' = lock
  <2>1. CASE ByServer(r) \/ "owns" \in run[r].marks
    <3>1. lock \in Mine(r) BY <1>0, <2>1 DEF Owner, Fresh, Locks
    <3>2. lock' = Free BY <2>1 DEF Exit
    <3>3. QED BY <3>1, <3>2
  <2>2. CASE ~(ByServer(r) \/ "owns" \in run[r].marks)
    BY <2>2 DEF Exit, Mine
  <2>3. QED BY <2>1, <2>2
<1>6. LockTyped'
  BY <1>0, <1>5 DEF LockTyped
<1>7. \A s \in Run \ {r} : lock \in {Free} \cup Mine(s) => lock' = lock
  BY <1>5, MineNames, Names
<1>8. Locks'
  <2>1. \A s, t \in Run : Fresh(s)' /\ Fresh(t)' => s = t
    BY <1>0, <1>3, <1>4 DEF Locks
  <2>2. \A s \in Run : Owner(s)' => lock' \in Mine(s)
    BY <1>0, <1>3, <1>4, <1>7 DEF Locks
  <2>3. \A s \in Run : run'[s].pc = "child" => ~Held' /\ "self" \notin run'[s].marks
    <3>1. ~Held => ~Held'
      BY <1>5, HeldNames DEF Held
    <3>2. QED BY <1>0, <1>3, <1>4, <3>1 DEF Locks
  <2>4. \A s \in Run : Fresh(s)' /\ run'[s].pc = "check" /\ ByServer(s)' => lock' = Child(s)
    BY <1>0, <1>3, <1>4, <1>7 DEF Locks, Mine
  <2>5. \A s \in Run : Fresh(s)' /\ run'[s].pc = "create" => lock' \in {Free} \cup Mine(s)
    BY <1>0, <1>3, <1>4, <1>7 DEF Locks
  <2>6. QED BY <2>1, <2>2, <2>3, <2>4, <2>5 DEF Locks, Mine, Child, Script
<1>9. Facts(r)'
  BY <1>1, <1>2, <1>4 DEF Facts, Shape, UpdateSteps
<1>10. QED BY <1>0, <1>2, <1>6, <1>8, <1>9, OutsideStep

LEMMA StepRestart ==
  ASSUME Orderly, RestartUpdater
  PROVE  Orderly'
<1>1. Off \in Runs /\ Off.pc = "off" /\ Off.marks = {}
  BY Bounds DEF Off, Runs, Steps, AllEntries, None
<1>2. RunsTyped' /\ \A s \in Run : run'[s] = Off
  BY <1>1 DEF RestartUpdater, RunsTyped
<1>3. UNCHANGED <<remote, head, image, running, db, backups, status>>
  BY DEF RestartUpdater, files
<1>4. FilesTyped' /\ BackupsTyped'
  BY <1>3 DEF Orderly, Typed, FilesTyped, BackupsTyped
<1>5. Rest'
  BY <1>3 DEF Orderly, Typed, Rest
<1>6. LockTyped'
  BY DEF RestartUpdater, LockTyped
<1>7. Locks'
  BY <1>1, <1>2 DEF Locks, Fresh, Owner
<1>8. \A s \in Run : Facts(s)'
  BY <1>1, <1>2 DEF Facts, Shape, Fresh, UpdateSteps
<1>9. QED BY <1>2, <1>4, <1>5, <1>6, <1>7, <1>8 DEF Orderly, Typed

\* A backup and a pushed commit change nothing a script stands on: a dump it named
\* keeps its content, or is gone.
LEMMA StepApart ==
  ASSUME Orderly, UNCHANGED <<head, image, running, db, lock, status>>,
         remote' \in Versions, BackupsTyped', RunsTyped',
         \A s \in Run : /\ run'[s].pc = run[s].pc /\ run'[s].entry = run[s].entry
                       /\ run'[s].marks = run[s].marks /\ run'[s].point = run[s].point
                       /\ (Point(s) => Point(s)')
  PROVE  Orderly'
<1>1. FilesTyped' /\ LockTyped' /\ Rest'
  BY DEF Orderly, Typed, FilesTyped, LockTyped, Rest
<1>2. Locks'
  BY DEF Orderly, Locks, Fresh, Owner, ByServer, Held, Mine, Child, Script
<1>3. ASSUME NEW s \in Run PROVE Facts(s)'
  <2>1. Facts(s)
    BY DEF Orderly
  <2>2. Shape(s)'
    BY <2>1 DEF Facts, Shape, Fresh, Updating, OneVersion
  <2>3. Sound(s)' => Sound(s)
    BY DEF Sound, Marked, Updating
  <2>4. Point(s) => Point(s)'
    OBVIOUS
  <2>5. WayBack(s) => WayBack(s)'
    BY <2>4 DEF WayBack, Marked, Untouched, OneVersion
  <2>6. QED BY <2>1, <2>2, <2>3, <2>5 DEF Facts
<1>4. QED BY <1>1, <1>2, <1>3 DEF Orderly, Typed

LEMMA StepScheduledBackup ==
  ASSUME Orderly, ScheduledBackup
  PROVE  Orderly'
<1>1. BackupsTyped /\ FilesTyped /\ RunsTyped /\ remote' \in Versions
      /\ UNCHANGED <<head, image, running, db, lock, status>>
  BY DEF ScheduledBackup, Orderly, Typed, Rest
<1>2. CASE db # NoDb /\ backups' = Rotated(db) /\ run' = AfterRotation
  <2>1. db \in Versions \cup {EmptyDb}
    BY <1>1, <1>2 DEF FilesTyped
  <2>2. BackupsTyped'
    BY <1>1, <1>2, <2>1, RotatedTyped DEF BackupsTyped
  <2>3. /\ RunsTyped'
        /\ \A s \in Run : /\ run'[s].pc = run[s].pc /\ run'[s].entry = run[s].entry
                          /\ run'[s].marks = run[s].marks /\ run'[s].point = run[s].point
                          /\ run'[s].dump = Moved(run[s].dump)
    <3>1. AfterRotation \in [Run -> Runs]
      BY <1>1, <2>1, AfterRotationRuns
    <3>2. QED BY <1>1, <1>2, <2>1, <3>1, AfterRotationRuns DEF RunsTyped
  <2>4. ASSUME NEW s \in Run, Point(s) PROVE Point(s)'
    <3>1. run[s].dump \in Gone..MaxDumps
      BY <1>1 DEF RunsTyped, Runs
    <3>2. run[s].dump = Gone => run'[s].dump = Gone
      BY <1>1, <2>1, <2>3, <3>1, MovedKeeps
    <3>3. run[s].dump \in 1..Len(backups) =>
             \/ run'[s].dump = Gone
             \/ run'[s].dump \in 1..Len(backups') /\ backups'[run'[s].dump] = backups[run[s].dump]
      BY <1>1, <1>2, <2>1, <2>3, <3>1, MovedKeeps
    <3>4. QED BY <2>3, <2>4, <3>2, <3>3 DEF Point
  <2>5. QED BY <1>1, <2>2, <2>3, <2>4, StepApart
<1>3. CASE backups' \in LeftBehind /\ run' = run
  <2>1. /\ backups' \in Seq(Dumps) /\ Len(backups') <= MaxDumps /\ Len(backups) <= Len(backups')
        /\ \A i \in 1..Len(backups) : backups'[i] = backups[i]
    BY <1>1, <1>3, LeftTyped
  <2>2. Len(backups) \in Nat /\ Len(backups') \in Nat
    BY <1>1, <2>1 DEF BackupsTyped
  <2>3. BackupsTyped' /\ RunsTyped'
    BY <1>1, <1>3, <2>1 DEF BackupsTyped, RunsTyped
  <2>4. \A s \in Run : Point(s) => Point(s)'
    BY <1>3, <2>1, <2>2 DEF Point
  <2>5. QED BY <1>1, <1>3, <2>3, <2>4, StepApart
<1>4. QED BY <1>2, <1>3 DEF ScheduledBackup

LEMMA StepPushCommit ==
  ASSUME Orderly, PushCommit
  PROVE  Orderly'
<1>1. remote' \in Versions
  BY UpdaterNumbers DEF PushCommit, Orderly, Typed, Rest, Versions
<1>2. UNCHANGED <<head, image, running, db, backups, lock, status, run>>
  BY DEF PushCommit, files
<1>3. BackupsTyped' /\ RunsTyped' /\ \A s \in Run : Point(s) => Point(s)'
  BY <1>2 DEF Orderly, Typed, BackupsTyped, RunsTyped, Point
<1>4. QED BY <1>1, <1>2, <1>3, StepApart

\* What each entry starts: a child of server.sh, or update.sh from the Makefile.
LEMMA StepEntries ==
  ASSUME Orderly, Overlap = FALSE, Locked, NEW r \in Run, Start(r)
  PROVE  Orderly'
<1>0. RunsTyped /\ FilesTyped /\ BackupsTyped
  BY DEF Orderly, Typed
<1>1. ASSUME NEW entry \in Entries, RequestUpdate(r, entry) PROVE Orderly'
  <2> DEFINE q == RunAt("child", entry, {}, None, None)
  <2>1. q \in Runs /\ q.pc = "child" /\ q.marks = {}
    BY <1>1, Bounds DEF RequestUpdate, RunAt, Runs, Steps, AllEntries
  <2>2. /\ run' = [run EXCEPT ![r] = q] /\ ~Alive(r) /\ Quiet /\ ~Held /\ lock' = Free
        /\ UNCHANGED <<remote, files, status>>
    BY <1>1 DEF RequestUpdate
  <2> HIDE DEF q
  <2>3. QED BY <2>1, <2>2, StepStart
<1>2. ASSUME NEW entry \in Entries, RequestRollback(r, entry) PROVE Orderly'
  <2> DEFINE q == RunAt("child", entry, {}, None, None)
  <2>1. q \in Runs /\ q.pc = "child" /\ q.marks = {}
    BY <1>2, Bounds DEF RequestRollback, RunAt, Runs, Steps, AllEntries
  <2>2. /\ run' = [run EXCEPT ![r] = q] /\ ~Alive(r) /\ Quiet /\ ~Held /\ lock' = lock
        /\ UNCHANGED <<remote, files, status>>
    BY <1>2 DEF RequestRollback
  <2> HIDE DEF q
  <2>3. QED BY <2>1, <2>2, StepStart
<1>3. ASSUME NEW entry \in Entries, Make(r, entry) PROVE Orderly'
  <2> DEFINE q == RunAt("check", entry, {}, None, None)
  <2>1. entry = "make update"
    BY <1>3 DEF Make, Locked
  <2>2. q \in Runs /\ q.pc = "check" /\ q.marks = {} /\ q.entry = "make update"
    BY <2>1, Bounds DEF RunAt, Runs, Steps, AllEntries
  <2>3. /\ run' = [run EXCEPT ![r] = q] /\ ~Alive(r) /\ Quiet /\ lock' = lock
        /\ UNCHANGED <<remote, files, status>>
    BY <1>3, <2>1 DEF Make
  <2> HIDE DEF q
  <2>4. QED BY <2>2, <2>3, StepStart
<1>4. QED BY <1>1, <1>2, <1>3 DEF Start

LEMMA StepOrderly ==
  ASSUME Overlap = FALSE, Locked, Orderly, [Next]_vars
  PROVE  Orderly'
<1>1. ASSUME NEW r \in Run, ScriptStep(r) PROVE Orderly'
  BY <1>1, StepWriteLock, StepCheckLock, StepCreateLock, StepPreflight, StepBackupDatabase, StepPull,
     StepCheckScripts, StepResume, StepBuild, StepPushSchema, StepRestartServices, StepHealthy, StepFail,
     StepUndoGit, StepUndoDrop, StepUndoCreate, StepUndoRestore, StepUndoBuild, StepUndoUp, StepUndone,
     StepTarget, StepRollbackDatabase, StepRollbackServices, StepRollbackFails, StepExit
     DEF ScriptStep
<1>2. CASE UNCHANGED vars
  <2>1. UNCHANGED <<remote, head, image, running, db, backups, lock, status, run>>
    BY <1>2 DEF vars, files
  <2>2. remote' \in Versions /\ BackupsTyped' /\ RunsTyped' /\ \A s \in Run : Point(s) => Point(s)'
    BY <2>1 DEF Orderly, Typed, Rest, BackupsTyped, RunsTyped, Point
  <2>3. QED BY <2>1, <2>2, StepApart
<1>3. QED BY <1>1, <1>2, StepEntries, StepScheduledBackup, StepPushCommit, StepRestart DEF Next

LEMMA InitOrderly == Init => Orderly
<1> SUFFICES ASSUME Init PROVE Orderly
  OBVIOUS
<1>1. Off \in Runs /\ Off.pc = "off" /\ Off.marks = {} /\ \A r \in Run : run[r] = Off
  BY Bounds DEF Init, Off, Runs, Steps, AllEntries, None
<1>2. RunsTyped
  BY <1>1 DEF Init, RunsTyped
<1>3. FilesTyped /\ LockTyped
  BY Bounds DEF Init, FilesTyped, LockTyped
<1>4. BackupsTyped
  BY UpdaterNumbers DEF Init, BackupsTyped
<1>5. Rest
  BY Bounds, UpdaterNumbers DEF Init, Rest, Told
<1>6. Locks
  BY <1>1 DEF Locks, Fresh, Owner
<1>7. \A s \in Run : Facts(s)
  BY <1>1 DEF Facts, Shape, Fresh, UpdateSteps
<1>8. QED BY <1>2, <1>3, <1>4, <1>5, <1>6, <1>7 DEF Orderly, Typed
-----------------------------------------------------------------------------
\* The types alone need no order among the runs.
LEMMA RunSteps ==
  ASSUME Typed, NEW r \in Run
  PROVE  /\ run[r] \in Runs /\ run[r].entry \in AllEntries /\ run[r].marks \in SUBSET Marks
         /\ run[r].point \in 0..LastVersion /\ run[r].dump \in Gone..MaxDumps
         /\ \A pc \in Steps : Go(r, pc) => RunsTyped'
         /\ \A pc \in Steps, mark \in Marks : GoWith(r, pc, mark) => RunsTyped'
         /\ \A pc \in Steps : GoOn(r, pc) => RunsTyped'
         /\ End(r) => RunsTyped'
<1>1. /\ run[r] \in Runs /\ run[r].entry \in AllEntries /\ run[r].marks \in SUBSET Marks
      /\ run[r].point \in 0..LastVersion /\ run[r].dump \in Gone..MaxDumps
  BY DEF Typed, RunsTyped, Runs
<1>2. QED BY <1>1, GoRun, GoWithRun, GoOnRun, EndRun DEF Typed

LEMMA LockStepTyped ==
  ASSUME Typed, NEW r \in Run, WriteLock(r) \/ CheckLock(r) \/ CreateLock(r) \/ Exit(r)
  PROVE  Typed'
<1>1. RunsTyped'
  <2>1. CASE WriteLock(r)
    BY <2>1, RunSteps DEF WriteLock, Steps
  <2>2. CASE CheckLock(r)
    BY <2>2, RunSteps DEF CheckLock, Steps
  <2>3. CASE CreateLock(r)
    BY <2>3, RunSteps DEF CreateLock, Steps, Marks
  <2>4. CASE Exit(r)
    <3>1. Off \in Runs
      BY Bounds DEF Off, Runs, Steps, AllEntries
    <3>2. QED BY <2>4, <3>1, OneRun DEF Exit, Typed
  <2>5. QED BY <2>1, <2>2, <2>3, <2>4
<1>2. LockTyped'
  BY MineTyped DEF WriteLock, CheckLock, CreateLock, Exit, Typed, LockTyped
<1>3. UNCHANGED <<remote, files, status>>
  BY DEF WriteLock, CheckLock, CreateLock, Exit
<1>4. QED BY <1>1, <1>2, <1>3 DEF Typed, FilesTyped, BackupsTyped, Rest, files

\* A backup, with or without a run of its own.
LEMMA BackupTyped ==
  ASSUME Typed, \/ db # NoDb /\ backups' = Rotated(db)
                \/ backups' \in LeftBehind \cup {backups}
  PROVE  BackupsTyped'
BY RotatedTyped, LeftTyped DEF Typed, BackupsTyped, FilesTyped

LEMMA BackupStepTyped ==
  ASSUME Typed, NEW r \in Run, BackupDatabase(r)
  PROVE  RunsTyped'
<1> DEFINE after == AfterRotation
           entry == AfterRotation[r].entry
           marks == AfterRotation[r].marks
           dump == Len(Rotated(db))
<1>1. db \in Versions \cup {EmptyDb} /\ head \in 0..LastVersion
  BY Bounds DEF BackupDatabase, Typed, FilesTyped
<1>2. after \in [Run -> Runs]
  BY <1>1, AfterRotationRuns DEF Typed
<1>3. dump \in Gone..MaxDumps
  BY <1>1, RotatedTyped DEF Typed, Gone
<1>4. entry \in AllEntries /\ marks \in SUBSET Marks
  BY <1>2 DEF Runs
<1>5. run' = [after EXCEPT ![r] = RunAt("pull", entry, marks, head, dump)]
  BY DEF BackupDatabase
<1> HIDE DEF after, entry, marks, dump
<1>6. RunAt("pull", entry, marks, head, dump) \in Runs
  BY <1>1, <1>3, <1>4 DEF RunAt, Runs, Steps
<1>7. QED BY <1>2, <1>5, <1>6 DEF RunsTyped

LEMMA UpdateStepTyped ==
  ASSUME Typed, NEW r \in Run,
         \/ Preflight(r) \/ BackupDatabase(r) \/ Pull(r) \/ CheckScripts(r) \/ Resume(r)
         \/ Build(r) \/ PushSchema(r) \/ RestartServices(r) \/ Healthy(r) \/ Fail(r)
  PROVE  Typed'
<1>1. RunsTyped'
  <2>1. CASE Preflight(r)
    <3>1. PICK marks \in SUBSET Marks :
             run' = [run EXCEPT ![r] = RunAt("backup", run[r].entry, marks, None, None)]
      BY <2>1, RunSteps DEF Preflight, Marks
    <3>2. QED BY <3>1, RunSteps, Bounds, PutRun DEF Typed, Steps
  <2>2. CASE BackupDatabase(r)
    BY <2>2, BackupStepTyped
  <2>3. CASE CheckScripts(r)
    <3>1. CASE run' = [run EXCEPT ![r] =
                         RunAt("check", run[r].entry, (run[r].marks \ {"owns"}) \cup {"self"},
                               run[r].point, run[r].dump)]
      <4>1. (run[r].marks \ {"owns"}) \cup {"self"} \in SUBSET Marks
        BY RunSteps DEF Marks
      <4>2. QED BY <3>1, <4>1, RunSteps, PutRun DEF Typed, Steps
    <3>2. CASE Go(r, "build")
      BY <3>2, RunSteps DEF Steps
    <3>3. QED BY <2>3, <3>1, <3>2 DEF CheckScripts
  <2>4. CASE Pull(r) \/ Resume(r) \/ Build(r) \/ PushSchema(r) \/ RestartServices(r) \/ Healthy(r) \/ Fail(r)
    BY <2>4, RunSteps
    DEF Pull, Resume, Build, PushSchema, RestartServices, Healthy, Fail, Abort, Steps, Marks
  <2>5. QED BY <2>1, <2>2, <2>3, <2>4
<1>2. FilesTyped' /\ UNCHANGED <<remote, lock>>
  BY DEF Preflight, BackupDatabase, Pull, CheckScripts, Resume, Build, PushSchema,
         RestartServices, Healthy, Fail, Abort, files, Typed, FilesTyped, Rest
<1>3. BackupsTyped'
  <2>1. \/ db # NoDb /\ backups' = Rotated(db)
        \/ backups' \in LeftBehind \cup {backups}
    BY DEF Preflight, BackupDatabase, Pull, CheckScripts, Resume, Build, PushSchema,
           RestartServices, Healthy, Fail, files
  <2>2. QED BY <2>1, BackupTyped
<1>4. status' \in Busy \cup Told
  BY DEF Preflight, BackupDatabase, Pull, CheckScripts, Resume, Build, PushSchema,
         RestartServices, Healthy, Fail, Abort, Busy, Told, Typed, Rest
<1>5. QED BY <1>1, <1>2, <1>3, <1>4 DEF Typed, LockTyped, Rest

\* What a restore can put into the database.
LEMMA RestoredTyped ==
  ASSUME Typed, NEW r \in Run, Restorable(r)
  PROVE  backups[run[r].dump] \in Versions \cup {EmptyDb}
BY DEF Restorable, Present, Typed, BackupsTyped, Dumps

LEMMA UndoStepTyped ==
  ASSUME Typed, NEW r \in Run,
         \/ UndoGit(r) \/ UndoDrop(r) \/ UndoCreate(r) \/ UndoRestore(r)
         \/ UndoBuild(r) \/ UndoUp(r) \/ Undone(r)
  PROVE  Typed'
<1>0. AfterDb(r) \in Steps
  BY DEF AfterDb, Steps
<1>1. RunsTyped'
  <2>1. CASE UndoGit(r)
    <3>1. PICK next \in Steps, marks \in SUBSET Marks :
             run' = [run EXCEPT ![r] = RunAt(next, run[r].entry, marks, run[r].point, run[r].dump)]
      <4> DEFINE next == IF RestoresDb(r) THEN "drop" ELSE AfterDb(r)
                 lost == IF "changed" \in run[r].marks /\ ~Present(r) THEN {"nodump"} ELSE {}
      <4>1. PICK marks \in {run[r].marks, run[r].marks \ {"sound"}} :
               run' = [run EXCEPT ![r] = RunAt(next, run[r].entry, marks \cup lost, run[r].point, run[r].dump)]
        BY <2>1 DEF UndoGit
      <4>2. next \in Steps /\ marks \cup lost \in SUBSET Marks
        BY <1>0, RunSteps DEF Steps, Marks
      <4>3. QED BY <4>1, <4>2
    <3>2. QED BY <3>1, RunSteps, PutRun DEF Typed
  <2>2. CASE UndoDrop(r) \/ UndoCreate(r) \/ UndoRestore(r) \/ UndoBuild(r) \/ UndoUp(r) \/ Undone(r)
    BY <1>0, <2>2, RunSteps DEF UndoDrop, UndoCreate, UndoRestore, UndoBuild, UndoUp, Undone, Steps
  <2>3. QED BY <2>1, <2>2
<1>2. FilesTyped'
  <2>1. head' \in Versions
    BY RunSteps, Bounds DEF UndoGit, UndoDrop, UndoCreate, UndoRestore, UndoBuild, UndoUp, Undone, files,
         Typed, FilesTyped
  <2>2. db' \in Versions \cup {EmptyDb, NoDb}
    BY RestoredTyped DEF UndoGit, UndoDrop, UndoCreate, UndoRestore, UndoBuild, UndoUp, Undone, files,
         Typed, FilesTyped
  <2>3. image' \in Versions /\ running' \in Versions
    BY DEF UndoGit, UndoDrop, UndoCreate, UndoRestore, UndoBuild, UndoUp, Undone, files, Typed, FilesTyped
  <2>4. QED BY <2>1, <2>2, <2>3 DEF FilesTyped
<1>3. BackupsTyped' /\ UNCHANGED <<remote, lock>> /\ status' \in Busy \cup Told
  BY DEF UndoGit, UndoDrop, UndoCreate, UndoRestore, UndoBuild, UndoUp, Undone, files,
         Typed, BackupsTyped, Rest, Busy, Told
<1>4. QED BY <1>1, <1>2, <1>3 DEF Typed, LockTyped, Rest

LEMMA RollbackStepTyped ==
  ASSUME Typed, NEW r \in Run,
         \/ \E c \in 0..head, d \in Gone..Len(backups) : Target(r, c, d)
         \/ RollbackDatabase(r) \/ RollbackServices(r) \/ RollbackFails(r)
  PROVE  Typed'
<1>1. ASSUME NEW c \in 0..head, NEW d \in Gone..Len(backups), Target(r, c, d) PROVE Typed'
  <2>1. RunsTyped' /\ head' \in Versions
    BY <1>1, TargetRun DEF Typed
  <2>2. UNCHANGED <<remote, image, running, db, backups, lock>> /\ status' = "rolling_back"
    BY <1>1 DEF Target
  <2>3. QED BY <2>1, <2>2 DEF Typed, FilesTyped, BackupsTyped, LockTyped, Rest, Busy
<1>2. CASE RollbackDatabase(r) \/ RollbackServices(r) \/ RollbackFails(r)
  <2>1. RunsTyped'
    BY <1>2, RunSteps DEF RollbackDatabase, RollbackServices, RollbackFails, Steps
  <2>2. FilesTyped'
    <3>1. db' \in Versions \cup {EmptyDb, NoDb} /\ head' = head
      BY <1>2, RestoredTyped DEF RollbackDatabase, RollbackServices, RollbackFails, Typed, FilesTyped
    <3>2. image' \in {image, head} /\ running' \in {running, image}
      BY <1>2 DEF RollbackDatabase, RollbackServices, RollbackFails
    <3>3. QED BY <3>1, <3>2 DEF Typed, FilesTyped
  <2>3. BackupsTyped' /\ UNCHANGED <<remote, lock>> /\ status' \in Busy \cup Told
    BY <1>2 DEF RollbackDatabase, RollbackServices, RollbackFails, Typed, BackupsTyped, Rest, Told
  <2>4. QED BY <2>1, <2>2, <2>3 DEF Typed, LockTyped, Rest
<1>3. QED BY <1>1, <1>2

LEMMA StartTyped ==
  ASSUME Typed, NEW r \in Run, Start(r)
  PROVE  Typed'
<1>1. PICK entry \in AllEntries : RequestUpdate(r, entry) \/ RequestRollback(r, entry) \/ Make(r, entry)
  BY UpdaterNumbers DEF Start
<1>2. PICK pc \in Steps : run' = [run EXCEPT ![r] = RunAt(pc, entry, {}, None, None)]
  BY <1>1 DEF RequestUpdate, RequestRollback, Make, Steps
<1>3. RunsTyped'
  BY <1>2, Bounds, PutRun DEF Typed
<1>4. UNCHANGED <<remote, files, status>> /\ lock' \in {lock, Free}
  BY <1>1 DEF RequestUpdate, RequestRollback, Make
<1>5. QED BY <1>3, <1>4 DEF Typed, FilesTyped, BackupsTyped, LockTyped, Rest, files

LEMMA OtherStepTyped ==
  ASSUME Typed, ScheduledBackup \/ PushCommit \/ RestartUpdater \/ UNCHANGED vars
  PROVE  Typed'
<1>1. CASE ScheduledBackup
  <2>1. BackupsTyped'
    BY <1>1, BackupTyped DEF ScheduledBackup
  <2>2. RunsTyped'
    <3>1. CASE db # NoDb /\ run' = AfterRotation
      BY <3>1, AfterRotationRuns DEF Typed, FilesTyped, RunsTyped
    <3>2. CASE run' = run
      BY <3>2 DEF Typed, RunsTyped
    <3>3. QED BY <1>1, <3>1, <3>2 DEF ScheduledBackup
  <2>3. QED BY <1>1, <2>1, <2>2 DEF ScheduledBackup, Typed, FilesTyped, LockTyped, Rest
<1>2. CASE PushCommit
  <2>1. remote' \in Versions
    BY <1>2, UpdaterNumbers DEF PushCommit, Typed, Rest, Versions
  <2>2. QED BY <1>2, <2>1 DEF PushCommit, files, Typed, FilesTyped, BackupsTyped, RunsTyped, LockTyped, Rest
<1>3. CASE RestartUpdater
  <2>1. RunsTyped'
    BY <1>3, Bounds DEF RestartUpdater, RunsTyped, Off, Runs, Steps, AllEntries
  <2>2. QED BY <1>3, <2>1 DEF RestartUpdater, files, Typed, FilesTyped, BackupsTyped, LockTyped, Rest
<1>4. CASE UNCHANGED vars
  <2>1. UNCHANGED <<remote, head, image, running, db, backups, lock, status, run>>
    BY <1>4 DEF vars, files
  <2>2. QED BY <2>1 DEF Typed, FilesTyped, BackupsTyped, RunsTyped, LockTyped, Rest
<1>5. QED BY <1>1, <1>2, <1>3, <1>4

LEMMA StepTyped == Typed /\ [Next]_vars => Typed'
<1> SUFFICES ASSUME Typed, [Next]_vars PROVE Typed'
  OBVIOUS
<1>1. ASSUME NEW r \in Run, ScriptStep(r) PROVE Typed'
  BY <1>1, LockStepTyped, UpdateStepTyped, UndoStepTyped, RollbackStepTyped DEF ScriptStep
<1>2. QED BY <1>1, StartTyped, OtherStepTyped DEF Next

\* Files, lock, status and runs keep their types, and no rollback leaves the checkout
\* without a commit: however runs and backups overlap, also with those of "make
\* rollback".
THEOREM UpdaterTyped == Spec => []TypeOK
BY InitOrderly, StepTyped, TypedIsTypeOK, PTL DEF Spec, Orderly

\* Two updates or rollbacks never work on the checkout, the images and the
\* database at once, whatever was refused, re-executed, failed or killed before.
THEOREM OnePipelineAtATime ==
  ASSUME Overlap = FALSE, "make rollback" \notin Entries
  PROVE  Spec => [](TypeOK /\ OnePipeline)
<1>1. Orderly => TypeOK /\ OnePipeline
  BY TypedIsTypeOK, OrderlyImplies DEF Orderly
<1>2. QED BY <1>1, InitOrderly, StepOrderly, PTL DEF Spec, Locked

\* A rollback whose own commands succeed puts the checkout and the containers back to
\* the one version that the update found, wherever the update failed, and the schema
\* too unless the dump was rotated away before the rollback looked for it.
THEOREM RollbacksRestore ==
  ASSUME Overlap = FALSE, "make rollback" \notin Entries
  PROVE  Spec => []RollbackRestores
BY InitOrderly, StepOrderly, OrderlyImplies, PTL DEF Spec, Locked

LEMMA OnlyHealthySucceeds ==
  ASSUME Orderly, [Next]_vars, NEW r \in Run, At(r, "health"), Updating(r), run'[r].pc = "exit"
  PROVE  OneVersion
BY DEF Orderly, Facts, Shape, At

\* An update that reports success leaves checkout, images, containers and schema
\* of one version.
THEOREM SuccessesAreWhole ==
  ASSUME Overlap = FALSE, "make rollback" \notin Entries
  PROVE  Spec => SuccessIsWhole
<1>1. Orderly /\ [Next]_vars => [SuccessStep]_vars
  BY OnlyHealthySucceeds DEF SuccessStep
<1>2. QED BY <1>1, InitOrderly, StepOrderly, PTL DEF Spec, Locked, SuccessIsWhole

=============================================================================
