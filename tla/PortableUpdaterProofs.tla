------------------------ MODULE PortableUpdaterProofs ------------------------
(***************************************************************************)
(* When no run starts while another is on its way to the lock,             *)
(* PortableUpdater is typed, two runs never work on the installation at    *)
(* once, and an update that fails leaves one of three things behind: for   *)
(* any number of runs, releases and power failures.                        *)
(***************************************************************************)
EXTENDS PortableUpdater, TLAPS

\* The same types, by named parts; that a running application has a whole tree is
\* one of the facts below.
Runs == [pc : Steps, entry : AllEntries, version : Versions, found : Versions,
         target : Versions, prev : Versions \cup {Gone}, dump : Schemas \cup {None},
         marks : SUBSET Marks]
FilesTyped == /\ app \in Trees /\ db \in Schemas
              /\ releases \in [Versions -> Trees] /\ up \in BOOLEAN
RunsTyped == run \in [Run -> Runs]
Rest == /\ latest \in Releases
        /\ lock \in Run \cup {"free", "left", "expired"}
        /\ status \in Busy \cup Told
        /\ cuts \in 0..MaxCuts

\* Who has the lock: one run at most is on its way to it, every run past it holds
\* it, and a run about to write it has found it free.
Coming == {"start", "test", "lock"}
Early(r) == run[r].pc \in {"off"} \cup Coming
Keys == /\ \A r, s \in Run : run[r].pc \in Coming /\ run[s].pc \in Coming => r = s
        /\ \A r \in Run : ~Early(r) => lock = r
        /\ \A r \in Run : At(r, "lock") => ~Held

\* A running application has a whole tree.
Whole == up => app \in Releases

\* What holds of a run that works on the installation.  A rollback has a version;
\* some steps are of updates only; the application is down while files and
\* database change; an update has what its later steps need.
Shape(r) ==
    /\ run[r].pc \notin {"off", "start"} /\ run[r].entry = "Rollback" => run[r].version \in Releases
    /\ run[r].pc \in {"prepare", "clear", "migrate", "recover", "undo stop", "undo app", "undo up"}
          => run[r].entry = "Update"
    /\ run[r].pc \in {"clear", "move", "copy", "migrate", "up", "undo db", "undo app"} => ~up
    /\ run[r].pc # "off" /\ run[r].entry = "Update" =>
          /\ run[r].pc \in Coming \cup {"prepare", "dump", "stop", "clear"} => run[r].prev = Gone
          /\ run[r].pc = "move" => run[r].prev = run[r].found
          /\ run[r].pc \in {"copy", "migrate", "up", "health", "finish", "undo stop", "undo db", "undo app"}
                => run[r].prev # Gone
          /\ run[r].pc \in {"dump", "stop", "clear", "move", "copy", "migrate"} => run[r].target \in Releases
          /\ run[r].pc \in {"stop", "clear", "move"} \/ run[r].prev # Gone => run[r].dump \in Schemas

\* What an update that found one running release, and whose recovery has met no
\* failure, can still go back to, and what it has done when it can do no more.
AsFound(r) == app = run[r].found /\ db = run[r].found
Points(r) == run[r].prev = run[r].found /\ run[r].dump = run[r].found
Kept(r) == Points(r) /\ releases[run[r].found] = run[r].found
Renewed(r) == app = run[r].target /\ db = run[r].target /\ run[r].target \in Releases
Healed(r) == Renewed(r) /\ "healthy" \in run[r].marks
Landed(r) == \/ db = run[r].found /\ (app = run[r].found \/ app = releases[run[r].found])
             \/ Healed(r)
Ended(r) == \/ AsFound(r) /\ up
            \/ db = run[r].found /\ app = releases[run[r].found] /\ app # run[r].found
            \/ Healed(r) /\ up
Caught(r) == \/ AsFound(r) /\ (run[r].prev = Gone \/ Points(r))
             \/ Kept(r) /\ ~up
             \/ Healed(r) /\ up /\ Points(r)
WayBack(r) ==
    /\ run[r].found \in Releases
    /\ run[r].pc \in {"prepare", "dump", "stop", "clear", "move"} => AsFound(r)
    /\ run[r].pc \in {"stop", "clear", "move"} => run[r].dump = run[r].found
    /\ run[r].pc \in {"copy", "migrate", "up", "health", "finish"} => Kept(r)
    /\ run[r].pc = "migrate" => app = run[r].target
    /\ run[r].pc \in {"up", "health", "finish"} => Renewed(r)
    /\ run[r].pc = "finish" => Healed(r) /\ up
    /\ run[r].pc \in {"undo stop", "undo db", "undo app"} => Points(r)
    /\ run[r].pc = "undo app" => db = run[r].found
    /\ run[r].pc = "undo up" => Landed(r)
    /\ run[r].pc = "recover" /\ "restarted" \notin run[r].marks => Caught(r)
    /\ run[r].pc = "recover" /\ "restarted" \in run[r].marks => Ended(r)
    /\ run[r].pc = "failed" => Ended(r)
    /\ "restarted" \in run[r].marks => run[r].pc \in {"recover", "failed"}

Sound(r) == run[r].entry = "Update" /\ "sound" \in run[r].marks /\ "stuck" \notin run[r].marks
Guided(r) == ~Early(r) /\ run[r].pc # "leave" /\ Sound(r)
Facts(r) == Shape(r) /\ (Guided(r) => WayBack(r))

Typed == FilesTyped /\ RunsTyped /\ Rest
Portable == Typed /\ Keys /\ Whole /\ \A r \in Run : Facts(r)

LEMMA PortableImplies == Portable => TypeOK /\ OnePipeline /\ FailedUpdateRestores
<1> SUFFICES ASSUME Portable PROVE TypeOK /\ OnePipeline /\ FailedUpdateRestores
  OBVIOUS
<1>1. TypeOK
  BY DEF Portable, Typed, TypeOK, FilesTyped, Whole, RunsTyped, Runs, Rest
<1>2. OnePipeline
  BY DEF Portable, Keys, OnePipeline, Working, Early, Coming
<1>3. FailedUpdateRestores
  <2> SUFFICES ASSUME NEW r \in Run, At(r, "failed"), Updating(r), "sound" \in run[r].marks,
                      "stuck" \notin run[r].marks
               PROVE  Ended(r)
    BY DEF FailedUpdateRestores, Ended, AsFound, Healed, Renewed
  <2>1. Guided(r)
    BY DEF Guided, Early, Coming, Sound, At, Updating
  <2>2. WayBack(r)
    BY <2>1 DEF Portable, Facts
  <2>3. QED BY <2>2 DEF WayBack, At
<1>4. QED BY <1>1, <1>2, <1>3

LEMMA Constants == /\ 1 \in Releases /\ 0 \notin Releases /\ Gone \notin Releases /\ Torn \notin Releases
                   /\ None = 0 /\ Gone # 0 /\ Gone # Torn
                   /\ Versions = {0} \cup Releases /\ 0 \in Versions
                   /\ Schemas = Releases \cup {Torn} /\ Trees = Releases \cup {Gone, Torn}
                   /\ Gone \notin Versions /\ None \notin Schemas
BY PortableNumbers DEF Releases, Versions, Schemas, Trees, None, Gone, Torn

LEMMA RunAtTyped ==
  ASSUME NEW pc \in Steps, NEW entry \in AllEntries, NEW version \in Versions
  PROVE  RunAt(pc, entry, version) \in Runs
BY Constants DEF RunAt, Runs

LEMMA OffTyped == Off \in Runs
BY RunAtTyped, Constants DEF Off, Steps, AllEntries

\* The run a step belongs to, field by field, and the others.
Same(r) == \A s \in Run \ {r} : run'[s] = run[s]
Given(r) == /\ RunsTyped' /\ Same(r)
            /\ run'[r].entry = run[r].entry /\ run'[r].version = run[r].version
Keeps(r) == /\ Given(r)
            /\ run'[r].found = run[r].found /\ run'[r].target = run[r].target
            /\ run'[r].prev = run[r].prev /\ run'[r].dump = run[r].dump

LEMMA OneRun ==
  ASSUME RunsTyped, NEW r \in Run, NEW q \in Runs, run' = [run EXCEPT ![r] = q]
  PROVE  RunsTyped' /\ Same(r) /\ run'[r] = q
BY DEF RunsTyped, Same

LEMMA GoFields ==
  ASSUME RunsTyped, NEW r \in Run, NEW pc \in Steps, Go(r, pc)
  PROVE  Keeps(r) /\ run'[r].pc = pc /\ run'[r].marks = run[r].marks
<1> DEFINE q == [run[r] EXCEPT !.pc = pc]
<1>1. run[r] \in Runs
  BY DEF RunsTyped
<1>2. q \in Runs /\ q.pc = pc /\ q.entry = run[r].entry /\ q.version = run[r].version
      /\ q.found = run[r].found /\ q.target = run[r].target /\ q.prev = run[r].prev
      /\ q.dump = run[r].dump /\ q.marks = run[r].marks
  BY <1>1 DEF Runs
<1>3. run' = [run EXCEPT ![r] = q]
  BY Zenon DEF Go, RunsTyped
<1> HIDE DEF q
<1>4. RunsTyped' /\ Same(r) /\ run'[r] = q
  BY <1>2, <1>3, OneRun
<1>5. QED BY <1>2, <1>4 DEF Keeps, Given

LEMMA MarkFields ==
  ASSUME RunsTyped, NEW r \in Run, NEW pc \in Steps, NEW mark \in Marks, Mark(r, pc, mark)
  PROVE  Keeps(r) /\ run'[r].pc = pc /\ run'[r].marks = run[r].marks \cup {mark}
<1> DEFINE q == [run[r] EXCEPT !.pc = pc, !.marks = run[r].marks \cup {mark}]
<1>1. run[r] \in Runs
  BY DEF RunsTyped
<1>2. q \in Runs /\ q.pc = pc /\ q.entry = run[r].entry /\ q.version = run[r].version
      /\ q.found = run[r].found /\ q.target = run[r].target /\ q.prev = run[r].prev
      /\ q.dump = run[r].dump /\ q.marks = run[r].marks \cup {mark}
  BY <1>1 DEF Runs
<1>3. run' = [run EXCEPT ![r] = q]
  BY Zenon DEF Mark, RunsTyped
<1> HIDE DEF q
<1>4. RunsTyped' /\ Same(r) /\ run'[r] = q
  BY <1>2, <1>3, OneRun
<1>5. QED BY <1>2, <1>4 DEF Keeps, Given

LEMMA EndFields ==
  ASSUME RunsTyped, NEW r \in Run, End(r)
  PROVE  RunsTyped' /\ Same(r) /\ run'[r].pc = "off"
<1>1. RunsTyped' /\ Same(r) /\ run'[r] = Off
  BY OffTyped, OneRun DEF End
<1>2. QED BY <1>1 DEF Off, RunAt

LEMMA DoneFields ==
  ASSUME RunsTyped, NEW r \in Run, Done(r)
  PROVE  RunsTyped' /\ Same(r) /\ run'[r].pc = "leave" /\ run'[r].entry = "Update" /\ run'[r].prev = Gone
<1> DEFINE q == [Off EXCEPT !.pc = "leave"]
<1>1. q \in Runs /\ q.pc = "leave" /\ q.entry = "Update" /\ q.prev = Gone
  <2>1. Off.entry = "Update" /\ Off.prev = Gone
    BY DEF Off, RunAt
  <2>2. QED BY <2>1, OffTyped DEF Runs, Steps
<1>2. run' = [run EXCEPT ![r] = q]
  BY DEF Done
<1> HIDE DEF q
<1>3. QED BY <1>1, <1>2, OneRun

\* A step of the run that has the lock leaves the other runs and the lock alone.
LEMMA OthersStay ==
  ASSUME Portable, NEW r \in Run, ~Early(r), Same(r), lock' = lock, ~Early(r)'
  PROVE  Keys' /\ \A s \in Run \ {r} : Facts(s)'
<1>1. lock = r /\ Held
  BY DEF Portable, Keys, Held
<1>2. ASSUME NEW s \in Run \ {r} PROVE run[s].pc \in {"off", "start", "test"} /\ run'[s] = run[s]
  BY <1>1, <1>2 DEF Portable, Keys, Early, Coming, At, Same
<1>3. Keys'
  BY <1>1, <1>2 DEF Portable, Keys, Early, Coming, At, Held
<1>4. ASSUME NEW s \in Run \ {r} PROVE Facts(s)'
  BY <1>2, <1>4 DEF Portable, Facts, Guided, Shape, Early, Coming
<1>5. QED BY <1>3, <1>4

LEMMA HolderStep ==
  ASSUME Portable, NEW r \in Run, ~Early(r), Same(r), ~Early(r)', lock' = lock,
         FilesTyped', RunsTyped', Rest', Whole', Facts(r)'
  PROVE  Portable'
<1>1. Keys' /\ \A s \in Run \ {r} : Facts(s)'
  BY OthersStay
<1>2. QED BY <1>1 DEF Portable, Typed

\* A run that goes on to release the lock has nothing left to keep.
LEMMA DoneStep ==
  ASSUME Portable, NEW r \in Run, ~Early(r), Done(r), lock' = lock, FilesTyped', Rest', Whole'
  PROVE  Portable'
<1>1. RunsTyped' /\ Same(r) /\ run'[r].pc = "leave" /\ run'[r].entry = "Update" /\ run'[r].prev = Gone
  BY DoneFields DEF Portable, Typed
<1>2. ~Early(r)' /\ Facts(r)'
  BY <1>1 DEF Early, Coming, Facts, Guided, Shape
<1>3. QED BY <1>1, <1>2, HolderStep

\* A step of a guided run that keeps its marks, or adds "outer", was guided before.
LEMMA WasGuided ==
  ASSUME NEW r \in Run, ~Early(r), run[r].pc # "leave", Facts(r), run'[r].entry = run[r].entry,
         run[r].marks \subseteq run'[r].marks, "sound" \in run'[r].marks => "sound" \in run[r].marks,
         Guided(r)'
  PROVE  WayBack(r)
<1>1. Guided(r)
  BY DEF Guided, Sound
<1>2. QED BY <1>1 DEF Facts

-----------------------------------------------------------------------------
\* Steps of a run that has the lock.
LEMMA StepStop ==
  ASSUME Portable, NEW r \in Run, Stop(r)
  PROVE  Portable'
<1>0. FilesTyped /\ RunsTyped /\ Rest /\ Whole /\ Facts(r) /\ run[r] \in Runs
  BY DEF Portable, Typed, RunsTyped
<1>1. run[r].pc = "stop" /\ ~Early(r)
  BY DEF Stop, At, Early, Coming
<1>2. Keeps(r) /\ run'[r].pc \in {"clear", "move"} /\ run'[r].marks = run[r].marks
      /\ (run[r].entry = "Update" <=> run'[r].pc = "clear")
  BY <1>0, GoFields DEF Stop, Steps, Updating
<1>3. FilesTyped' /\ Rest' /\ ~Early(r)' /\ lock' = lock /\ Whole'
  <2>1. FilesTyped' /\ Whole'
    BY <1>0, <1>1, Constants DEF Stop, Facts, Shape, FilesTyped, Whole, files, Runs
  <2>2. Rest' /\ lock' = lock
    BY <1>0 DEF Stop, Rest
  <2>3. ~Early(r)'
    BY <1>2 DEF Early, Coming
  <2>4. QED BY <2>1, <2>2, <2>3
<1>4. Shape(r)'
  BY <1>0, <1>1, <1>2, Constants DEF Stop, Keeps, Given, Facts, Shape, Coming, files, FilesTyped, Whole
<1>5. Facts(r)'
  <2> SUFFICES ASSUME Guided(r)' PROVE WayBack(r)'
    BY <1>4 DEF Facts
  <2>1. WayBack(r)
    BY <1>0, <1>1, <1>2, WasGuided DEF Keeps, Given
  <2>2. QED BY <1>0, <1>1, <1>2, <2>1, Constants
      DEF Stop, Keeps, Given, Facts, Shape, FilesTyped, Whole, files, WayBack, AsFound, Points, Kept, Renewed, Healed, Landed, Ended, Caught
<1>6. QED BY <1>1, <1>2, <1>3, <1>5, HolderStep DEF Keeps, Given

LEMMA StepMove ==
  ASSUME Portable, NEW r \in Run, Move(r)
  PROVE  Portable'
<1>0. FilesTyped /\ RunsTyped /\ Rest /\ Whole /\ Facts(r) /\ run[r] \in Runs
  BY DEF Portable, Typed, RunsTyped
<1>1. run[r].pc = "move" /\ ~Early(r)
  BY DEF Move, At, Early, Coming
<1>2. Keeps(r) /\ run'[r].pc \in {"copy"} /\ run'[r].marks = run[r].marks
  BY <1>0, GoFields DEF Move, Steps, Updating
<1>3. FilesTyped' /\ Rest' /\ ~Early(r)' /\ lock' = lock /\ Whole'
  <2>1. FilesTyped' /\ Whole'
    BY <1>0, <1>1, Constants DEF Move, Facts, Shape, FilesTyped, Whole, files, Runs, Updating
  <2>2. Rest' /\ lock' = lock
    BY <1>0 DEF Move, Rest
  <2>3. ~Early(r)'
    BY <1>2 DEF Early, Coming
  <2>4. QED BY <2>1, <2>2, <2>3
<1>4. Shape(r)'
  BY <1>0, <1>1, <1>2, Constants DEF Move, Keeps, Given, Facts, Shape, Coming, files, FilesTyped, Whole, Updating, Runs
<1>5. Facts(r)'
  <2> SUFFICES ASSUME Guided(r)' PROVE WayBack(r)'
    BY <1>4 DEF Facts
  <2>1. WayBack(r)
    BY <1>0, <1>1, <1>2, WasGuided DEF Keeps, Given
  <2>2. run[r].entry = "Update"
    BY <1>2 DEF Guided, Sound, Keeps, Given
  <2>3. /\ run[r].found \in Releases /\ run[r].found \in Versions
        /\ AsFound(r) /\ run[r].dump = run[r].found /\ run[r].prev = run[r].found
        /\ "restarted" \notin run[r].marks
    BY <1>0, <1>1, <2>1, <2>2, Constants DEF WayBack, Facts, Shape
  <2>4. releases'[run[r].found] = run[r].found
    BY <1>0, <2>2, <2>3 DEF Move, Updating, FilesTyped, AsFound
  <2>5. Kept(r)'
    BY <1>2, <2>3, <2>4 DEF Kept, Points, Keeps
  <2>6. QED BY <1>2, <2>3, <2>5 DEF WayBack, Keeps
<1>6. QED BY <1>1, <1>2, <1>3, <1>5, HolderStep DEF Keeps, Given

LEMMA StepCopy ==
  ASSUME Portable, NEW r \in Run, Copy(r)
  PROVE  Portable'
<1>0. FilesTyped /\ RunsTyped /\ Rest /\ Whole /\ Facts(r) /\ run[r] \in Runs
  BY DEF Portable, Typed, RunsTyped
<1>1. run[r].pc = "copy" /\ ~Early(r)
  BY DEF Copy, At, Early, Coming
<1>2. Keeps(r) /\ run'[r].pc \in {"migrate", "up", "undo db"} /\ run'[r].marks = run[r].marks
      /\ (run[r].entry = "Update" <=> run'[r].pc = "migrate")
  BY <1>0, GoFields DEF Copy, Steps, Updating
<1>3. FilesTyped' /\ Rest' /\ ~Early(r)' /\ lock' = lock /\ Whole'
  <2>1. FilesTyped' /\ Whole'
    BY <1>0, <1>1, Constants DEF Copy, Facts, Shape, FilesTyped, Whole, files, Runs, Updating
  <2>2. Rest' /\ lock' = lock
    BY <1>0 DEF Copy, Rest
  <2>3. ~Early(r)'
    BY <1>2 DEF Early, Coming
  <2>4. QED BY <2>1, <2>2, <2>3
<1>4. Shape(r)'
  BY <1>0, <1>1, <1>2, Constants DEF Copy, Keeps, Given, Facts, Shape, Coming, files, FilesTyped, Whole, Updating
<1>5. Facts(r)'
  <2> SUFFICES ASSUME Guided(r)' PROVE WayBack(r)'
    BY <1>4 DEF Facts
  <2>1. WayBack(r)
    BY <1>0, <1>1, <1>2, WasGuided DEF Keeps, Given
  <2>2. QED BY <1>0, <1>1, <1>2, <2>1, Constants
      DEF Copy, Keeps, Given, Facts, Shape, FilesTyped, Whole, files, WayBack, AsFound, Points, Kept, Renewed, Healed, Landed, Ended, Caught, Updating, Guided, Sound
<1>6. QED BY <1>1, <1>2, <1>3, <1>5, HolderStep DEF Keeps, Given

LEMMA StepMigrate ==
  ASSUME Portable, NEW r \in Run, Migrate(r)
  PROVE  Portable'
<1>0. FilesTyped /\ RunsTyped /\ Rest /\ Whole /\ Facts(r) /\ run[r] \in Runs
  BY DEF Portable, Typed, RunsTyped
<1>1. run[r].pc = "migrate" /\ ~Early(r)
  BY DEF Migrate, At, Early, Coming
<1>2. Keeps(r) /\ run'[r].pc \in {"up"} /\ run'[r].marks = run[r].marks
  BY <1>0, GoFields DEF Migrate, Steps, Updating
<1>3. FilesTyped' /\ Rest' /\ ~Early(r)' /\ lock' = lock /\ Whole'
  <2>1. FilesTyped' /\ Whole'
    BY <1>0, <1>1, Constants DEF Migrate, Facts, Shape, FilesTyped, Whole, files, Runs
  <2>2. Rest' /\ lock' = lock
    BY <1>0 DEF Migrate, Rest
  <2>3. ~Early(r)'
    BY <1>2 DEF Early, Coming
  <2>4. QED BY <2>1, <2>2, <2>3
<1>4. Shape(r)'
  BY <1>0, <1>1, <1>2, Constants DEF Migrate, Keeps, Given, Facts, Shape, Coming, files, FilesTyped, Whole
<1>5. Facts(r)'
  <2> SUFFICES ASSUME Guided(r)' PROVE WayBack(r)'
    BY <1>4 DEF Facts
  <2>1. WayBack(r)
    BY <1>0, <1>1, <1>2, WasGuided DEF Keeps, Given
  <2>2. QED BY <1>0, <1>1, <1>2, <2>1, Constants
      DEF Migrate, Keeps, Given, Facts, Shape, FilesTyped, Whole, files, WayBack, AsFound, Points, Kept, Renewed, Healed, Landed, Ended, Caught
<1>6. QED BY <1>1, <1>2, <1>3, <1>5, HolderStep DEF Keeps, Given

LEMMA StepStart ==
  ASSUME Portable, NEW r \in Run, Start(r)
  PROVE  Portable'
<1>0. FilesTyped /\ RunsTyped /\ Rest /\ Whole /\ Facts(r) /\ run[r] \in Runs
  BY DEF Portable, Typed, RunsTyped
<1>1. run[r].pc = "up" /\ ~Early(r)
  BY DEF Start, At, Early, Coming
<1>2. Keeps(r) /\ run'[r].pc \in {"health"} /\ run'[r].marks = run[r].marks
  BY <1>0, GoFields DEF Start, Steps, Updating
<1>3. FilesTyped' /\ Rest' /\ ~Early(r)' /\ lock' = lock /\ Whole'
  <2>1. FilesTyped' /\ Whole'
    BY <1>0, <1>1, Constants DEF Start, Facts, Shape, FilesTyped, Whole, files, Runs
  <2>2. Rest' /\ lock' = lock
    BY <1>0 DEF Start, Rest
  <2>3. ~Early(r)'
    BY <1>2 DEF Early, Coming
  <2>4. QED BY <2>1, <2>2, <2>3
<1>4. Shape(r)'
  BY <1>0, <1>1, <1>2, Constants DEF Start, Keeps, Given, Facts, Shape, Coming, files, FilesTyped, Whole
<1>5. Facts(r)'
  <2> SUFFICES ASSUME Guided(r)' PROVE WayBack(r)'
    BY <1>4 DEF Facts
  <2>1. WayBack(r)
    BY <1>0, <1>1, <1>2, WasGuided DEF Keeps, Given
  <2>2. QED BY <1>0, <1>1, <1>2, <2>1, Constants
      DEF Start, Keeps, Given, Facts, Shape, FilesTyped, Whole, files, WayBack, AsFound, Points, Kept, Renewed, Healed, Landed, Ended, Caught
<1>6. QED BY <1>1, <1>2, <1>3, <1>5, HolderStep DEF Keeps, Given

LEMMA StepUndoStop ==
  ASSUME Portable, NEW r \in Run, UndoStop(r)
  PROVE  Portable'
<1>0. FilesTyped /\ RunsTyped /\ Rest /\ Whole /\ Facts(r) /\ run[r] \in Runs
  BY DEF Portable, Typed, RunsTyped
<1>1. run[r].pc = "undo stop" /\ ~Early(r)
  BY DEF UndoStop, At, Early, Coming
<1>2. Keeps(r) /\ run'[r].pc \in {"undo db"} /\ run'[r].marks = run[r].marks
  BY <1>0, GoFields DEF UndoStop, Steps, Updating
<1>3. FilesTyped' /\ Rest' /\ ~Early(r)' /\ lock' = lock /\ Whole'
  <2>1. FilesTyped' /\ Whole'
    BY <1>0, <1>1, Constants DEF UndoStop, Facts, Shape, FilesTyped, Whole, files, Runs
  <2>2. Rest' /\ lock' = lock
    BY <1>0 DEF UndoStop, Rest
  <2>3. ~Early(r)'
    BY <1>2 DEF Early, Coming
  <2>4. QED BY <2>1, <2>2, <2>3
<1>4. Shape(r)'
  BY <1>0, <1>1, <1>2, Constants DEF UndoStop, Keeps, Given, Facts, Shape, Coming, files, FilesTyped, Whole
<1>5. Facts(r)'
  <2> SUFFICES ASSUME Guided(r)' PROVE WayBack(r)'
    BY <1>4 DEF Facts
  <2>1. WayBack(r)
    BY <1>0, <1>1, <1>2, WasGuided DEF Keeps, Given
  <2>2. QED BY <1>0, <1>1, <1>2, <2>1, Constants
      DEF UndoStop, Keeps, Given, Facts, Shape, FilesTyped, Whole, files, WayBack, AsFound, Points, Kept, Renewed, Healed, Landed, Ended, Caught
<1>6. QED BY <1>1, <1>2, <1>3, <1>5, HolderStep DEF Keeps, Given

LEMMA StepUndoDb ==
  ASSUME Portable, NEW r \in Run, UndoDb(r)
  PROVE  Portable'
<1>0. FilesTyped /\ RunsTyped /\ Rest /\ Whole /\ Facts(r) /\ run[r] \in Runs
  BY DEF Portable, Typed, RunsTyped
<1>1. run[r].pc = "undo db" /\ ~Early(r)
  BY DEF UndoDb, At, Early, Coming
<1>2. Keeps(r) /\ run'[r].pc \in {"undo app", "up"} /\ run'[r].marks = run[r].marks
      /\ (run[r].entry = "Update" <=> run'[r].pc = "undo app")
  BY <1>0, GoFields DEF UndoDb, Steps, Updating
<1>3. FilesTyped' /\ Rest' /\ ~Early(r)' /\ lock' = lock /\ Whole'
  <2>1. FilesTyped' /\ Whole'
    <3>1. {Torn} \cup 1..latest \subseteq Schemas
      BY <1>0, PortableNumbers DEF Schemas, Releases, Rest
    <3>2. run[r].entry = "Update" => run[r].dump \in Schemas
      BY <1>0, <1>1 DEF Facts, Shape
    <3>3. db' \in Schemas
      BY <3>1, <3>2 DEF UndoDb, Updating
    <3>4. QED BY <1>0, <3>3 DEF UndoDb, FilesTyped, Whole
  <2>2. Rest' /\ lock' = lock
    BY <1>0 DEF UndoDb, Rest
  <2>3. ~Early(r)'
    BY <1>2 DEF Early, Coming
  <2>4. QED BY <2>1, <2>2, <2>3
<1>4. Shape(r)'
  BY <1>0, <1>1, <1>2, Constants DEF UndoDb, Keeps, Given, Facts, Shape, Coming, files, FilesTyped, Whole, Updating
<1>5. Facts(r)'
  <2> SUFFICES ASSUME Guided(r)' PROVE WayBack(r)'
    BY <1>4 DEF Facts
  <2>1. WayBack(r)
    BY <1>0, <1>1, <1>2, WasGuided DEF Keeps, Given
  <2>2. QED BY <1>0, <1>1, <1>2, <2>1, Constants
      DEF UndoDb, Keeps, Given, Facts, Shape, FilesTyped, Whole, files, WayBack, AsFound, Points, Kept, Renewed, Healed, Landed, Ended, Caught, Updating, Guided, Sound
<1>6. QED BY <1>1, <1>2, <1>3, <1>5, HolderStep DEF Keeps, Given

LEMMA StepUndoApp ==
  ASSUME Portable, NEW r \in Run, UndoApp(r)
  PROVE  Portable'
<1>0. FilesTyped /\ RunsTyped /\ Rest /\ Whole /\ Facts(r) /\ run[r] \in Runs
  BY DEF Portable, Typed, RunsTyped
<1>1. run[r].pc = "undo app" /\ ~Early(r)
  BY DEF UndoApp, At, Early, Coming
<1>2. Keeps(r) /\ run'[r].pc \in {"undo up"} /\ run'[r].marks = run[r].marks
  BY <1>0, GoFields DEF UndoApp, Steps, Updating
<1>3. FilesTyped' /\ Rest' /\ ~Early(r)' /\ lock' = lock /\ Whole'
  <2>1. FilesTyped' /\ Whole'
    BY <1>0, <1>1, Constants DEF UndoApp, Facts, Shape, FilesTyped, Whole, files, Runs
  <2>2. Rest' /\ lock' = lock
    BY <1>0 DEF UndoApp, Rest
  <2>3. ~Early(r)'
    BY <1>2 DEF Early, Coming
  <2>4. QED BY <2>1, <2>2, <2>3
<1>4. Shape(r)'
  BY <1>0, <1>1, <1>2, Constants DEF UndoApp, Keeps, Given, Facts, Shape, Coming, files, FilesTyped, Whole
<1>5. Facts(r)'
  <2> SUFFICES ASSUME Guided(r)' PROVE WayBack(r)'
    BY <1>4 DEF Facts
  <2>1. WayBack(r)
    BY <1>0, <1>1, <1>2, WasGuided DEF Keeps, Given
  <2>2. QED BY <1>0, <1>1, <1>2, <2>1, Constants
      DEF UndoApp, Keeps, Given, Facts, Shape, FilesTyped, Whole, files, WayBack, AsFound, Points, Kept, Renewed, Healed, Landed, Ended, Caught
<1>6. QED BY <1>1, <1>2, <1>3, <1>5, HolderStep DEF Keeps, Given

LEMMA StepHealthy ==
  ASSUME Portable, NEW r \in Run, Healthy(r)
  PROVE  Portable'
<1>0. FilesTyped /\ RunsTyped /\ Rest /\ Whole /\ Facts(r) /\ run[r] \in Runs
  BY DEF Portable, Typed, RunsTyped
<1>1. run[r].pc = "health" /\ ~Early(r)
  BY DEF Healthy, At, Early, Coming
<1>2. /\ Keeps(r) /\ run'[r].pc = "finish"
      /\ run'[r].marks = IF run[r].entry = "Update" THEN run[r].marks \cup {"healthy"} ELSE run[r].marks
  <2>1. CASE run[r].entry = "Update" /\ Mark(r, "finish", "healthy")
    BY <1>0, <2>1, MarkFields DEF Steps, Marks
  <2>2. CASE run[r].entry # "Update" /\ Go(r, "finish")
    BY <1>0, <2>2, GoFields DEF Steps
  <2>3. QED BY <2>1, <2>2 DEF Healthy, Updating
<1>3. FilesTyped' /\ Rest' /\ ~Early(r)' /\ lock' = lock /\ Whole'
  <2>1. FilesTyped' /\ Whole'
    BY <1>0, <1>1, Constants DEF Healthy, Facts, Shape, FilesTyped, Whole, files, Runs
  <2>2. Rest' /\ lock' = lock
    BY <1>0 DEF Healthy, Rest
  <2>3. ~Early(r)'
    BY <1>2 DEF Early, Coming
  <2>4. QED BY <2>1, <2>2, <2>3
<1>4. Shape(r)'
  BY <1>0, <1>1, <1>2, Constants DEF Healthy, Keeps, Given, Facts, Shape, Coming, files, FilesTyped, Whole
<1>5. Facts(r)'
  <2> SUFFICES ASSUME Guided(r)' PROVE WayBack(r)'
    BY <1>4 DEF Facts
  <2>1. WayBack(r)
    BY <1>0, <1>1, <1>2, WasGuided DEF Keeps, Given
  <2>2. QED BY <1>0, <1>1, <1>2, <2>1, Constants
      DEF Healthy, Keeps, Given, Facts, Shape, FilesTyped, Whole, files, WayBack, AsFound, Points, Kept, Renewed, Healed, Landed, Ended, Caught, Guided, Sound
<1>6. QED BY <1>1, <1>2, <1>3, <1>5, HolderStep DEF Keeps, Given

LEMMA PrunedTyped ==
  ASSUME FilesTyped, NEW r \in Run
  PROVE  \A new \in Pruned(r) : new \in [Versions -> Trees]
<1>1. CASE ~Updating(r)
  BY <1>1 DEF Pruned, FilesTyped
<1>2. CASE Updating(r)
  <2> SUFFICES ASSUME NEW old \in SUBSET Versions, NEW torn \in SUBSET Versions
               PROVE  [v \in Versions |-> IF v \in old THEN Gone
                                         ELSE IF v \in torn /\ releases[v] # Gone THEN Torn ELSE releases[v]]
                         \in [Versions -> Trees]
    BY <1>2 DEF Pruned
  <2>1. QED BY Constants DEF FilesTyped
<1>3. QED BY <1>1, <1>2

LEMMA ClearedTyped ==
  ASSUME FilesTyped, NEW v \in Versions
  PROVE  \A new \in Cleared(v) : new \in [Versions -> Trees]
BY Constants DEF Cleared, FilesTyped

LEMMA StepFinalize ==
  ASSUME Portable, NEW r \in Run, Finalize(r)
  PROVE  Portable'
<1>0. FilesTyped /\ Rest /\ Whole /\ ~Early(r)
  BY DEF Portable, Typed, Finalize, At, Early, Coming
<1>1. FilesTyped' /\ Whole'
  BY <1>0, PrunedTyped DEF Finalize, FilesTyped, Whole
<1>2. Rest' /\ lock' = lock /\ Done(r)
  BY <1>0 DEF Finalize, Rest, Told
<1>3. QED BY <1>0, <1>1, <1>2, DoneStep

LEMMA StepTellFailed ==
  ASSUME Portable, NEW r \in Run, TellFailed(r)
  PROVE  Portable'
<1>0. FilesTyped /\ Rest /\ Whole /\ ~Early(r)
  BY DEF Portable, Typed, TellFailed, At, Early, Coming
<1>1. FilesTyped' /\ Whole'
  BY <1>0 DEF TellFailed, FilesTyped, Whole, files
<1>2. Rest' /\ lock' = lock /\ Done(r)
  BY <1>0 DEF TellFailed, Rest, Told
<1>3. QED BY <1>0, <1>1, <1>2, DoneStep

LEMMA StepPrepare ==
  ASSUME Portable, NEW r \in Run, Prepare(r)
  PROVE  Portable'
<1>0. FilesTyped /\ RunsTyped /\ Rest /\ Whole /\ Facts(r) /\ run[r] \in Runs
  BY DEF Portable, Typed, RunsTyped
<1>1. run[r].pc = "prepare" /\ ~Early(r)
  BY DEF Prepare, At, Early, Coming
<1>a. FilesTyped' /\ Whole' /\ UNCHANGED <<latest, app, releases, db, up, lock, cuts>>
  BY <1>0 DEF Prepare, FilesTyped, Whole, files
<1>b. CASE status' = "success" /\ Done(r)
  <2>1. Rest'
    BY <1>0, <1>a, <1>b DEF Rest, Told
  <2>2. QED BY <1>1, <1>a, <1>b, <2>1, DoneStep
<1>c. CASE run' = [run EXCEPT ![r].target = latest, ![r].pc = "dump"] /\ UNCHANGED status
  <2> DEFINE q == [run[r] EXCEPT !.target = latest, !.pc = "dump"]
  <2>1. run' = [run EXCEPT ![r] = q]
    BY <1>0, <1>c, Zenon DEF RunsTyped
  <2>2. /\ q \in Runs /\ q.pc = "dump" /\ q.target = latest
        /\ q.entry = run[r].entry /\ q.version = run[r].version /\ q.found = run[r].found
        /\ q.prev = run[r].prev /\ q.dump = run[r].dump /\ q.marks = run[r].marks
    BY <1>0, Constants DEF Runs, Steps, Rest
  <2> HIDE DEF q
  <2>3. RunsTyped' /\ Same(r) /\ run'[r] = q
    BY <1>0, <2>1, <2>2, OneRun
  <2>4. Rest' /\ ~Early(r)'
    BY <1>0, <1>a, <1>c, <2>2, <2>3 DEF Rest, Early, Coming
  <2>5. Shape(r)'
    BY <1>0, <1>1, <1>a, <2>2, <2>3 DEF Facts, Shape, Coming, Rest
  <2>6. Guided(r)' => WayBack(r)'
    <3> SUFFICES ASSUME Guided(r)' PROVE WayBack(r)'
      OBVIOUS
    <3>1. WayBack(r)
      BY <1>0, <1>1, <2>2, <2>3, WasGuided
    <3>2. QED BY <1>0, <1>1, <1>a, <2>2, <2>3, <3>1 DEF WayBack, AsFound
  <2>7. QED BY <1>1, <1>a, <2>3, <2>4, <2>5, <2>6, HolderStep DEF Facts
<1>d. QED BY <1>b, <1>c DEF Prepare

LEMMA StepDump ==
  ASSUME Portable, NEW r \in Run, Dump(r)
  PROVE  Portable'
<1>0. FilesTyped /\ RunsTyped /\ Rest /\ Whole /\ Facts(r) /\ run[r] \in Runs
  BY DEF Portable, Typed, RunsTyped
<1>1. run[r].pc = "dump" /\ ~Early(r)
  BY DEF Dump, At, Early, Coming
<1>a. FilesTyped' /\ Whole' /\ Rest' /\ UNCHANGED <<latest, app, releases, db, up, lock, status, cuts>>
  BY <1>0 DEF Dump, FilesTyped, Whole, Rest
<1>b. CASE Done(r)
  BY <1>1, <1>a, <1>b, DoneStep
<1>c. CASE run[r].entry = "Rollback" /\ Go(r, "stop")
  <2>1. Keeps(r) /\ run'[r].pc = "stop"
    BY <1>0, <1>c, GoFields DEF Steps
  <2>2. Facts(r)' /\ ~Early(r)'
    BY <1>0, <1>1, <1>c, <2>1 DEF Facts, Guided, Sound, Shape, Keeps, Given, Early, Coming
  <2>3. QED BY <1>1, <1>a, <2>1, <2>2, HolderStep DEF Keeps, Given
<1>d. CASE run[r].entry = "Update" /\ run' = [run EXCEPT ![r].dump = db, ![r].pc = "stop"]
  <2> DEFINE q == [run[r] EXCEPT !.dump = db, !.pc = "stop"]
  <2>1. run' = [run EXCEPT ![r] = q]
    BY <1>0, <1>d, Zenon DEF RunsTyped
  <2>2. /\ q \in Runs /\ q.pc = "stop" /\ q.dump = db
        /\ q.entry = run[r].entry /\ q.version = run[r].version /\ q.found = run[r].found
        /\ q.prev = run[r].prev /\ q.target = run[r].target /\ q.marks = run[r].marks
    BY <1>0, Constants DEF Runs, Steps, FilesTyped
  <2> HIDE DEF q
  <2>3. RunsTyped' /\ Same(r) /\ run'[r] = q
    BY <1>0, <2>1, <2>2, OneRun
  <2>4. ~Early(r)'
    BY <2>2, <2>3 DEF Early, Coming
  <2>5. Shape(r)'
    BY <1>0, <1>1, <1>a, <2>2, <2>3 DEF Facts, Shape, Coming, FilesTyped
  <2>6. Guided(r)' => WayBack(r)'
    <3> SUFFICES ASSUME Guided(r)' PROVE WayBack(r)'
      OBVIOUS
    <3>1. WayBack(r)
      BY <1>0, <1>1, <2>2, <2>3, WasGuided
    <3>2. QED BY <1>0, <1>1, <1>a, <2>2, <2>3, <3>1 DEF WayBack, AsFound
  <2>7. QED BY <1>1, <1>a, <2>3, <2>4, <2>5, <2>6, HolderStep DEF Facts
<1>e. QED BY <1>0, <1>b, <1>c, <1>d DEF Dump, Runs, AllEntries

LEMMA StepClear ==
  ASSUME Portable, NEW r \in Run, Clear(r)
  PROVE  Portable'
<1>0. FilesTyped /\ RunsTyped /\ Rest /\ Whole /\ Facts(r) /\ run[r] \in Runs
  BY DEF Portable, Typed, RunsTyped
<1>1. run[r].pc = "clear" /\ ~Early(r)
  BY DEF Clear, At, Early, Coming
<1>2. /\ Given(r) /\ run'[r].pc = "move" /\ run'[r].found = run[r].found
      /\ run'[r].target = run[r].target /\ run'[r].prev = run[r].found
      /\ run'[r].dump = run[r].dump /\ run'[r].marks = run[r].marks
  <2> DEFINE q == [run[r] EXCEPT !.prev = run[r].found, !.pc = "move"]
  <2>1. run' = [run EXCEPT ![r] = q]
    BY <1>0, Zenon DEF Clear, RunsTyped
  <2>2. /\ q \in Runs /\ q.pc = "move" /\ q.prev = run[r].found
        /\ q.entry = run[r].entry /\ q.version = run[r].version /\ q.found = run[r].found
        /\ q.dump = run[r].dump /\ q.target = run[r].target /\ q.marks = run[r].marks
    BY <1>0 DEF Runs, Steps
  <2> HIDE DEF q
  <2>3. RunsTyped' /\ Same(r) /\ run'[r] = q
    BY <1>0, <2>1, <2>2, OneRun
  <2>4. QED BY <2>2, <2>3 DEF Given
<1>3. FilesTyped' /\ Rest' /\ ~Early(r)' /\ lock' = lock /\ Whole'
  <2>1. FilesTyped' /\ Whole'
    BY <1>0, <1>1, Constants DEF Clear, Facts, Shape, FilesTyped, Whole, files, Runs
  <2>2. Rest' /\ lock' = lock
    BY <1>0 DEF Clear, Rest
  <2>3. ~Early(r)'
    BY <1>2 DEF Early, Coming
  <2>4. QED BY <2>1, <2>2, <2>3
<1>4. Shape(r)'
  BY <1>0, <1>1, <1>2, Constants DEF Clear, Keeps, Given, Facts, Shape, Coming, files, FilesTyped, Whole
<1>5. Facts(r)'
  <2> SUFFICES ASSUME Guided(r)' PROVE WayBack(r)'
    BY <1>4 DEF Facts
  <2>1. WayBack(r)
    BY <1>0, <1>1, <1>2, WasGuided DEF Keeps, Given
  <2>2. QED BY <1>0, <1>1, <1>2, <2>1, Constants
      DEF Clear, Keeps, Given, Facts, Shape, FilesTyped, Whole, files, WayBack, AsFound, Points, Kept, Renewed, Healed, Landed, Ended, Caught
<1>6. QED BY <1>1, <1>2, <1>3, <1>5, HolderStep DEF Keeps, Given

\* The outer catch.
LEMMA StepRecover ==
  ASSUME Portable, NEW r \in Run, Recover(r)
  PROVE  Portable'
<1>0. FilesTyped /\ RunsTyped /\ Rest /\ Whole /\ Facts(r) /\ run[r] \in Runs
  BY DEF Portable, Typed, RunsTyped
<1>1. run[r].pc = "recover" /\ ~Early(r)
  BY DEF Recover, At, Early, Coming
<1>2. /\ Keeps(r) /\ run'[r].marks \in {run[r].marks, run[r].marks \cup {"outer"}}
      /\ \/ run'[r].pc = "failed" /\ ("restarted" \in run[r].marks \/ up)
         \/ run'[r].pc \in RecoverAt(r) /\ "restarted" \notin run[r].marks
      /\ run'[r].pc \in {"failed", "undo up", "undo stop", "undo db"}
  <2>1. CASE Go(r, "failed") /\ ("restarted" \in run[r].marks \/ up)
    BY <1>0, <2>1, GoFields DEF Steps
  <2>2. CASE "restarted" \notin run[r].marks /\ \E pc \in RecoverAt(r) : Mark(r, pc, "outer")
    <3>1. PICK pc \in RecoverAt(r) : Mark(r, pc, "outer")
      BY <2>2
    <3>2. pc \in {"undo up", "undo stop", "undo db"}
      BY DEF RecoverAt
    <3>3. Keeps(r) /\ run'[r].pc = pc /\ run'[r].marks = run[r].marks \cup {"outer"}
      BY <1>0, <3>1, <3>2, MarkFields DEF Steps, Marks
    <3>4. QED BY <2>2, <3>2, <3>3
  <2>3. QED BY <2>1, <2>2 DEF Recover
<1>3. /\ UNCHANGED <<latest, app, releases, db, up, lock, status, cuts>>
      /\ FilesTyped' /\ Rest' /\ ~Early(r)' /\ Whole'
  <2>1. UNCHANGED <<latest, app, releases, db, up, lock, status, cuts>>
    BY DEF Recover, files
  <2>2. QED BY <1>0, <1>2, <2>1 DEF FilesTyped, Rest, Whole, Early, Coming
<1>4. Shape(r)'
  BY <1>0, <1>1, <1>2, <1>3, Constants DEF Keeps, Given, Facts, Shape, Coming, Whole, RecoverAt
<1>5. Facts(r)'
  <2> SUFFICES ASSUME Guided(r)' PROVE WayBack(r)'
    BY <1>4 DEF Facts
  <2>1. WayBack(r)
    BY <1>0, <1>1, <1>2, WasGuided DEF Keeps, Given
  <2>2. CASE run'[r].pc = "failed"
    <3>1. Ended(r)
      <4>1. CASE "restarted" \in run[r].marks
        BY <1>1, <2>1, <4>1 DEF WayBack
      <4>2. CASE "restarted" \notin run[r].marks
        <5>1. up
          BY <1>2, <2>2, <4>2 DEF RecoverAt
        <5>2. Caught(r)
          BY <1>1, <2>1, <4>2 DEF WayBack
        <5>3. QED BY <5>1, <5>2 DEF Caught, Ended, AsFound, Healed
      <4>3. QED BY <4>1, <4>2
    <3>2. Ended(r)'
      BY <1>2, <1>3, <3>1 DEF Ended, AsFound, Healed, Renewed, Keeps
    <3>3. QED BY <1>2, <2>1, <2>2, <3>2 DEF WayBack, Keeps
  <2>3. CASE run'[r].pc \in RecoverAt(r) /\ "restarted" \notin run[r].marks
    <3>1. Caught(r) /\ run[r].found \in Releases /\ "restarted" \notin run'[r].marks
      BY <1>1, <1>2, <2>1, <2>3 DEF WayBack
    <3>2. CASE run[r].prev = Gone \/ releases[run[r].prev] = Gone
      <4>1. run'[r].pc = "undo up"
        BY <2>3, <3>2 DEF RecoverAt
      <4>2. Landed(r)
        BY <3>1, <3>2, Constants DEF Caught, Landed, AsFound, Kept, Points
      <4>3. Landed(r)'
        BY <1>2, <1>3, <4>2 DEF Landed, Healed, Renewed, Keeps
      <4>4. QED BY <1>2, <3>1, <4>1, <4>3 DEF WayBack, Keeps
    <3>3. CASE run[r].prev # Gone
      <4>1. Points(r)'
        BY <1>2, <3>1, <3>3 DEF Caught, Points, Kept, Keeps
      <4>2. CASE run'[r].pc = "undo up"
        <5>1. releases[run[r].prev] = Gone
          BY <2>3, <3>3, <4>2 DEF RecoverAt
        <5>2. QED BY <3>2, <5>1
      <4>3. CASE run'[r].pc \in {"undo stop", "undo db"}
        BY <1>2, <3>1, <4>1, <4>3 DEF WayBack, Keeps
      <4>4. QED BY <2>3, <4>2, <4>3 DEF RecoverAt
    <3>4. QED BY <3>2, <3>3
  <2>4. QED BY <1>2, <2>2, <2>3
<1>6. QED BY <1>1, <1>2, <1>3, <1>5, HolderStep DEF Keeps, Given

LEMMA StepUndoUp ==
  ASSUME Portable, NEW r \in Run, UndoUp(r)
  PROVE  Portable'
<1>0. FilesTyped /\ RunsTyped /\ Rest /\ Whole /\ Facts(r) /\ run[r] \in Runs
  BY DEF Portable, Typed, RunsTyped
<1>1. run[r].pc = "undo up" /\ ~Early(r)
  BY DEF UndoUp, At, Early, Coming
<1>2. /\ Keeps(r) /\ run'[r].pc \in {"failed", "recover"}
      /\ run'[r].marks \in {run[r].marks, run[r].marks \cup {"restarted"}}
      /\ (run'[r].pc = "recover" => "restarted" \in run'[r].marks)
  <2>1. CASE Go(r, "failed")
    BY <1>0, <2>1, GoFields DEF Steps
  <2>2. CASE Mark(r, "recover", "restarted")
    BY <1>0, <2>2, MarkFields DEF Steps, Marks
  <2>3. QED BY <2>1, <2>2 DEF UndoUp
<1>3. /\ UNCHANGED <<latest, app, releases, db, lock, status, cuts>> /\ up' = (app \in Releases)
      /\ FilesTyped' /\ Rest' /\ ~Early(r)' /\ Whole'
  <2>1. UNCHANGED <<latest, app, releases, db, lock, status, cuts>> /\ up' = (app \in Releases)
    BY DEF UndoUp, files
  <2>2. up' \in BOOLEAN
    BY <2>1
  <2>3. QED BY <1>0, <1>2, <2>1, <2>2 DEF FilesTyped, Rest, Whole, Early, Coming
<1>4. Shape(r)'
  BY <1>0, <1>1, <1>2, <1>3 DEF Keeps, Given, Facts, Shape, Coming
<1>5. Facts(r)'
  <2> SUFFICES ASSUME Guided(r)' PROVE WayBack(r)'
    BY <1>4 DEF Facts
  <2>1. WayBack(r)
    BY <1>0, <1>1, <1>2, WasGuided DEF Keeps, Given
  <2>2. Landed(r) /\ run[r].found \in Releases
    BY <1>1, <2>1 DEF WayBack
  <2>3. Ended(r)'
    <3>1. CASE db = run[r].found /\ app = run[r].found
      BY <1>2, <1>3, <2>2, <3>1 DEF Ended, AsFound, Keeps
    <3>2. CASE db = run[r].found /\ app = releases[run[r].found] /\ app # run[r].found
      BY <1>2, <1>3, <3>2 DEF Ended, Keeps
    <3>3. CASE Healed(r)
      BY <1>2, <1>3, <3>3 DEF Ended, Healed, Renewed, Keeps
    <3>4. QED BY <2>2, <3>1, <3>2, <3>3 DEF Landed
  <2>4. CASE run'[r].pc = "failed"
    BY <1>2, <2>2, <2>3, <2>4 DEF WayBack, Keeps
  <2>5. CASE run'[r].pc = "recover"
    BY <1>2, <2>2, <2>3, <2>5 DEF WayBack, Keeps
  <2>6. QED BY <1>2, <2>4, <2>5
<1>6. QED BY <1>1, <1>2, <1>3, <1>5, HolderStep DEF Keeps, Given

LEMMA StepUndoFails ==
  ASSUME Portable, NEW r \in Run, UndoFails(r)
  PROVE  Portable'
<1>0. FilesTyped /\ RunsTyped /\ Rest /\ Whole /\ Facts(r) /\ run[r] \in Runs
  BY DEF Portable, Typed, RunsTyped
<1>1. run[r].pc \in {"undo stop", "undo db", "undo app", "undo up"} /\ ~Early(r)
  BY DEF UndoFails, Undoing, Early, Coming
<1>2. /\ Keeps(r) /\ run'[r].pc \in {"failed", "recover"}
      /\ run'[r].marks = run[r].marks \cup {"stuck"}
      /\ (run'[r].pc = "recover" => run[r].entry = "Update")
  <2>1. CASE Mark(r, "failed", "stuck")
    BY <1>0, <2>1, MarkFields DEF Steps, Marks
  <2>2. CASE Mark(r, "recover", "stuck") /\ run[r].entry = "Update"
    BY <1>0, <2>2, MarkFields DEF Steps, Marks
  <2>3. QED BY <2>1, <2>2 DEF UndoFails, Updating
<1>3. FilesTyped' /\ Rest' /\ ~Early(r)' /\ lock' = lock /\ Whole'
  <2>1. FilesTyped'
    <3>1. up' \in {up, FALSE} /\ db' \in {db, Torn} /\ app' \in {app, Gone, Torn} /\ releases' = releases
      BY DEF UndoFails
    <3>2. QED BY <1>0, <3>1, Constants DEF FilesTyped
  <2>2. Whole'
    <3>1. up' => up
      BY <1>0 DEF UndoFails, FilesTyped
    <3>2. run[r].pc = "undo app" => ~up
      BY <1>0 DEF Facts, Shape
    <3>3. run[r].pc # "undo app" => app' = app
      BY DEF UndoFails, At
    <3>4. QED BY <1>0, <3>1, <3>2, <3>3 DEF Whole
  <2>3. Rest' /\ lock' = lock
    BY <1>0 DEF UndoFails, Rest
  <2>4. QED BY <1>2, <2>1, <2>2, <2>3 DEF Early, Coming
<1>4. Facts(r)'
  <2>1. Shape(r)'
    BY <1>0, <1>1, <1>2 DEF Keeps, Given, Facts, Shape, Coming
  <2>2. ~Guided(r)'
    BY <1>2 DEF Guided, Sound
  <2>3. QED BY <2>1, <2>2 DEF Facts
<1>5. QED BY <1>1, <1>2, <1>3, <1>4, HolderStep DEF Keeps, Given

\* Where a script goes on after a failure.
LEMMA FailureGoes ==
  ASSUME NEW r \in Run, run[r] \in Runs
  PROVE  /\ run[r].entry = "Rollback" => AfterFailure(r) = "failed"
         /\ run[r].entry = "Update" /\ run[r].pc = "migrate" => AfterFailure(r) = "undo db"
         /\ run[r].entry = "Update" /\ run[r].pc = "health" => AfterFailure(r) = "undo stop"
         /\ run[r].entry = "Update" /\ run[r].pc \notin {"migrate", "health"}
               => AfterFailure(r) = "recover"
BY DEF AfterFailure, Updating, At

LEMMA StepFail ==
  ASSUME Portable, NEW r \in Run, Fail(r)
  PROVE  Portable'
<1>0. FilesTyped /\ RunsTyped /\ Rest /\ Whole /\ Facts(r) /\ run[r] \in Runs
  BY DEF Portable, Typed, RunsTyped
<1>1. run[r].pc \in Fails /\ ~Early(r)
  BY DEF Fail, Early, Coming, Fails
<1>2. PICK prev \in {run[r].prev, run[r].found} :
         /\ run[r].pc # "clear" => prev = run[r].prev
         /\ \/ releases' = releases
            \/ run[r].pc = "clear" /\ prev # Gone /\ releases' \in Cleared(prev)
            \/ run[r].pc = "finish" /\ releases' \in Pruned(r)
         /\ \/ run[r].entry = "Backup" /\ Done(r)
            \/ run[r].entry # "Backup" /\ run' = [run EXCEPT ![r].pc = AfterFailure(r), ![r].prev = prev]
  BY DEF Fail, At
<1>3. prev \in Versions \cup {Gone} /\ run[r].found \in Versions
  BY <1>0 DEF Runs
<1>4. /\ UNCHANGED <<latest, lock, status, cuts>>
      /\ releases' \in [Versions -> Trees] /\ (run[r].pc \notin {"clear", "finish"} => releases' = releases)
      /\ up' \in BOOLEAN /\ (up' => up) /\ (run[r].pc # "stop" => up' = up)
      /\ app' \in Trees /\ (run[r].pc # "copy" => app' = app)
      /\ db' \in Schemas /\ (run[r].pc # "migrate" => db' = db)
  <2>1. UNCHANGED <<latest, lock, status, cuts>>
    BY DEF Fail
  <2>2. releases' \in [Versions -> Trees] /\ (run[r].pc \notin {"clear", "finish"} => releases' = releases)
    BY <1>0, <1>2, <1>3, ClearedTyped, PrunedTyped DEF FilesTyped
  <2>3. up' \in BOOLEAN /\ (up' => up) /\ (run[r].pc # "stop" => up' = up)
    <3>1. up' \in IF run[r].pc = "stop" THEN {up, FALSE} ELSE {up}
      BY DEF Fail, At
    <3>2. QED BY <1>0, <3>1 DEF FilesTyped
  <2>4. app' \in Trees /\ (run[r].pc # "copy" => app' = app)
    <3>1. app' \in IF run[r].pc = "copy"
                   THEN {Gone, Torn} \cup (IF Updating(r) THEN {run[r].target} ELSE {}) ELSE {app}
      BY DEF Fail, At
    <3>2. run[r].pc = "copy" /\ Updating(r) => run[r].target \in Releases
      BY <1>0 DEF Facts, Shape, Updating
    <3>3. QED BY <1>0, <3>1, <3>2, Constants DEF FilesTyped
  <2>5. db' \in Schemas /\ (run[r].pc # "migrate" => db' = db)
    <3>1. db' \in IF run[r].pc = "migrate" THEN {db, Torn} ELSE {db}
      BY DEF Fail, At
    <3>2. QED BY <1>0, <3>1, Constants DEF FilesTyped
  <2>6. QED BY <2>1, <2>2, <2>3, <2>4, <2>5
<1>5. FilesTyped' /\ Rest' /\ Whole' /\ lock' = lock
  <2>1. FilesTyped' /\ Rest'
    BY <1>0, <1>4 DEF FilesTyped, Rest
  <2>2. run[r].pc = "copy" => ~up
    BY <1>0 DEF Facts, Shape
  <2>3. QED BY <1>0, <1>4, <2>1, <2>2 DEF Whole
<1>6. CASE Done(r)
  BY <1>1, <1>5, <1>6, DoneStep
<1>7. CASE run[r].entry # "Backup" /\ run' = [run EXCEPT ![r].pc = AfterFailure(r), ![r].prev = prev]
  <2> DEFINE pc == AfterFailure(r)
             q == [run[r] EXCEPT !.pc = pc, !.prev = prev]
  <2>1. run' = [run EXCEPT ![r] = q]
    BY <1>0, <1>7, Zenon DEF RunsTyped
  <2>2. run[r].entry \in {"Update", "Rollback"}
    BY <1>0, <1>7 DEF Runs, AllEntries
  <2>3. pc \in {"failed", "undo db", "undo stop", "recover"} /\ pc \in Steps
    BY <1>0, <2>2, FailureGoes DEF Steps
  <2>4. /\ q \in Runs /\ q.pc = pc /\ q.prev = prev /\ q.entry = run[r].entry
        /\ q.version = run[r].version /\ q.found = run[r].found /\ q.target = run[r].target
        /\ q.dump = run[r].dump /\ q.marks = run[r].marks
    <3> HIDE DEF pc
    <3>1. QED BY <1>0, <1>3, <2>3 DEF Runs
  <2>5. RunsTyped' /\ Same(r) /\ run'[r] = q
    <3> HIDE DEF q
    <3>1. QED BY <1>0, <2>1, <2>4, OneRun
  <2> HIDE DEF q
  <2>6. run'[r].pc = AfterFailure(r) /\ run'[r].pc \in {"failed", "undo db", "undo stop", "recover"}
    BY <2>3, <2>4, <2>5
  <2>7. ~Early(r)'
    BY <2>6 DEF Early, Coming
  <2>8. Shape(r)'
    <3>1. run[r].entry = "Rollback" => run'[r].pc = "failed"
      BY <1>0, <2>6, FailureGoes
    <3>2. run[r].entry = "Update" /\ run'[r].pc \in {"undo db", "undo stop"} =>
             /\ run[r].pc \in {"migrate", "health"} /\ prev = run[r].prev /\ run[r].prev # Gone
             /\ (run'[r].pc = "undo db" => run[r].pc = "migrate" /\ ~up')
      BY <1>0, <1>2, <1>4, <2>6, FailureGoes DEF Facts, Shape
    <3>3. run[r].entry = "Update" /\ prev # Gone => run[r].dump \in Schemas
      BY <1>0, <1>1, <1>2 DEF Facts, Shape, Fails
    <3>4. run[r].entry = "Rollback" => run[r].version \in Releases
      BY <1>0, <1>1 DEF Facts, Shape, Fails
    <3>5. QED BY <2>2, <2>4, <2>5, <2>6, <3>1, <3>2, <3>3, <3>4 DEF Shape, Coming
  <2>9. Guided(r)' => WayBack(r)'
    <3> SUFFICES ASSUME Guided(r)' PROVE WayBack(r)'
      OBVIOUS
    <3>1. WayBack(r) /\ run[r].entry = "Update"
      <4>1. run[r].entry = "Update"
        BY <2>4, <2>5 DEF Guided, Sound
      <4>2. run[r].pc # "leave"
        BY <1>1 DEF Fails
      <4>3. QED BY <1>0, <1>1, <2>4, <2>5, <4>1, <4>2, WasGuided
    <3>2. "restarted" \notin run'[r].marks /\ run'[r].found \in Releases
      BY <1>1, <2>4, <2>5, <3>1 DEF WayBack, Fails
    <3>3. CASE run[r].pc \in {"migrate", "health"}
      <4>1. Points(r)' /\ run'[r].pc \in {"undo db", "undo stop"}
        BY <1>0, <1>2, <2>4, <2>5, <2>6, <3>1, <3>3, FailureGoes DEF WayBack, Kept, Points
      <4>2. QED BY <3>2, <4>1 DEF WayBack
    <3>4. CASE run[r].pc \notin {"migrate", "health"}
      <4>1. run'[r].pc = "recover"
        BY <1>0, <2>6, <3>1, <3>4, FailureGoes
      <4>2. CASE run[r].pc \in {"prepare", "dump", "stop", "clear", "move"}
        <5>1. AsFound(r)'
          BY <1>4, <2>4, <2>5, <3>1, <4>2 DEF WayBack, AsFound
        <5>2. prev = Gone \/ (prev = run[r].found /\ run[r].dump = run[r].found)
          <6>1. CASE run[r].pc \in {"prepare", "dump", "stop"}
            BY <1>0, <1>2, <3>1, <6>1 DEF Facts, Shape
          <6>2. CASE run[r].pc = "clear"
            BY <1>0, <1>2, <3>1, <6>2 DEF Facts, Shape, WayBack
          <6>3. CASE run[r].pc = "move"
            BY <1>0, <1>2, <3>1, <6>3 DEF Facts, Shape, WayBack
          <6>4. QED BY <4>2, <6>1, <6>2, <6>3
        <5>3. Caught(r)'
          BY <2>4, <2>5, <5>1, <5>2 DEF Caught, Points
        <5>4. QED BY <3>2, <4>1, <5>3 DEF WayBack
      <4>3. CASE run[r].pc \in {"copy", "up"}
        <5>1. Kept(r)' /\ ~up'
          BY <1>0, <1>2, <1>4, <2>4, <2>5, <3>1, <4>3 DEF WayBack, Kept, Points, Facts, Shape
        <5>2. QED BY <3>2, <4>1, <5>1 DEF WayBack, Caught
      <4>4. CASE run[r].pc = "finish"
        <5>1. Healed(r)' /\ up' /\ Points(r)'
          BY <1>2, <1>4, <2>4, <2>5, <3>1, <4>4 DEF WayBack, Healed, Renewed, Kept, Points
        <5>2. QED BY <3>2, <4>1, <5>1 DEF WayBack, Caught
      <4>5. QED BY <1>1, <3>4, <4>2, <4>3, <4>4 DEF Fails
    <3>5. QED BY <3>3, <3>4
  <2>10. Facts(r)'
    BY <2>8, <2>9 DEF Facts
  <2>11. QED BY <1>1, <1>5, <2>5, <2>7, <2>10, HolderStep
<1>8. QED BY <1>2, <1>6, <1>7

-----------------------------------------------------------------------------
\* Steps that leave the files and the application alone: what holds of a run that
\* is not changed stays.
LEMMA FactsStay ==
  ASSUME Portable, files' = files, up' = up, NEW s \in Run, run'[s] = run[s]
  PROVE  Facts(s)'
BY DEF Portable, Facts, Guided, Shape, WayBack, AsFound, Points, Kept, Renewed, Healed, Landed, Ended,
       Caught, Sound, Early, files

LEMMA FilesStay ==
  ASSUME Portable, files' = files, up' = up
  PROVE  FilesTyped' /\ Whole'
BY DEF Portable, Typed, FilesTyped, Whole, files

\* A run that is off or has just been started.
LEMMA Idle ==
  ASSUME NEW r \in Run, run'[r].pc = "off" \/ (run'[r].pc = "start" /\ run'[r].prev = Gone)
  PROVE  Facts(r)'
BY DEF Facts, Guided, Shape, Early, Coming

\* A run ends on its way to the lock.
LEMMA EndStep ==
  ASSUME Portable, NEW r \in Run, End(r), Early(r), files' = files, up' = up, lock' = lock, Rest'
  PROVE  Portable'
<1>1. RunsTyped' /\ Same(r) /\ run'[r].pc = "off"
  BY EndFields DEF Portable, Typed
<1>2. Keys'
  BY <1>1 DEF Portable, Keys, Same, Early, Coming, At, Held
<1>3. \A s \in Run : Facts(s)'
  BY <1>1, FactsStay, Idle DEF Same
<1>4. QED BY <1>1, <1>2, <1>3, FilesStay DEF Portable, Typed

\* A run comes a step nearer to the lock.
LEMMA NearerStep ==
  ASSUME Portable, NEW r \in Run, run[r].pc \in {"start", "test"}, Given(r),
         run'[r].pc \in {"test", "lock"}, run'[r].pc = "lock" => ~Held, run'[r].prev = run[r].prev,
         run[r].entry = "Rollback" => run[r].version \in Releases,
         files' = files, up' = up, lock' = lock, status' = status, latest' = latest, cuts' = cuts
  PROVE  Portable'
<1>1. RunsTyped' /\ Same(r) /\ Rest'
  BY DEF Given, Portable, Typed, Rest
<1>2. Keys'
  BY <1>1 DEF Portable, Keys, Same, Early, Coming, At, Held
<1>3. Facts(r)'
  <2>1. Facts(r)
    BY DEF Portable
  <2>2. QED BY <2>1 DEF Given, Facts, Guided, Shape, Early, Coming
<1>4. \A s \in Run : Facts(s)'
  BY <1>1, <1>3, FactsStay DEF Same
<1>5. QED BY <1>1, <1>2, <1>4, FilesStay DEF Portable, Typed

LEMMA StepRefuseVersion ==
  ASSUME Portable, NEW r \in Run, RefuseVersion(r)
  PROVE  Portable'
<1>1. Rest' /\ Early(r)
  BY DEF RefuseVersion, Portable, Typed, Rest, Early, Coming, At
<1>2. QED BY <1>1, EndStep DEF RefuseVersion

LEMMA VersionsFound == FilesTyped => LocalVersion \subseteq Versions
BY Constants DEF FilesTyped, LocalVersion

LEMMA StepReadVersion ==
  ASSUME Portable, NEW r \in Run, ReadVersion(r)
  PROVE  Portable'
<1>0. RunsTyped /\ FilesTyped /\ run[r].pc = "start" /\ run[r] \in Runs
  BY DEF Portable, Typed, ReadVersion, At, RunsTyped
<1>1. PICK found \in Versions : run' = [run EXCEPT ![r].found = found, ![r].pc = "test"]
  BY <1>0, VersionsFound, Constants DEF ReadVersion
<1> DEFINE q == [run[r] EXCEPT !.found = found, !.pc = "test"]
<1>2. run' = [run EXCEPT ![r] = q]
  BY <1>0, <1>1, Zenon DEF RunsTyped
<1>3. q \in Runs /\ q.pc = "test" /\ q.entry = run[r].entry /\ q.version = run[r].version /\ q.prev = run[r].prev
  BY <1>0 DEF Runs, Steps
<1> HIDE DEF q
<1>4. RunsTyped' /\ Same(r) /\ run'[r] = q
  BY <1>0, <1>2, <1>3, OneRun
<1>5. Given(r) /\ run'[r].pc = "test" /\ run'[r].prev = run[r].prev
  BY <1>3, <1>4 DEF Given
<1>6. run[r].entry = "Rollback" => run[r].version \in Releases
  BY <1>0, Constants DEF ReadVersion, Startable, Runs
<1>7. QED BY <1>0, <1>5, <1>6, NearerStep DEF ReadVersion

LEMMA StepTestLock ==
  ASSUME Portable, NEW r \in Run, TestLock(r)
  PROVE  Portable'
<1>0. RunsTyped /\ Rest /\ run[r].pc = "test" /\ Early(r) /\ Facts(r)
  BY DEF Portable, Typed, TestLock, At, Early, Coming
<1>1. CASE Held /\ End(r) /\ status' = Refused(r)
  <2>1. Rest'
    BY <1>0, <1>1 DEF TestLock, Rest, Refused, Told
  <2>2. QED BY <1>0, <1>1, <2>1, EndStep DEF TestLock
<1>2. CASE ~Held /\ Go(r, "lock") /\ UNCHANGED status
  <2>1. Keeps(r) /\ run'[r].pc = "lock"
    BY <1>0, <1>2, GoFields DEF Steps
  <2>2. run[r].entry = "Rollback" => run[r].version \in Releases
    BY <1>0 DEF Facts, Shape
  <2>3. QED BY <1>0, <1>2, <2>1, <2>2, NearerStep DEF TestLock, Keeps
<1>3. QED BY <1>1, <1>2 DEF TestLock

LEMMA StepLockFails ==
  ASSUME Portable, NEW r \in Run, LockFails(r)
  PROVE  Portable'
<1>1. Rest' /\ Early(r)
  BY DEF LockFails, Portable, Typed, Rest, Refused, Told, Early, Coming, At
<1>2. QED BY <1>1, EndStep DEF LockFails

LEMMA StepEndUntold ==
  ASSUME Portable, NEW r \in Run, EndUntold(r)
  PROVE  Portable'
<1>1. Rest' /\ files' = files /\ up' = up /\ lock' = lock
  BY PortableNumbers DEF EndUntold, Portable, Typed, Rest
<1>2. CASE At(r, "start") /\ End(r)
  BY <1>1, <1>2, EndStep DEF At, Early, Coming
<1>3. CASE At(r, "test") /\ Held /\ End(r)
  BY <1>1, <1>3, EndStep DEF At, Early, Coming
<1>4. CASE At(r, "failed") /\ Done(r)
  <2>1. ~Early(r)
    BY <1>4 DEF At, Early, Coming
  <2>2. QED BY <1>1, <1>4, <2>1, FilesStay, DoneStep
<1>5. QED BY <1>2, <1>3, <1>4 DEF EndUntold

LEMMA StepLeave ==
  ASSUME Portable, NEW r \in Run, Leave(r)
  PROVE  Portable'
<1>1. RunsTyped' /\ Same(r) /\ run'[r].pc = "off"
  BY EndFields DEF Portable, Typed, Leave
<1>2. lock = r /\ run[r].pc = "leave"
  BY DEF Leave, Portable, Keys, Early, Coming, At
<1>3. Rest' /\ Keys'
  <2>1. ASSUME NEW s \in Run PROVE run'[s].pc \in {"off", "start", "test"}
    BY <1>1, <1>2, <2>1 DEF Portable, Keys, Same, Early, Coming, At, Held
  <2>2. Rest'
    BY DEF Leave, Portable, Typed, Rest
  <2>3. ASSUME NEW s \in Run, NEW t \in Run, run'[s].pc \in Coming, run'[t].pc \in Coming PROVE s = t
    BY <1>1, <2>3 DEF Portable, Keys, Same, Coming
  <2>4. QED BY <2>1, <2>2, <2>3 DEF Keys, Early, Coming, At
<1>4. \A s \in Run : Facts(s)'
  BY <1>1, FactsStay, Idle DEF Leave, Same
<1>5. QED BY <1>1, <1>3, <1>4, FilesStay DEF Portable, Typed, Leave

LEMMA StepWriteLock ==
  ASSUME Portable, NEW r \in Run, WriteLock(r)
  PROVE  Portable'
<1>0. FilesTyped /\ RunsTyped /\ Rest /\ Whole /\ run[r].pc = "lock" /\ Facts(r) /\ run[r] \in Runs
  BY DEF Portable, Typed, WriteLock, At, RunsTyped
<1> DEFINE pc == IF Updating(r) THEN "prepare" ELSE "dump"
           marks == IF Updating(r) /\ up /\ {app, db} = {run[r].found} THEN {"sound"} ELSE {}
           q == [run[r] EXCEPT !.pc = pc, !.marks = marks]
<1>1. run' = [run EXCEPT ![r] = q]
  <2>1. run' = [run EXCEPT ![r].pc = pc, ![r].marks = marks]
    BY DEF WriteLock
  <2>2. run \in [Run -> Runs] BY <1>0 DEF RunsTyped
  <2> HIDE DEF pc, marks
  <2>3. QED BY <2>1, <2>2, Zenon
<1>2. /\ q \in Runs /\ q.pc = pc /\ q.found = run[r].found /\ q.marks = marks
      /\ q.entry = run[r].entry /\ q.version = run[r].version /\ q.prev = run[r].prev
      /\ q.dump = run[r].dump
  <2>1. pc \in Steps /\ marks \in SUBSET Marks BY DEF Steps, Marks
  <2> HIDE DEF pc, marks
  <2>2. QED BY <1>0, <2>1 DEF Runs
<1>3. RunsTyped' /\ Same(r) /\ run'[r] = q
  <2> HIDE DEF q
  <2>1. QED BY <1>0, <1>1, <1>2, OneRun
<1>4. /\ run'[r].pc = pc /\ run'[r].found = run[r].found /\ run'[r].marks = marks
      /\ run'[r].entry = run[r].entry /\ run'[r].version = run[r].version
      /\ run'[r].prev = run[r].prev
  <2> HIDE DEF q
  <2>1. QED BY <1>2, <1>3
<1>5. Rest'
  <2>1. status' \in Busy \cup Told
    BY <1>0 DEF WriteLock, Rest, Busy, Runs, AllEntries
  <2>2. QED BY <1>0, <2>1 DEF WriteLock, Rest
<1>6. Keys'
  <2>1. \A s \in Run \ {r} : run'[s].pc = "off"
    BY <1>0, <1>3 DEF Portable, Keys, Same, Early, Coming, At, Held
  <2>2. run'[r].pc \notin {"off"} \cup Coming /\ lock' = r
    BY <1>4 DEF WriteLock, Coming
  <2>3. QED BY <2>1, <2>2 DEF Keys, Early, Coming, At
<1>7. Facts(r)'
  <2>1. UNCHANGED <<app, releases, db, up>>
    BY DEF WriteLock, files
  <2>2. Shape(r)'
    BY <1>0, <1>4, <2>1 DEF Facts, Shape, Coming, Updating
  <2>3. Guided(r)' => WayBack(r)'
    <3> SUFFICES ASSUME Guided(r)' PROVE WayBack(r)'
      OBVIOUS
    <3>1. Updating(r) /\ up /\ {app, db} = {run[r].found} /\ marks = {"sound"}
      BY <1>4 DEF Guided, Sound
    <3>2. app = run[r].found /\ db = run[r].found /\ app \in Releases
      BY <1>0, <3>1 DEF Whole
    <3>3. QED BY <1>4, <2>1, <3>1, <3>2 DEF WayBack, AsFound
  <2>4. QED BY <2>2, <2>3 DEF Facts
<1>8. \A s \in Run : Facts(s)'
  BY <1>3, <1>7, FactsStay DEF WriteLock, Same
<1>9. QED BY <1>3, <1>5, <1>6, <1>8, FilesStay DEF Portable, Typed, WriteLock

\* A run is started: nobody else is on the way to the lock.
LEMMA StartedKeys ==
  ASSUME Portable, Overlap = FALSE, NEW r \in Run, Quiet, ~Alive(r), lock' = lock,
         NEW q \in Runs, q.pc = "start", q.prev = Gone, run' = [run EXCEPT ![r] = q],
         files' = files, up' = up, Rest'
  PROVE  Portable'
<1>1. RunsTyped' /\ run'[r] = q /\ \A s \in Run \ {r} : run'[s] = run[s]
  BY OneRun DEF Same, Portable, Typed
<1>2. Keys'
  BY <1>1 DEF Portable, Keys, Quiet, Alive, Early, Coming, At, Held
<1>3. \A s \in Run : Facts(s)'
  BY <1>1, Idle, FactsStay
<1>4. QED BY <1>1, <1>2, <1>3, FilesStay DEF Portable, Typed

LEMMA AtStart ==
  ASSUME NEW entry \in AllEntries, NEW version \in Versions
  PROVE  LET q == RunAt("start", entry, version)
         IN  q \in Runs /\ q.pc = "start" /\ q.prev = Gone
<1>1. "start" \in Steps BY DEF Steps
<1>2. RunAt("start", entry, version) \in Runs
  BY <1>1, RunAtTyped
<1>3. QED BY <1>2 DEF RunAt

LEMMA StepRequest ==
  ASSUME Portable, Overlap = FALSE, NEW r \in Run, NEW entry \in Entries,
         NEW version \in Versions, Request(r, entry, version)
  PROVE  Portable'
<1>0. entry \in AllEntries
  BY PortableSwitches
<1>1. files' = files /\ up' = up /\ lock' = lock /\ Quiet /\ ~Alive(r)
  BY DEF Request
<1>2. Rest'
  BY DEF Request, Portable, Typed, Rest, Busy, Told
<1>3. CASE run' = [run EXCEPT ![r] = RunAt("start", entry, version)]
  <2> DEFINE q == RunAt("start", entry, version)
  <2>1. q \in Runs /\ q.pc = "start" /\ q.prev = Gone
    BY <1>0, AtStart
  <2> HIDE DEF q
  <2>2. run' = [run EXCEPT ![r] = q] BY <1>3 DEF q
  <2>3. QED BY <1>1, <1>2, <2>1, <2>2, StartedKeys
<1>4. CASE UNCHANGED run
  <2>1. RunsTyped' /\ Keys'
    BY <1>1, <1>4 DEF Portable, Typed, RunsTyped, Keys, Early, Coming, At, Held
  <2>2. \A s \in Run : Facts(s)'
    BY <1>1, <1>4, FactsStay
  <2>3. QED BY <1>1, <1>2, <2>1, <2>2, FilesStay DEF Portable, Typed
<1>5. QED BY <1>3, <1>4 DEF Request

LEMMA StepRequestBackup ==
  ASSUME Portable, Overlap = FALSE, NEW r \in Run, RequestBackup(r)
  PROVE  Portable'
<1>1. files' = files /\ up' = up /\ lock' = lock /\ Quiet /\ ~Alive(r)
  BY DEF RequestBackup
<1>2. Rest'
  BY DEF RequestBackup, Portable, Typed, Rest
<1> DEFINE q == RunAt("start", "Backup", None)
<1>3. q \in Runs /\ q.pc = "start" /\ q.prev = Gone
  BY AtStart, Constants DEF AllEntries
<1>4. run' = [run EXCEPT ![r] = q] BY DEF RequestBackup
<1> HIDE DEF q
<1>5. QED BY <1>1, <1>2, <1>3, <1>4, StartedKeys

\* Everything off: after a power failure, and at the beginning.
LEMMA AllOff ==
  ASSUME RunsTyped', \A r \in Run : run'[r].pc = "off"
  PROVE  Keys' /\ \A r \in Run : Facts(r)'
BY Idle DEF Keys, Early, Coming, At

LEMMA StepCrash ==
  ASSUME Portable, Crash
  PROVE  Portable'
<1>0. FilesTyped /\ RunsTyped /\ Rest
  BY DEF Portable, Typed
<1>1. RunsTyped' /\ \A r \in Run : run'[r].pc = "off"
  BY OffTyped DEF Crash, RunsTyped, Off, RunAt
<1>2. app' \in Trees /\ db' \in Schemas
  <2>1. app' \in {app, Torn} /\ db' \in {db, Torn}
    BY DEF Crash
  <2>2. QED BY <1>0, <2>1, Constants DEF FilesTyped
<1>3. releases' \in [Versions -> Trees]
  <2>1. \/ releases' = releases
        \/ \E r \in Run : releases' \in Cleared(run[r].found)
        \/ \E r \in Run : releases' \in Pruned(r)
    BY DEF Crash
  <2>2. \A r \in Run : run[r].found \in Versions
    BY <1>0 DEF RunsTyped, Runs
  <2>3. QED BY <1>0, <2>1, <2>2, ClearedTyped, PrunedTyped DEF FilesTyped
<1>4. up' = (app' \in Releases) /\ UNCHANGED <<latest, status>>
  BY DEF Crash
<1>5. FilesTyped' /\ Whole'
  <2>1. up' \in BOOLEAN BY <1>4
  <2>2. QED BY <1>2, <1>3, <1>4, <2>1 DEF FilesTyped, Whole
<1>6. Rest'
  <2>1. cuts' \in 0..MaxCuts
    <3>1. cuts < MaxCuts /\ cuts' = cuts + 1 BY DEF Crash
    <3>2. QED BY <1>0, <3>1, PortableNumbers DEF Rest
  <2>2. lock' \in Run \cup {"free", "left", "expired"}
    BY <1>0 DEF Crash, Rest
  <2>3. QED BY <1>0, <1>4, <2>1, <2>2 DEF Rest
<1>7. QED BY <1>1, <1>5, <1>6, AllOff DEF Portable, Typed

LEMMA StepStartByHand ==
  ASSUME Portable, StartByHand
  PROVE  Portable'
<1>1. \A r \in Run : run'[r].pc = "off"
  BY DEF StartByHand, Alive
<1>2. RunsTyped' /\ Rest'
  BY DEF StartByHand, Portable, Typed, RunsTyped, Rest
<1>3. FilesTyped' /\ Whole'
  BY DEF StartByHand, Portable, Typed, FilesTyped, Whole, files
<1>4. QED BY <1>1, <1>2, <1>3, AllOff DEF Portable, Typed

LEMMA StepLockExpires ==
  ASSUME Portable, LockExpires
  PROVE  Portable'
<1>1. files' = files /\ up' = up /\ run' = run /\ lock = "left" /\ lock' = "expired"
  BY DEF LockExpires
<1>2. RunsTyped' /\ Rest'
  BY DEF LockExpires, Portable, Typed, RunsTyped, Rest
<1>3. Keys'
  BY <1>1, PortableRuns DEF Portable, Keys, Early, Coming, At, Held
<1>4. QED BY <1>1, <1>2, <1>3, FactsStay, FilesStay DEF Portable, Typed

LEMMA StepPublish ==
  ASSUME Portable, Publish
  PROVE  Portable'
<1>1. files' = files /\ up' = up /\ run' = run /\ lock' = lock
  BY DEF Publish
<1>2. latest' \in Releases
  BY PortableNumbers DEF Publish, Portable, Typed, Rest, Releases
<1>3. RunsTyped' /\ Rest' /\ Keys'
  BY <1>1, <1>2 DEF Publish, Portable, Typed, RunsTyped, Rest, Keys, Early, Coming, At, Held
<1>4. QED BY <1>1, <1>3, FactsStay, FilesStay DEF Portable, Typed

LEMMA StepNothing ==
  ASSUME Portable, UNCHANGED vars
  PROVE  Portable'
<1>1. UNCHANGED <<latest, app, releases, db, up, lock, status, run, cuts>>
  BY DEF vars, files
<1>2. files' = files BY <1>1 DEF files
<1>3. RunsTyped' /\ Rest' /\ Keys'
  BY <1>1 DEF Portable, Typed, RunsTyped, Rest, Keys, Early, Coming, At, Held
<1>4. QED BY <1>1, <1>2, <1>3, FactsStay, FilesStay DEF Portable, Typed

LEMMA InitPortable == Init => Portable
<1> SUFFICES ASSUME Init PROVE Portable
  OBVIOUS
<1>1. \A r \in Run : run[r].pc = "off"
  BY DEF Init, Off, RunAt
<1>2. FilesTyped /\ Whole
  BY Constants DEF Init, FilesTyped, Whole
<1>3. RunsTyped
  BY OffTyped DEF Init, RunsTyped
<1>4. Rest
  BY Constants, PortableNumbers DEF Init, Rest, Told
<1>5. Keys /\ \A r \in Run : Facts(r)
  BY <1>1 DEF Keys, Early, Coming, At, Facts, Guided, Shape
<1>6. QED BY <1>2, <1>3, <1>4, <1>5 DEF Portable, Typed

LEMMA StepScript ==
  ASSUME Portable, NEW r \in Run, ScriptStep(r)
  PROVE  Portable'
BY StepRefuseVersion, StepReadVersion, StepTestLock, StepWriteLock, StepLockFails, StepLeave,
   StepPrepare, StepDump, StepStop, StepClear, StepMove, StepCopy, StepMigrate, StepStart,
   StepHealthy, StepFinalize, StepFail, StepRecover, StepUndoStop, StepUndoDb, StepUndoApp,
   StepUndoUp, StepUndoFails, StepTellFailed, StepEndUntold
   DEF ScriptStep

LEMMA StepPortable ==
  ASSUME Overlap = FALSE, Portable, [Next]_vars
  PROVE  Portable'
<1>1. CASE \E r \in Run : \/ \E entry \in Entries, version \in Versions : Request(r, entry, version)
                          \/ RequestBackup(r)
                          \/ ScriptStep(r)
  BY <1>1, StepRequest, StepRequestBackup, StepScript
<1>2. CASE Publish \/ StartByHand \/ Crash \/ LockExpires
  BY <1>2, StepPublish, StepStartByHand, StepCrash, StepLockExpires
<1>3. CASE UNCHANGED vars
  BY <1>3, StepNothing
<1>4. QED BY <1>1, <1>2, <1>3 DEF Next

LEMMA AlwaysPortable == ASSUME Overlap = FALSE PROVE Spec => []Portable
<1>1. Portable /\ [Next]_vars => Portable'
  BY StepPortable
<1>2. QED BY <1>1, InitPortable, PTL DEF Spec

\* While no run starts as long as another is on its way to the lock, folders,
\* database and runs keep their types, and an application that answers has a whole
\* tree in app\: whatever fails or is cut off, and also when a folder is left half
\* removed.
THEOREM PortableTyped ==
  ASSUME Overlap = FALSE
  PROVE  Spec => []TypeOK
BY AlwaysPortable, PortableImplies, PTL

\* Under the same condition, two runs of update.ps1 never stop, move and start the
\* application at once, with any number of requests, failures and power failures.
THEOREM OnePipelineAtATime ==
  ASSUME Overlap = FALSE
  PROVE  Spec => []OnePipeline
BY AlwaysPortable, PortableImplies, PTL

\* Under the same condition, an update that found one release running, and still
\* found it when it had the lock, that fails anywhere and whose own recovery meets
\* no further failure, leaves that release running on its schema, or what was in
\* releases\ under its number on that schema, or the new release, past its health
\* check, on its own schema.
THEOREM FailedUpdatesRestore ==
  ASSUME Overlap = FALSE
  PROVE  Spec => []FailedUpdateRestores
<1>1. Portable => FailedUpdateRestores
  BY PortableImplies
<1>2. QED BY <1>1, AlwaysPortable, PTL
=============================================================================
