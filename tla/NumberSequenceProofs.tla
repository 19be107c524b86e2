----------------------- MODULE NumberSequenceProofs ------------------------
(***************************************************************************)
(* For any number of requests and numbers: the atomic generators draw      *)
(* every number once, and so does the reread generator as long as nothing  *)
(* draws between its read and its write.                                   *)
(***************************************************************************)
EXTENDS NumberSequence, TLAPS

\* The numbers up to a counter are the ones that may have been drawn.
Covered(n) == \E r \in rows : n <= last[r]

AllCovered ==
    /\ \A n \in filed : Covered(n)
    /\ \A w \in Worker : step[w] = "drawn" => Covered(number[w])

\* What a reread found is still so, and nobody else is about to write.
InTurn ==
    \A w \in Worker : step[w] = "reread" =>
        /\ found[w] = NoRow => rows = {} /\ number[w] = 0
        /\ found[w] # NoRow => rows = {found[w]} /\ last[found[w]] = number[w]
        /\ \A v \in Worker \ {w} : step[v] \notin {"reread", "serial"}

\* A serial transaction holds a row of the counter, if it found one.
SerialFound ==
    \A w \in Worker : step[w] = "serial" /\ found[w] # NoRow => found[w] \in rows

\* A request uses a generator of this counter.
InUse == \A w \in Worker : step[w] \in {"serial", "reread"} => step[w] \in Generators

SequenceInv ==
    /\ TypeOK
    /\ OneRow
    /\ AllCovered
    /\ InTurn
    /\ SerialFound
    /\ InUse
    /\ NumbersAreFresh

\* The counter is drawn from by the atomic generators only, or in turn.
Orderly == RereadOverlap = FALSE \/ "reread" \notin Generators
-----------------------------------------------------------------------------
LEMMA InitSequence == Init => SequenceInv
  BY NoRowAssumption DEF Init, SequenceInv, TypeOK, OneRow, AllCovered, InTurn,
     SerialFound, InUse, NumbersAreFresh, Steps

\* Drawing a number above the counter, and leaving the counter at it, while no
\* other request is between the two halves of a reread.
LEMMA DrawIsFresh ==
  ASSUME SequenceInv, NEW w \in Worker, NEW r \in Row, NEW n \in Nat, Draw(w, n),
         rows \subseteq {r}, r \in rows => last[r] < n,
         rows' = {r}, last' \in [Row -> Nat], last'[r] = n,
         \A v \in Worker \ {w} : step[v] # "reread",
         UNCHANGED <<kind, filed, found>>
  PROVE  SequenceInv'
<1>1. TypeOK'
  BY DEF SequenceInv, TypeOK, Draw, Steps
<1>2. OneRow'
  BY DEF OneRow
<1>3. ASSUME NEW m \in Nat, Covered(m) PROVE m < n /\ Covered(m)'
  <2>1. r \in rows /\ m <= last[r] /\ last[r] \in Nat
    BY <1>3 DEF Covered, SequenceInv, TypeOK
  <2>2. m < n /\ m <= n
    BY <2>1
  <2> QED BY <2>2 DEF Covered
<1>4. \A m \in filed : m < n /\ Covered(m)'
  BY <1>3 DEF SequenceInv, TypeOK, AllCovered
<1>5. ASSUME NEW v \in Worker, step[v] = "drawn"
      PROVE  number[v] < n /\ \E q \in rows' : number[v] <= last'[q]
  <2>1. number[v] \in Nat /\ Covered(number[v])
    BY <1>5 DEF SequenceInv, TypeOK, AllCovered
  <2> QED BY <2>1, <1>3 DEF Covered
<1>6. /\ step'[w] = "drawn" /\ number'[w] = n
      /\ \A v \in Worker \ {w} : step'[v] = step[v] /\ number'[v] = number[v]
  BY DEF Draw, SequenceInv, TypeOK
<1>7. AllCovered'
  <2>1. \A m \in filed' : Covered(m)'
    BY <1>4
  <2>2. ASSUME NEW v \in Worker, step'[v] = "drawn" PROVE \E q \in rows' : number'[v] <= last'[q]
    <3>1. CASE v = w
      BY <3>1, <1>6
    <3>2. CASE v # w
      BY <3>2, <2>2, <1>5, <1>6
    <3> QED BY <3>1, <3>2
  <2> QED BY <2>1, <2>2 DEF AllCovered, Covered
<1>8. NumbersAreFresh'
  <2> SUFFICES ASSUME NEW v \in Worker, step'[v] = "drawn"
               PROVE  /\ number'[v] \notin filed'
                      /\ \A u \in Worker \ {v} : step'[u] = "drawn" => number'[u] # number'[v]
    BY DEF NumbersAreFresh
  <2>1. number \in [Worker -> Nat] /\ filed \subseteq Nat
    BY DEF SequenceInv, TypeOK
  <2>2. CASE v = w
    BY <2>1, <2>2, <1>4, <1>5, <1>6
  <2>3. CASE v # w
    <3>1. step[v] = "drawn" /\ number'[v] = number[v]
      BY <2>3, <1>6
    <3>2. number[v] \notin filed /\ number[v] < n
      BY <3>1, <1>5 DEF SequenceInv, NumbersAreFresh
    <3>3. ASSUME NEW u \in Worker \ {v}, step'[u] = "drawn" PROVE number'[u] # number[v]
      <4>1. CASE u = w
        BY <4>1, <3>2, <2>1, <1>6
      <4>2. CASE u # w
        BY <4>2, <3>1, <3>3, <1>6 DEF SequenceInv, NumbersAreFresh
      <4> QED BY <4>1, <4>2
    <3> QED BY <3>1, <3>2, <3>3
  <2> QED BY <2>2, <2>3
<1>9. InTurn'
  BY <1>6 DEF InTurn
<1>10. SerialFound' /\ InUse'
  BY <1>6 DEF SequenceInv, SerialFound, InUse, Generators
<1> QED BY <1>1, <1>2, <1>7, <1>8, <1>9, <1>10 DEF SequenceInv

\* No reread is under way when an orderly counter lets somebody start.
LEMMA NobodyRereads ==
  ASSUME SequenceInv, Orderly, NEW w \in Worker, NEW g, MayStart(w, g)
  PROVE  \A v \in Worker : step[v] # "reread" /\ (g = "reread" => step[v] # "serial")
  BY DEF Orderly, MayStart, SequenceInv, InUse

LEMMA UpsertKeeps ==
  ASSUME SequenceInv, Orderly, NEW w \in Worker, Upsert(w)
  PROVE  SequenceInv'
<1>1. \A v \in Worker \ {w} : step[v] # "reread"
  BY NobodyRereads DEF Upsert
<1>2. ASSUME NEW r \in rows, last' = [last EXCEPT ![r] = @ + 1], UNCHANGED rows,
             Draw(w, last[r] + 1)
      PROVE  SequenceInv'
  <2>1. r \in Row /\ last[r] \in Nat /\ rows = {r}
    BY DEF SequenceInv, TypeOK, OneRow
  <2>2. last' \in [Row -> Nat] /\ last'[r] = last[r] + 1 /\ last[r] < last[r] + 1
    BY <1>2, <2>1 DEF SequenceInv, TypeOK
  <2> QED BY <1>1, <1>2, <2>1, <2>2, DrawIsFresh DEF Upsert
<1>3. ASSUME NEW r \in Row, rows = {}, rows' = {r}, last' = [last EXCEPT ![r] = 1], Draw(w, 1)
      PROVE  SequenceInv'
  <2>1. last' \in [Row -> Nat] /\ last'[r] = 1
    BY <1>3 DEF SequenceInv, TypeOK
  <2> QED BY <1>1, <1>3, <2>1, DrawIsFresh DEF Upsert
<1> QED BY <1>2, <1>3 DEF Upsert

LEMMA SerialKeeps ==
  ASSUME SequenceInv, NEW w \in Worker, SerialCommit(w)
  PROVE  SequenceInv'
<1>1. \A v \in Worker \ {w} : step[v] # "reread"
  BY DEF SerialCommit, SequenceInv, InTurn
<1>2. CASE found[w] # NoRow
  <2> DEFINE r == found[w]
  <2>1. r \in rows /\ rows = {r} /\ r \in Row /\ number[w] \in Nat
    BY <1>2 DEF SerialCommit, SequenceInv, SerialFound, TypeOK, OneRow
  <2>2. last[r] = number[w]
    BY <1>2 DEF SerialCommit, Unchanged
  <2>3. /\ last' = [q \in Row |-> IF q \in rows THEN last[q] + 1 ELSE last[q]]
        /\ rows' = rows /\ Draw(w, number[w] + 1) /\ UNCHANGED <<kind, filed, found>>
    BY <1>2 DEF SerialCommit
  <2>4. last' \in [Row -> Nat] /\ last'[r] = number[w] + 1 /\ last[r] < number[w] + 1
    BY <2>1, <2>2, <2>3 DEF SequenceInv, TypeOK
  <2>5. number[w] + 1 \in Nat
    BY <2>1
  <2> HIDE DEF r
  <2> QED BY <1>1, <2>1, <2>3, <2>4, <2>5, DrawIsFresh
<1>3. CASE found[w] = NoRow
  <2>1. rows = {} /\ Draw(w, 1) /\ UNCHANGED <<kind, filed, found>>
    BY <1>3 DEF SerialCommit, Unchanged
  <2>2. PICK r \in Row : rows' = {r} /\ last' = [last EXCEPT ![r] = 1]
    BY <1>3 DEF SerialCommit
  <2>3. last' \in [Row -> Nat] /\ last'[r] = 1
    BY <2>2 DEF SequenceInv, TypeOK
  <2> QED BY <1>1, <2>1, <2>2, <2>3, DrawIsFresh
<1> QED BY <1>2, <1>3

LEMMA RereadWriteKeeps ==
  ASSUME SequenceInv, NEW w \in Worker, RereadWrite(w)
  PROVE  SequenceInv'
<1> DEFINE r == found[w]
<1>1. \A v \in Worker \ {w} : step[v] # "reread"
  BY DEF RereadWrite, SequenceInv, InTurn
<1>2. rows = {r} /\ last[r] = number[w] /\ r \in Row /\ number[w] \in Nat
  BY DEF RereadWrite, SequenceInv, InTurn, TypeOK
<1>3. /\ last' = [last EXCEPT ![r] = number[w] + 1]
      /\ rows' = rows /\ Draw(w, number[w] + 1) /\ UNCHANGED <<kind, filed, found>>
  BY DEF RereadWrite
<1>4. last' \in [Row -> Nat] /\ last'[r] = number[w] + 1 /\ last[r] < number[w] + 1
  BY <1>2, <1>3 DEF SequenceInv, TypeOK
<1>5. number[w] + 1 \in Nat
  BY <1>2
<1> HIDE DEF r
<1> QED BY <1>1, <1>2, <1>3, <1>4, <1>5, DrawIsFresh

LEMMA RereadCreateKeeps ==
  ASSUME SequenceInv, NEW w \in Worker, RereadCreate(w)
  PROVE  SequenceInv'
<1>1. PICK r \in Row : /\ rows' = {r}
                       /\ last' = [last EXCEPT ![r] = 0]
                       /\ found' = [found EXCEPT ![w] = r]
  BY DEF RereadCreate, SequenceInv, InTurn
<1>2. rows = {} /\ number[w] = 0 /\ step[w] = "reread"
      /\ \A v \in Worker \ {w} : step[v] \notin {"reread", "serial"}
  BY DEF RereadCreate, SequenceInv, InTurn
<1>3. UNCHANGED <<kind, filed, step, number>>
  BY DEF RereadCreate
<1>4. TypeOK' /\ OneRow'
  BY <1>1, <1>3 DEF SequenceInv, TypeOK, OneRow
<1>5. AllCovered'
  BY <1>2, <1>3 DEF SequenceInv, AllCovered, Covered
<1>6. InTurn' /\ SerialFound' /\ InUse' /\ NumbersAreFresh'
  BY <1>1, <1>2, <1>3, NoRowAssumption
     DEF SequenceInv, TypeOK, InTurn, SerialFound, InUse, Generators, NumbersAreFresh
<1> QED BY <1>4, <1>5, <1>6 DEF SequenceInv

LEMMA FindKeeps ==
  ASSUME SequenceInv, Orderly, NEW w \in Worker, NEW g \in {"serial", "reread"}, Find(w, g)
  PROVE  SequenceInv'
<1>1. /\ g \in {"serial", "reread"} /\ step' = [step EXCEPT ![w] = g]
      /\ rows' = rows /\ last' = last /\ filed' = filed /\ kind' = kind /\ g \in Generators
  BY DEF Find, MayStart, table
<1>2. \A v \in Worker : step[v] # "reread" /\ (g = "reread" => step[v] # "serial")
  BY NobodyRereads DEF Find
<1>3. PICK r \in rows \cup {NoRow}, n \in Nat :
        /\ found' = [found EXCEPT ![w] = r] /\ number' = [number EXCEPT ![w] = n]
        /\ r = NoRow => rows = {} /\ n = 0
        /\ r # NoRow => last[r] = n
  BY NoRowAssumption DEF Find, SequenceInv, TypeOK
<1>4. TypeOK'
  BY <1>1, <1>3 DEF SequenceInv, TypeOK, Steps
<1>5. OneRow' /\ AllCovered' /\ NumbersAreFresh'
  BY <1>1, <1>3 DEF SequenceInv, TypeOK, OneRow, AllCovered, Covered, NumbersAreFresh
<1>6. r # NoRow => rows = {r}
  BY DEF SequenceInv, OneRow
<1>7. InTurn' /\ SerialFound' /\ InUse'
  BY <1>1, <1>2, <1>3, <1>6 DEF SequenceInv, TypeOK, InTurn, SerialFound, InUse, Generators
<1> QED BY <1>4, <1>5, <1>7 DEF SequenceInv

LEMMA EndKeeps ==
  ASSUME SequenceInv, NEW w \in Worker, File(w) \/ FailRequest(w)
  PROVE  SequenceInv'
<1>1. /\ step' = [step EXCEPT ![w] = "idle"] /\ UNCHANGED <<kind, rows, last, found, number>>
      /\ filed' = filed \/ (step[w] = "drawn" /\ filed' = filed \cup {number[w]})
  BY DEF File, FailRequest, Stop, table
<1>2. TypeOK' /\ OneRow'
  BY <1>1 DEF SequenceInv, TypeOK, OneRow, Steps
<1>3. AllCovered'
  BY <1>1 DEF SequenceInv, TypeOK, AllCovered, Covered
<1>4. InTurn' /\ SerialFound' /\ InUse'
  BY <1>1 DEF SequenceInv, TypeOK, InTurn, SerialFound, InUse, Generators
<1>5. NumbersAreFresh'
  BY <1>1 DEF SequenceInv, TypeOK, NumbersAreFresh
<1> QED BY <1>2, <1>3, <1>4, <1>5 DEF SequenceInv

LEMMA KindStays == [Next]_vars => kind' = kind
  BY DEF Next, vars, Upsert, Find, SerialCommit, RereadCreate, RereadWrite, File, FailRequest, Stop

LEMMA StepKeeps == Orderly /\ SequenceInv /\ [Next]_vars => Orderly' /\ SequenceInv'
<1> SUFFICES ASSUME Orderly, SequenceInv, [Next]_vars PROVE SequenceInv'
  BY KindStays DEF Orderly, Generators
<1>1. CASE Next
  BY <1>1, UpsertKeeps, SerialKeeps, RereadWriteKeeps, RereadCreateKeeps, FindKeeps, EndKeeps
     DEF Next
<1>2. CASE UNCHANGED vars
  BY <1>2 DEF vars, SequenceInv, TypeOK, OneRow, AllCovered, Covered, InTurn, SerialFound,
     InUse, Generators, NumbersAreFresh
<1> QED BY <1>1, <1>2
-----------------------------------------------------------------------------
\* No two documents are ever given one number, and the unique column of the
\* document refuses none: for sales, quotations, contracts and stock whatever
\* overlaps (payments.service.ts and sales.service.ts say so of their
\* generators), for the counters a reread generator writes when it is left
\* alone between its read and its write.
THEOREM NumbersAreDrawnOnce ==
  Orderly /\ Spec => []NumbersAreFresh
<1>1. Orderly /\ SequenceInv /\ [Next]_vars => Orderly' /\ SequenceInv'
  BY StepKeeps
<1>2. SequenceInv => NumbersAreFresh
  BY DEF SequenceInv
<1> QED BY InitSequence, <1>1, <1>2, PTL DEF Spec

\* Under the same condition the counter, its rows and the requests keep their types.
THEOREM SequenceTypeCorrect ==
  Orderly /\ Spec => []TypeOK
<1>1. Orderly /\ SequenceInv /\ [Next]_vars => Orderly' /\ SequenceInv'
  BY StepKeeps
<1>2. SequenceInv => TypeOK
  BY DEF SequenceInv
<1> QED BY InitSequence, <1>1, <1>2, PTL DEF Spec

\* A year's counter, whose NULL month no unique key covers, still has one row:
\* the Serializable snapshot sees to it.
THEOREM OneCounterRow ==
  Orderly /\ Spec => []OneRow
<1>1. Orderly /\ SequenceInv /\ [Next]_vars => Orderly' /\ SequenceInv'
  BY StepKeeps
<1>2. SequenceInv => OneRow
  BY DEF SequenceInv
<1> QED BY InitSequence, <1>1, <1>2, PTL DEF Spec

LEMMA StepGrows ==
  ASSUME SequenceInv, Next, NEW r \in rows
  PROVE  r \in rows' /\ last'[r] >= last[r]
<1>1. last \in [Row -> Nat] /\ r \in Row /\ rows \subseteq {r}
  BY DEF SequenceInv, TypeOK, OneRow
<1>2. ASSUME NEW w \in Worker, Upsert(w) PROVE r \in rows' /\ last'[r] >= last[r]
  BY <1>1, <1>2 DEF Upsert
<1>3. ASSUME NEW w \in Worker, SerialCommit(w) PROVE r \in rows' /\ last'[r] >= last[r]
  BY <1>1, <1>3 DEF SerialCommit, Unchanged
<1>4. ASSUME NEW w \in Worker, RereadWrite(w) PROVE r \in rows' /\ last'[r] >= last[r]
  BY <1>1, <1>4 DEF RereadWrite, SequenceInv, InTurn
<1>5. ASSUME NEW w \in Worker, RereadCreate(w) PROVE r \in rows' /\ last'[r] >= last[r]
  BY <1>1, <1>5 DEF RereadCreate, SequenceInv, InTurn
<1>6. ASSUME UNCHANGED table PROVE r \in rows' /\ last'[r] >= last[r]
  BY <1>1, <1>6 DEF table
<1> QED BY <1>2, <1>3, <1>4, <1>5, <1>6 DEF Next, Find, File, FailRequest, Stop

\* The counter never falls back to numbers it has given out.
THEOREM CounterOnlyGrows ==
  Orderly /\ Spec => CounterNeverGoesBack
<1> DEFINE Grows == \A r \in rows : r \in rows' /\ last'[r] >= last[r]
<1>1. Orderly /\ SequenceInv /\ [Next]_vars => Orderly' /\ SequenceInv'
  BY StepKeeps
<1>2. SequenceInv /\ [Next]_vars => [Grows]_vars
  BY StepGrows
<1> HIDE DEF Grows
<1>3. Orderly /\ Spec => [][Grows]_vars
  BY InitSequence, <1>1, <1>2, PTL DEF Spec
<1> QED BY <1>3 DEF Grows, CounterNeverGoesBack
=============================================================================
