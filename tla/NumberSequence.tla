-------------------------- MODULE NumberSequence ---------------------------
(***************************************************************************)
(* The counter behind the numbers of one kind of document (sales,          *)
(* quotations, receipts, customers, contracts, stock) in one year or       *)
(* month, and the requests that draw a number and then insert the document *)
(* that bears it.  Counters of other kinds and periods are other rows of   *)
(* number_sequences and never meet this one.                               *)
(*                                                                         *)
(* Three generators are in the code:                                       *)
(*   upsert  one INSERT ... ON CONFLICT DO UPDATE last_number + 1: atomic  *)
(*           (quotations, payments, contracts, stock)                      *)
(*   serial  a Serializable transaction: increment what is there, else     *)
(*           insert 1 (sales, and sales made from quotations)              *)
(*   reread  find the row, create it with 0 if there is none, then write   *)
(*           back what was read plus one, each a statement of its own      *)
(*           (customers, and the deposit receipt of convertToSale)         *)
(* The unique key is (prefix, year, month), and PostgreSQL does not compare*)
(* NULLs: the counters of a whole year, whose month is NULL, have no key.  *)
(***************************************************************************)
EXTENDS Integers

CONSTANTS
    Worker,         \* requests the API serves at the same time
    Row,            \* ids of number_sequences rows
    NoRow,          \* no row was found
    Kinds,          \* the kinds of document considered
    RereadOverlap,  \* may other requests draw while a reread is under way?
                    \* The code does not prevent it.
    MaxNumber       \* bound: no more numbers than this are drawn

\* Which generators draw from the counter of a kind of document; monthly stands
\* for quotations, contracts and stock.
generatorsOf ==
    [sale |-> {"serial"}, customer |-> {"reread"}, receipt |-> {"upsert", "reread"},
     monthly |-> {"upsert"}]

ASSUME KindsAssumption == Kinds \subseteq DOMAIN generatorsOf
ASSUME NoRowAssumption == NoRow \notin Row
ASSUME BoundAssumption == MaxNumber \in Nat /\ RereadOverlap \in BOOLEAN

VARIABLES
    kind,     \* what the counter is for
    rows,     \* the rows of this counter
    last,     \* number_sequences.last_number of each row
    filed,    \* the numbers on documents
    step,     \* where each request is
    found,    \* the row it found, if any ...
    number    \* ... and the last_number it read there; later, the number it drew

vars == <<kind, rows, last, filed, step, found, number>>
table == <<rows, last>>

Steps == {"idle", "serial", "reread", "drawn"}

Generators == generatorsOf[kind]

\* Is it the counter of a whole year?
MonthIsNull == kind \in {"sale", "customer"}
-----------------------------------------------------------------------------
Init ==
    /\ kind \in Kinds
    /\ rows = {}
    /\ last = [r \in Row |-> 0]
    /\ filed = {}
    /\ step = [w \in Worker |-> "idle"]
    /\ found = [w \in Worker |-> NoRow]
    /\ number = [w \in Worker |-> 0]

\* Request w now holds number n and goes on to insert its document.
Draw(w, n) ==
    /\ step' = [step EXCEPT ![w] = "drawn"]
    /\ number' = [number EXCEPT ![w] = n]

\* A request may start to draw by generator g.
MayStart(w, g) ==
    /\ g \in Generators
    /\ step[w] = "idle"
    /\ \A r \in rows : last[r] < MaxNumber
    /\ \/ RereadOverlap
       \/ \A v \in Worker : step[v] # "reread" /\ (g = "reread" => step[v] # "serial")

Upsert(w) ==
    /\ MayStart(w, "upsert")
    /\ \/ \E r \in rows : /\ last' = [last EXCEPT ![r] = @ + 1]
                          /\ UNCHANGED rows
                          /\ Draw(w, last[r] + 1)
       \/ /\ rows = {}
          /\ \E r \in Row : /\ rows' = {r}
                            /\ last' = [last EXCEPT ![r] = 1]
          /\ Draw(w, 1)
    /\ UNCHANGED <<kind, filed, found>>

\* The first statement of a serial or reread generator: whichever row findFirst
\* returns, or none.  It also fixes the snapshot of a Serializable transaction.
Find(w, g) ==
    /\ MayStart(w, g)
    /\ step' = [step EXCEPT ![w] = g]
    /\ \/ \E r \in rows : /\ found' = [found EXCEPT ![w] = r]
                          /\ number' = [number EXCEPT ![w] = last[r]]
       \/ /\ rows = {}
          /\ found' = [found EXCEPT ![w] = NoRow]
          /\ number' = [number EXCEPT ![w] = 0]
    /\ UNCHANGED <<kind, table, filed>>

\* The table is as request w found it.  PostgreSQL commits a Serializable
\* transaction only then: the row it increments was not touched since its
\* snapshot, or the gap it read was not filled.
Unchanged(w) ==
    IF found[w] = NoRow THEN rows = {} ELSE last[found[w]] = number[w]

\* Mutant: the transaction runs at READ COMMITTED.
SerialCommitUnchecked(w) ==
    /\ step[w] = "serial"
    /\ \/ \E r \in rows : /\ last' = [q \in Row |-> IF q \in rows THEN last[q] + 1 ELSE last[q]]
                          /\ UNCHANGED rows
                          /\ Draw(w, last[r] + 1)
       \/ /\ found[w] = NoRow
          /\ \E r \in Row \ rows : /\ rows' = rows \cup {r}
                                   /\ last' = [last EXCEPT ![r] = 1]
          /\ Draw(w, 1)
    /\ UNCHANGED <<kind, filed, found>>

SerialCommit(w) ==
    /\ step[w] = "serial"
    /\ Unchanged(w)
    /\ \/ /\ found[w] # NoRow
          /\ last' = [q \in Row |-> IF q \in rows THEN last[q] + 1 ELSE last[q]]
          /\ UNCHANGED rows
          /\ Draw(w, number[w] + 1)
       \/ /\ found[w] = NoRow
          /\ \E r \in Row : /\ rows' = {r}
                            /\ last' = [last EXCEPT ![r] = 1]
          /\ Draw(w, 1)
    /\ UNCHANGED <<kind, filed, found>>

\* Mutant: the first number is to be 0.
RereadCreateBelow(w) ==
    /\ step[w] = "reread"
    /\ found[w] = NoRow
    /\ rows = {}
    /\ \E r \in Row : /\ rows' = {r}
                      /\ last' = [last EXCEPT ![r] = -1]
                      /\ found' = [found EXCEPT ![w] = r]
    /\ UNCHANGED <<kind, filed, step, number>>

\* The row is missing: it is created with 0, if the key lets it.
RereadCreate(w) ==
    /\ step[w] = "reread"
    /\ found[w] = NoRow
    /\ MonthIsNull \/ rows = {}
    /\ \E r \in Row \ rows : /\ rows' = rows \cup {r}
                             /\ last' = [last EXCEPT ![r] = 0]
                             /\ found' = [found EXCEPT ![w] = r]
    /\ UNCHANGED <<kind, filed, step, number>>

\* Mutant: the number that was read is used, not the next one.
RereadWriteSame(w) ==
    /\ step[w] = "reread"
    /\ found[w] # NoRow
    /\ last' = [last EXCEPT ![found[w]] = number[w]]
    /\ Draw(w, number[w])
    /\ UNCHANGED <<kind, rows, filed, found>>

RereadWrite(w) ==
    /\ step[w] = "reread"
    /\ found[w] # NoRow
    /\ last' = [last EXCEPT ![found[w]] = number[w] + 1]
    /\ Draw(w, number[w] + 1)
    /\ UNCHANGED <<kind, rows, filed, found>>

Stop(w) ==
    /\ step' = [step EXCEPT ![w] = "idle"]
    /\ UNCHANGED <<kind, table, found, number>>

\* The document is inserted; its number column is unique.
File(w) ==
    /\ step[w] = "drawn"
    /\ number[w] \notin filed
    /\ filed' = filed \cup {number[w]}
    /\ Stop(w)

\* The number is taken, a serialization failure, any other error or a crash.
\* What was written to the counter stays written: a gap.
FailRequest(w) ==
    /\ step[w] # "idle"
    /\ UNCHANGED filed
    /\ Stop(w)

Next ==
    \E w \in Worker :
       \/ Upsert(w)
       \/ \E g \in {"serial", "reread"} : Find(w, g)
       \/ SerialCommit(w)
       \/ RereadCreate(w)
       \/ RereadWrite(w)
       \/ File(w)
       \/ FailRequest(w)

Spec == Init /\ [][Next]_vars
-----------------------------------------------------------------------------
(***************************************************************************)
(* Properties.                                                             *)
(***************************************************************************)

\* Every variable has its type.
TypeOK ==
    /\ kind \in Kinds
    /\ rows \subseteq Row
    /\ last \in [Row -> Nat]
    /\ filed \subseteq Nat
    /\ step \in [Worker -> Steps]
    /\ found \in [Worker -> Row \cup {NoRow}]
    /\ number \in [Worker -> Nat]

\* "Atomic upsert + increment - prevents race condition on concurrent
\* payments": a number is drawn once, so that the unique column of the document
\* never refuses it.
NumbersAreFresh ==
    \A w \in Worker : step[w] = "drawn" =>
        /\ number[w] \notin filed
        /\ \A v \in Worker \ {w} : step[v] = "drawn" => number[v] # number[w]

\* A counter has one row, also where no unique key sees to it; with two, which
\* one findFirst returns decides what number comes next.
OneRow == \A q, r \in rows : q = r

\* No step takes a counter back to numbers that were drawn before.
CounterNeverGoesBack ==
    [][\A r \in rows : r \in rows' /\ last'[r] >= last[r]]_vars
=============================================================================
