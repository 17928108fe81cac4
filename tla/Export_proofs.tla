---------------------------- MODULE Export_proofs ---------------------------
(***************************************************************************)
(* Theorems about bulk exports, for any requests, periods, finite archives *)
(* and numbers of retries.                                                 *)
(***************************************************************************)
EXTENDS Export, FiniteSetTheorems, TLAPS

USE PeriodsOfLogs, FiniteArchive, RetriesAreCounted

(***************************************************************************)
(* Counts of objects.                                                      *)
(***************************************************************************)
LEMMA Counts ==
  ASSUME NEW D \in SUBSET Logs
  PROVE  /\ IsFiniteSet(D)
         /\ Cardinality(D) \in Nat /\ Cardinality(Logs) \in Nat
         /\ Cardinality(D) <= Cardinality(Logs)
  BY FS_Subset, FS_CardinalityType

LEMMA CountsGrow ==
  ASSUME NEW D \in SUBSET Logs, NEW E \in SUBSET Logs, D \subseteq E
  PROVE  /\ Cardinality(D) \in Nat /\ Cardinality(E) \in Nat
         /\ Cardinality(D) <= Cardinality(E)
  <1>1. IsFiniteSet(E)
    BY Counts
  <1> QED
    BY <1>1, FS_Subset, Counts

\* An object that is copied leaves what is to do and counts once more, also
\* when an attempt before had copied it.
LEMMA OneMore ==
  ASSUME NEW D \in SUBSET Logs, NEW T \in SUBSET Logs, NEW l \in T
  PROVE  Cardinality((D \cup {l}) \ (T \ {l})) = Cardinality(D \ T) + 1
  <1>1. (D \cup {l}) \ (T \ {l}) = (D \ T) \cup {l}
    OBVIOUS
  <1>2. IsFiniteSet(D \ T) /\ l \notin D \ T
    BY Counts
  <1> QED
    BY <1>1, <1>2, FS_AddElement

----------------------------------------------------------------------------
(***************************************************************************)
(* The inductive invariant.                                                *)
(***************************************************************************)
\* The count of an attempt is bounded by the objects that are there and not
\* still to be done, so that an object an earlier attempt left is not
\* counted before this attempt has come to it.
Sound(e) ==
    /\ task[e].state # "none" => row[e].status # "none"
    /\ attempt[e].pc # "off" => task[e].state = "running"
    /\ task[e].state = "done" => row[e].status = "completed"
    /\ attempt[e].pc = "ack" => row[e].status = "completed"
    /\ attempt[e].pc = "list" => attempt[e].count = 0
    /\ row[e].count <= Cardinality(dest[e])
    /\ attempt[e].read.count <= Cardinality(dest[e])
    /\ attempt[e].count <= Cardinality(dest[e] \ attempt[e].todo)

ExportInv == TypeOK /\ \A e \in Exports : Sound(e)

Tables == /\ row' \in [Exports -> Row] /\ task' \in [Exports -> Task]
          /\ attempt' \in [Exports -> Attempt] /\ dest' \in [Exports -> SUBSET Logs]

\* A step of one export leaves the others alone.
Alone(e) ==
    \A f \in Exports \ {e} :
        /\ row'[f] = row[f] /\ task'[f] = task[f]
        /\ attempt'[f] = attempt[f] /\ dest'[f] = dest[f]

LEMMA EmptyCounts == NoRow \in Row /\ Idle \in Attempt /\ Cardinality({}) = 0
  <1>1. Cardinality(Logs) \in Nat
    BY Counts
  <1>2. NoRow \in Row
    BY <1>1 DEF NoRow, Row
  <1>3. Idle \in Attempt
    BY <1>1, <1>2 DEF Idle, Attempt
  <1> QED
    BY <1>2, <1>3, FS_EmptySet

LEMMA InvInit == Init => ExportInv
  <1> SUFFICES ASSUME Init PROVE ExportInv
    OBVIOUS
  <1>1. TypeOK
    BY EmptyCounts DEF Init, TypeOK, Task
  <1>2. ASSUME NEW e \in Exports PROVE Sound(e)
    <2>1. row[e] = NoRow /\ attempt[e] = Idle /\ dest[e] = {} /\ task[e].state = "none"
      BY DEF Init
    <2>2. dest[e] \ attempt[e].todo = {}
      BY <2>1
    <2> QED
      BY <2>1, <2>2, EmptyCounts DEF Sound, NoRow, Idle
  <1> QED
    BY <1>1, <1>2 DEF ExportInv

LEMMA OneExport ==
  ASSUME ExportInv, NEW e \in Exports, Tables, UNCHANGED log, Alone(e), Sound(e)'
  PROVE  ExportInv'
  <1>1. ASSUME NEW f \in Exports PROVE Sound(f)'
    BY <1>1 DEF ExportInv, Alone, Sound
  <1> QED
    BY <1>1 DEF ExportInv, TypeOK, Tables

\* The end of an attempt: with an idle attempt little is left to show.
LEMMA Rests ==
  ASSUME NEW e \in Exports, Tables, attempt'[e] = Idle,
         task'[e].state # "none" => row'[e].status # "none",
         task'[e].state = "done" => row'[e].status = "completed",
         row'[e].count <= Cardinality(dest'[e])
  PROVE  Sound(e)'
  <1>1. Cardinality(dest'[e]) \in Nat
    BY Counts DEF Tables
  <1>2. Cardinality(dest'[e] \ attempt'[e].todo) \in Nat
    BY Counts DEF Tables
  <1> QED
    BY <1>1, <1>2 DEF Sound, Idle, NoRow

LEMMA RetriedTyped ==
  ASSUME TypeOK, NEW e \in Exports, Retried(e)
  PROVE  /\ task' \in [Exports -> Task] /\ attempt' \in [Exports -> Attempt]
         /\ task'[e].state \in {"queued", "archived"} /\ attempt'[e] = Idle
         /\ \A f \in Exports \ {e} : task'[f] = task[f] /\ attempt'[f] = attempt[f]
  <1>1. /\ attempt' \in [Exports -> Attempt] /\ attempt'[e] = Idle
        /\ \A f \in Exports \ {e} : attempt'[f] = attempt[f]
    BY EmptyCounts DEF Retried, TypeOK
  <1>2. CASE task[e].retried < MaxRetry
    <2>1. task' = [task EXCEPT ![e] = [state |-> "queued", retried |-> task[e].retried + 1]]
      BY <1>2 DEF Retried, TypeOK, Task
    <2>2. [state |-> "queued", retried |-> task[e].retried + 1] \in Task
      BY <1>2 DEF TypeOK, Task
    <2> QED
      BY <1>1, <2>1, <2>2 DEF TypeOK
  <1>3. CASE ~(task[e].retried < MaxRetry)
    <2>1. task' = [task EXCEPT ![e].state = "archived"]
      BY <1>3 DEF Retried
    <2> QED
      BY <1>1, <2>1 DEF TypeOK, Task
  <1> QED
    BY <1>2, <1>3

LEMMA SucceedsTyped ==
  ASSUME TypeOK, NEW e \in Exports, Succeeds(e)
  PROVE  /\ task' \in [Exports -> Task] /\ attempt' \in [Exports -> Attempt]
         /\ task'[e].state = "done" /\ attempt'[e] = Idle
         /\ \A f \in Exports \ {e} : task'[f] = task[f] /\ attempt'[f] = attempt[f]
  BY EmptyCounts DEF Succeeds, TypeOK, Task

----------------------------------------------------------------------------
(***************************************************************************)
(* The steps.                                                              *)
(***************************************************************************)
LEMMA RequestInv ==
  ASSUME ExportInv, NEW e \in Exports, Create(e) \/ CreateEnqueues(e)
  PROVE  ExportInv'
  <1>0. TypeOK /\ Sound(e)
    BY DEF ExportInv
  <1>1. CASE Create(e)
    <2>1. /\ row' \in [Exports -> Row] /\ row'[e].status = "pending"
          /\ row'[e].count = row[e].count
      BY <1>0, <1>1 DEF Create, TypeOK, Row
    <2>2. task' \in [Exports -> Task] /\ task'[e].state = "requested"
      BY <1>0, <1>1 DEF Create, TypeOK, Task
    <2>3. UNCHANGED <<log, attempt, dest>> /\ Alone(e)
      BY <1>0, <1>1 DEF Create, Alone, TypeOK
    <2>4. attempt[e].pc = "off"
      BY <1>0, <1>1 DEF Create, Sound, NoRow
    <2>5. Sound(e)'
      BY <1>0, <2>1, <2>2, <2>3, <2>4 DEF Sound
    <2> QED
      BY <1>0, <2>1, <2>2, <2>3, <2>5, OneExport DEF Tables, TypeOK
  <1>2. CASE CreateEnqueues(e)
    <2>1. /\ task' \in [Exports -> Task] /\ task'[e].state \in {"queued", "refused"}
          /\ UNCHANGED <<log, row, attempt, dest>> /\ Alone(e)
      BY <1>0, <1>2 DEF CreateEnqueues, TypeOK, Task, Alone
    <2>2. Sound(e)'
      BY <1>0, <1>2, <2>1 DEF CreateEnqueues, Sound
    <2> QED
      BY <1>0, <2>1, <2>2, OneExport DEF Tables, TypeOK
  <1> QED
    BY <1>1, <1>2

LEMMA BeginsInv ==
  ASSUME ExportInv, NEW e \in Exports, Begins(e)
  PROVE  ExportInv'
  <1>0. TypeOK /\ Sound(e)
    BY DEF ExportInv
  <1>1. /\ row' \in [Exports -> Row] /\ row'[e].status = "processing"
        /\ row'[e].count = row[e].count
    BY <1>0 DEF Begins, TypeOK, Row
  <1>2. task' \in [Exports -> Task] /\ task'[e].state = "running"
    BY <1>0 DEF Begins, TypeOK, Task
  <1> DEFINE Fresh == [Idle EXCEPT !.pc = "list", !.read = row'[e]]
  <1>3. Fresh \in Attempt /\ Fresh.pc = "list" /\ Fresh.read = row'[e] /\ Fresh.count = 0
    BY <1>1, EmptyCounts DEF Idle, Attempt
  <1>4. attempt' = [attempt EXCEPT ![e] = Fresh] /\ UNCHANGED <<log, dest>>
    BY DEF Begins
  <1> HIDE DEF Fresh
  <1>5. attempt' \in [Exports -> Attempt] /\ attempt'[e] = Fresh
    BY <1>0, <1>3, <1>4 DEF TypeOK
  <1>6. Cardinality(dest[e] \ Fresh.todo) \in Nat
    BY <1>0, Counts DEF TypeOK
  <1>7. Sound(e)'
    BY <1>0, <1>1, <1>2, <1>3, <1>4, <1>5, <1>6 DEF Sound
  <1>8. Alone(e)
    BY <1>0, <1>4 DEF Begins, Alone, TypeOK
  <1> QED
    BY <1>0, <1>1, <1>2, <1>4, <1>5, <1>7, <1>8, OneExport DEF Tables, TypeOK

\* The attempts that fail, with a row that says so or not.
LEMMA FailsInv ==
  ASSUME ExportInv, NEW e \in Exports, BeginFails(e) \/ FailJob(e) \/ Dies(e)
  PROVE  ExportInv'
  <1>0. TypeOK /\ Sound(e)
    BY DEF ExportInv
  <1>1. /\ task' \in [Exports -> Task] /\ attempt' \in [Exports -> Attempt]
        /\ task'[e].state \in {"queued", "archived"} /\ attempt'[e] = Idle
        /\ \A f \in Exports \ {e} : task'[f] = task[f] /\ attempt'[f] = attempt[f]
    BY <1>0, RetriedTyped DEF BeginFails, FailJob, Dies
  <1>2. UNCHANGED <<log, dest>> /\ row[e].status # "none"
    BY <1>0 DEF BeginFails, FailJob, Dies, Sound
  <1>3. /\ row' \in [Exports -> Row] /\ row'[e].status # "none"
        /\ row'[e].count <= Cardinality(dest[e])
        /\ \A f \in Exports \ {e} : row'[f] = row[f]
    <2>1. CASE row' = row
      BY <1>0, <1>2, <2>1 DEF TypeOK, Sound
    <2>2. CASE row' = [row EXCEPT ![e].status = "processing"]
      BY <1>0, <2>2 DEF TypeOK, Row, Sound
    <2>3. CASE row' = [row EXCEPT ![e] = [attempt[e].read EXCEPT !.status = "failed",
                                                                 !.error = TRUE]]
      <3> DEFINE Failed == [attempt[e].read EXCEPT !.status = "failed", !.error = TRUE]
      <3>1. Failed \in Row /\ Failed.status = "failed" /\ Failed.count = attempt[e].read.count
        BY <1>0, ZenonT(60) DEF TypeOK, Attempt, Row
      <3> HIDE DEF Failed
      <3>2. row' = [row EXCEPT ![e] = Failed]
        BY <2>3 DEF Failed
      <3> QED
        BY <1>0, <3>1, <3>2 DEF TypeOK, Sound
    <2> QED
      BY <2>1, <2>2, <2>3 DEF BeginFails, FailJob, Dies
  <1>4. Tables /\ Alone(e)
    BY <1>0, <1>1, <1>2, <1>3 DEF Tables, Alone, TypeOK
  <1>5. Sound(e)'
    BY <1>1, <1>2, <1>3, <1>4, Rests
  <1> QED
    BY <1>2, <1>4, <1>5, OneExport

LEMMA ListsInv ==
  ASSUME ExportInv, NEW e \in Exports, Lists(e)
  PROVE  ExportInv'
  <1>0. TypeOK /\ Sound(e) /\ attempt[e].pc = "list" /\ attempt[e] \in Attempt
    BY DEF ExportInv, Lists, TypeOK
  <1>1. ListForExport(e) \in SUBSET Logs
    BY DEF ListForExport
  <1>2. /\ attempt' \in [Exports -> Attempt] /\ attempt'[e].pc = "copy"
        /\ attempt'[e].count = attempt[e].count /\ attempt'[e].read = attempt[e].read
        /\ \A f \in Exports \ {e} : attempt'[f] = attempt[f]
    BY <1>0, <1>1 DEF Lists, TypeOK, Attempt
  <1>3. UNCHANGED <<log, row, task, dest>>
    BY DEF Lists
  <1>4. Cardinality(dest'[e] \ attempt'[e].todo) \in Nat
    BY <1>0, <1>3, Counts DEF TypeOK
  <1>5. Sound(e)'
    BY <1>0, <1>2, <1>3, <1>4 DEF Sound
  <1> QED
    BY <1>0, <1>2, <1>3, <1>5, OneExport DEF Tables, Alone, TypeOK

LEMMA CopiesInv ==
  ASSUME ExportInv, NEW e \in Exports, NEW l \in Logs, Copies(e, l) \/ Skips(e, l)
  PROVE  ExportInv'
  <1>0. /\ TypeOK /\ Sound(e) /\ attempt[e].pc = "copy" /\ l \in attempt[e].todo
        /\ attempt[e] \in Attempt /\ dest[e] \in SUBSET Logs
        /\ attempt[e].todo \in SUBSET Logs
        /\ UNCHANGED <<log, row, task>>
    BY DEF ExportInv, Copies, Skips, TypeOK, Attempt
  <1> DEFINE Rest == attempt[e].todo \ {l}
  <1>1. /\ dest' \in [Exports -> SUBSET Logs] /\ dest[e] \subseteq dest'[e]
        /\ \A f \in Exports \ {e} : dest'[f] = dest[f]
    BY <1>0 DEF Copies, Skips, TypeOK
  <1>2. Cardinality(dest[e]) <= Cardinality(dest'[e])
    BY <1>0, <1>1, CountsGrow
  <1>3. CASE Copies(e, l)
    <2>1. dest'[e] = dest[e] \cup {l}
      BY <1>0, <1>3 DEF Copies, TypeOK
    <2>2. Cardinality(dest'[e] \ Rest) = Cardinality(dest[e] \ attempt[e].todo) + 1
      <3>1. ASSUME NEW D \in SUBSET Logs, NEW T \in SUBSET Logs, l \in T
            PROVE  Cardinality((D \cup {l}) \ (T \ {l})) = Cardinality(D \ T) + 1
        BY <3>1, OneMore
      <3>2. Cardinality((dest[e] \cup {l}) \ (attempt[e].todo \ {l}))
              = Cardinality(dest[e] \ attempt[e].todo) + 1
        BY <1>0, <3>1
      <3> QED
        BY <2>1, <3>2
    <2>3. /\ Cardinality(dest'[e] \ Rest) \in Nat
          /\ Cardinality(dest'[e] \ Rest) <= Cardinality(Logs)
          /\ Cardinality(dest[e] \ attempt[e].todo) \in Nat
          /\ Cardinality(Logs) \in Nat
      BY <1>0, <1>1, Counts
    <2>4. /\ attempt[e].count + 1 \in 0 .. Cardinality(Logs)
          /\ attempt[e].count + 1 <= Cardinality(dest'[e] \ Rest)
      BY <1>0, <2>2, <2>3 DEF Sound, Attempt
    <2> DEFINE Row2 == [attempt[e] EXCEPT !.todo = Rest, !.count = attempt[e].count + 1]
    <2>5. /\ Row2 \in Attempt /\ Row2.pc = "copy" /\ Row2.read = attempt[e].read
          /\ Row2.todo = Rest /\ Row2.count = attempt[e].count + 1
      BY <1>0, <2>4 DEF Attempt
    <2>6. attempt' = [attempt EXCEPT ![e] = Row2]
      BY <1>0, <1>3 DEF Copies, TypeOK
    <2> HIDE DEF Row2
    <2>7. /\ attempt' \in [Exports -> Attempt] /\ attempt'[e] = Row2
          /\ \A f \in Exports \ {e} : attempt'[f] = attempt[f]
      BY <1>0, <2>5, <2>6 DEF TypeOK
    <2> HIDE DEF Rest
    <2>8. Sound(e)'
      <3>1. /\ row'[e].count <= Cardinality(dest'[e])
            /\ attempt'[e].read.count <= Cardinality(dest'[e])
        <4>1. /\ Cardinality(dest[e]) \in Nat /\ Cardinality(dest'[e]) \in Nat
              /\ row[e].count \in Nat /\ attempt[e].read.count \in Nat
          BY <1>0, <1>1, Counts, CountsGrow DEF TypeOK, Attempt, Row
        <4> QED
          BY <1>0, <1>2, <2>5, <2>7, <4>1 DEF Sound
      <3> QED
        BY <1>0, <2>4, <2>5, <2>7, <3>1 DEF Sound
    <2> QED
      BY <1>0, <1>1, <2>7, <2>8, OneExport DEF Tables, Alone, TypeOK
  <1>4. CASE Skips(e, l)
    <2>1. attempt' = [attempt EXCEPT ![e].todo = Rest]
      BY <1>0, <1>4 DEF Skips, TypeOK
    <2>2. /\ attempt' \in [Exports -> Attempt] /\ attempt'[e].pc = "copy"
          /\ attempt'[e].read = attempt[e].read /\ attempt'[e].count = attempt[e].count
          /\ attempt'[e].todo = Rest
          /\ \A f \in Exports \ {e} : attempt'[f] = attempt[f]
      BY <1>0, <2>1 DEF TypeOK, Attempt
    <2>3. dest[e] \ attempt[e].todo \subseteq dest'[e] \ Rest
      BY <1>1
    <2>4. /\ Cardinality(dest[e] \ attempt[e].todo) <= Cardinality(dest'[e] \ Rest)
          /\ Cardinality(dest[e] \ attempt[e].todo) \in Nat
          /\ Cardinality(dest'[e] \ Rest) \in Nat
      BY <1>0, <1>1, <2>3, CountsGrow
    <2> HIDE DEF Rest
    <2>5. /\ Cardinality(dest[e]) \in Nat /\ Cardinality(dest'[e]) \in Nat
          /\ row[e].count \in Nat /\ attempt[e].read.count \in Nat
          /\ attempt[e].count \in Nat
      BY <1>0, <1>1, Counts, CountsGrow DEF TypeOK, Attempt, Row
    <2>6. Sound(e)'
      BY <1>0, <1>2, <2>2, <2>4, <2>5 DEF Sound
    <2> QED
      BY <1>0, <1>1, <2>2, <2>6, OneExport DEF Tables, Alone, TypeOK
  <1> QED
    BY <1>3, <1>4

LEMMA CompletesInv ==
  ASSUME ExportInv, NEW e \in Exports, Completes(e)
  PROVE  ExportInv'
  <1>0. /\ TypeOK /\ Sound(e) /\ attempt[e].todo = {} /\ attempt[e] \in Attempt
        /\ attempt[e].pc = "copy"
        /\ UNCHANGED <<log, task, dest>>
    BY DEF ExportInv, Completes, TypeOK
  <1> DEFINE Done == [attempt[e].read EXCEPT !.status = "completed",
                                             !.count = attempt[e].count]
  <1>1. Done \in Row /\ Done.status = "completed" /\ Done.count = attempt[e].count
    BY <1>0 DEF Attempt, Row
  <1>2. row' = [row EXCEPT ![e] = Done]
    BY DEF Completes
  <1> HIDE DEF Done
  <1>3. /\ row' \in [Exports -> Row] /\ row'[e] = Done
        /\ \A f \in Exports \ {e} : row'[f] = row[f]
    BY <1>0, <1>1, <1>2 DEF TypeOK
  <1>4. /\ attempt' \in [Exports -> Attempt] /\ attempt'[e].pc = "ack"
        /\ attempt'[e].count = attempt[e].count /\ attempt'[e].read = attempt[e].read
        /\ attempt'[e].todo = attempt[e].todo
        /\ \A f \in Exports \ {e} : attempt'[f] = attempt[f]
    BY <1>0 DEF Completes, TypeOK, Attempt
  <1>5. dest[e] \ attempt[e].todo = dest[e]
    BY <1>0
  <1>6. Sound(e)'
    BY <1>0, <1>1, <1>3, <1>4, <1>5 DEF Sound
  <1> QED
    BY <1>0, <1>3, <1>4, <1>6, OneExport DEF Tables, Alone, TypeOK

LEMMA ReturnsInv ==
  ASSUME ExportInv, NEW e \in Exports, Returns(e)
  PROVE  ExportInv'
  <1>0. TypeOK /\ Sound(e) /\ attempt[e].pc = "ack" /\ UNCHANGED <<log, row, dest>>
    BY DEF ExportInv, Returns
  <1>1. /\ task' \in [Exports -> Task] /\ attempt' \in [Exports -> Attempt]
        /\ task'[e].state = "done" /\ attempt'[e] = Idle
        /\ \A f \in Exports \ {e} : task'[f] = task[f] /\ attempt'[f] = attempt[f]
    BY <1>0, SucceedsTyped DEF Returns
  <1>2. Tables /\ Alone(e)
    BY <1>0, <1>1 DEF Tables, Alone, TypeOK
  <1>3. Sound(e)'
    BY <1>0, <1>1, <1>2, Rests DEF Sound
  <1> QED
    BY <1>0, <1>2, <1>3, OneExport

LEMMA ArchiveInv ==
  ASSUME ExportInv, NEW l \in Logs, Archived(l) \/ Expired(l)
  PROVE  ExportInv'
  <1>1. /\ log' \in [Logs -> {"new", "done", "bare", "expired"}]
        /\ UNCHANGED <<row, task, attempt, dest>>
    BY DEF Archived, Expired, Moves, ExportInv, TypeOK
  <1> QED
    BY <1>1 DEF ExportInv, TypeOK, Sound

LEMMA InvNext == ExportInv /\ [Next]_vars => ExportInv'
  <1> SUFFICES ASSUME ExportInv, [Next]_vars PROVE ExportInv'
    OBVIOUS
  <1>1. CASE UNCHANGED vars
    BY <1>1 DEF vars, ExportInv, TypeOK, Sound
  <1>2. ASSUME NEW e \in Exports, AttemptStep(e) PROVE ExportInv'
    BY <1>2, BeginsInv, FailsInv, ListsInv, CopiesInv, CompletesInv, ReturnsInv
    DEF AttemptStep
  <1> QED
    BY <1>1, <1>2, ArchiveInv, RequestInv DEF Next

LEMMA InvAlways == Spec => []ExportInv
  BY InvInit, InvNext, PTL DEF Spec

----------------------------------------------------------------------------
(***************************************************************************)
(* The theorems.                                                           *)
(***************************************************************************)
\* The rows, the tasks, the attempts and the buckets keep their types; the
\* counts stay within the archive.
THEOREM ExportTypeCorrect == Spec => []TypeOK
  <1>1. ExportInv => TypeOK
    BY DEF ExportInv
  <1> QED
    BY <1>1, InvAlways, PTL

\* A row never counts more logs than its bucket holds, whatever attempts
\* have begun, copied and died before.
THEOREM CountHolds == Spec => []CountIsTrue
  <1>1. ExportInv => CountIsTrue
    BY DEF ExportInv, Sound, CountIsTrue
  <1> QED
    BY <1>1, InvAlways, PTL

\* What the queue has forgotten is completed and stays so.
THEOREM ForgottenHolds == Spec => []ForgottenIsCompleted
  <1>1. ExportInv => ForgottenIsCompleted
    BY DEF ExportInv, Sound, ForgottenIsCompleted
  <1> QED
    BY <1>1, InvAlways, PTL
=============================================================================
