--------------------------- MODULE LogPull_proofs ---------------------------
(***************************************************************************)
(* Theorems about LogPull, for every set of tasks, zones and contents, and *)
(* every bound on retries and on attempts that run beside each other.      *)
(***************************************************************************)
EXTENDS LogPull, FiniteSetTheorems, TLAPS

----------------------------------------------------------------------------
(***************************************************************************)
(* The inductive invariant.  What an attempt read stays true while it      *)
(* runs: its row is pending until it is saved, the data it fetched is      *)
(* content, the object it put is in the store, and the row it linked to is *)
(* an archived row of its zone.                                            *)
(***************************************************************************)
ObjectOfRun(j) == [task |-> job[j].task, data |-> run[j].data]

RowInv(j) ==
    /\ job[j].status = "none" => run[j].pc = "off"
    /\ job[j].status # "none" => job[j].task \in Tasks
    /\ job[j].status # "done" => job[j].chain = Blank
    /\ doneAt[j] <= clock

AttemptInv(j) ==
    /\ run[j].pc \in {"admit", "fetch", "link", "put", "save"} =>
          job[j].status = "pending"
    /\ run[j].pc = "ack" => job[j].status = "done"
    /\ run[j].pc \in {"link", "put", "save"} => run[j].data \in Contents
    /\ run[j].pc = "save" => ObjectOfRun(j) \in store

LinkInv(j) ==
    run[j].pc \in {"put", "save"} /\ run[j].prev \in JobID =>
        /\ Archived(run[j].prev)
        /\ ZoneOf[job[run[j].prev].task] = ZoneOf[job[j].task]

Inv ==
    /\ TypeOK
    /\ \A j \in JobID : RowInv(j) /\ AttemptInv(j) /\ LinkInv(j)
    /\ ChainWellFounded
    /\ DoneIsStored
    /\ AckedIsArchived

LEMMA JobIDInt == \A j \in JobID : j \in Int /\ j \in Links
BY DEF JobID, Links

----------------------------------------------------------------------------
(***************************************************************************)
(* The queue's answer to a delivery that failed is a task entry that still *)
(* waits or is archived; it is never done.                                 *)
(***************************************************************************)
QueueEntries == [state : {"none", "pending", "active", "done", "archived"},
            tries : 0 .. MaxRetry]

LEMMA RetriedIsEntry ==
    ASSUME TypeOK, NEW t \in Tasks
    PROVE  Retried(t) \in QueueEntries /\ Retried(t).state \in {"pending", "archived"}
<1>1. task[t] \in QueueEntries
  BY DEF TypeOK, QueueEntries
<1>2. CASE task[t].tries < MaxRetry
  <2>1. task[t].tries + 1 \in 0 .. MaxRetry
    BY <1>1, <1>2, Bounds DEF QueueEntries
  <2>2. QED
    BY <1>2, <2>1 DEF Retried, QueueEntries
<1>3. CASE ~(task[t].tries < MaxRetry)
  BY <1>1, <1>3 DEF Retried, QueueEntries
<1>4. QED
  BY <1>2, <1>3

(***************************************************************************)
(* A handler that returns leaves the tables in their types.                *)
(***************************************************************************)
LEMMA ReturnsTyped ==
    ASSUME TypeOK, NEW j \in JobID, NEW e \in QueueEntries, Returns(j, e)
    PROVE  run' \in [JobID -> Attempt] /\ task' \in [Tasks -> QueueEntries]
<1>1. Off \in Attempt
  BY DEF Off, Attempt, Steps, Links
<1>2. QED
  BY <1>1 DEF Returns, TypeOK, QueueEntries

LEMMA ErrorTyped ==
    ASSUME TypeOK, NEW j \in JobID, job[j].task \in Tasks, ReturnsError(j)
    PROVE  run' \in [JobID -> Attempt] /\ task' \in [Tasks -> QueueEntries]
BY RetriedIsEntry, ReturnsTyped DEF ReturnsError

LEMMA NilTyped ==
    ASSUME TypeOK, NEW j \in JobID, job[j].task \in Tasks, ReturnsNil(j)
    PROVE  run' \in [JobID -> Attempt] /\ task' \in [Tasks -> QueueEntries]
<1>1. [task[job[j].task] EXCEPT !.state = "done"] \in QueueEntries
  BY DEF TypeOK, QueueEntries
<1>2. QED
  BY <1>1, ReturnsTyped DEF ReturnsNil

LEMMA GoesTyped ==
    ASSUME TypeOK, NEW j \in JobID, NEW pc \in Steps, Goes(j, pc)
    PROVE  run' \in [JobID -> Attempt]
BY DEF Goes, TypeOK, Attempt

LEMMA RowTyped ==
    ASSUME TypeOK, NEW j \in JobID, NEW r \in Row, job' = [job EXCEPT ![j] = r]
    PROVE  job' \in [JobID -> Row]
BY DEF TypeOK

Chains == [prev : Links, hash : Hashes, id : JobID]

LEMMA SavedRowTyped ==
    ASSUME NEW r \in Row, NEW d \in Contents, NEW h \in Hashes, NEW c \in Chains
    PROVE  [r EXCEPT !.status = "done", !.object = d, !.sha = h, !.chain = c]
              \in Row
BY DEF Row, Chains

LEMMA RowFailsTyped ==
    ASSUME TypeOK, NEW j \in JobID, NEW saved \in BOOLEAN, RowFails(j, saved)
    PROVE  job' \in [JobID -> Row]
<1>1. [job[j] EXCEPT !.status = "failed"] \in Row
  BY DEF TypeOK, Row
<1>2. QED
  BY <1>1, RowTyped DEF RowFails, TypeOK

----------------------------------------------------------------------------
(***************************************************************************)
(* Type correctness.                                                       *)
(***************************************************************************)
LEMMA InitInv == Init => Inv
<1>1. SUFFICES ASSUME Init PROVE Inv
  OBVIOUS
<1>2. job \in [JobID -> Row]
  BY <1>1 DEF Init, Row
<1>3. run \in [JobID -> Attempt]
  BY <1>1 DEF Init, Off, Attempt, Steps, Links
<1>4. TypeOK
  <2>1. 0 \in 0 .. MaxRetry
    BY Bounds
  <2>2. task \in [Tasks -> QueueEntries]
    BY <1>1, <2>1 DEF Init, QueueEntries
  <2>3. beganAt \in [JobID -> Nat] /\ doneAt \in [JobID -> Nat]
    BY <1>1 DEF Init
  <2>4. QED
    BY <1>1, <1>2, <1>3, <2>2, <2>3 DEF Init, TypeOK, QueueEntries
<1>5. \A j \in JobID : RowInv(j) /\ AttemptInv(j) /\ LinkInv(j)
  BY <1>1 DEF Init, Off, RowInv, AttemptInv, LinkInv
<1>6. ChainWellFounded /\ DoneIsStored /\ AckedIsArchived
  BY <1>1 DEF Init, Archived, ChainWellFounded, DoneIsStored, AckedIsArchived
<1>7. QED
  BY <1>4, <1>5, <1>6 DEF Inv

LEMMA NextTypeOK == Inv /\ [Next]_vars => TypeOK'
<1>1. SUFFICES ASSUME Inv, [Next]_vars PROVE TypeOK'
  OBVIOUS
<1> USE <1>1
<1>a. TypeOK
  BY DEF Inv
<1>b. ASSUME NEW j \in JobID, run[j].pc # "off"
      PROVE  job[j].task \in Tasks
  BY <1>b DEF Inv, RowInv
<1>2. ASSUME NEW t \in Tasks, Enqueue(t) PROVE TypeOK'
  BY <1>a, <1>2 DEF Enqueue, TypeOK
<1>3. ASSUME NEW t \in Tasks, Begin(t) PROVE TypeOK'
  <2>1. PICK j \in Unused :
           /\ job' = [job EXCEPT ![j].task = t, ![j].status = "pending"]
           /\ Goes(j, "admit")
    BY <1>3 DEF Begin
  <2>2. j \in JobID
    BY DEF Unused
  <2>3. job' \in [JobID -> Row]
    <3> DEFINE new == [job[j] EXCEPT !.task = t, !.status = "pending"]
    <3>1. new \in Row
      BY <1>a, <2>2, ZenonT(60) DEF TypeOK, Row
    <3>2. job' = [job EXCEPT ![j] = new]
      BY <1>a, <2>1, <2>2 DEF TypeOK
    <3>3. QED
      BY <1>a, <2>2, <3>1, <3>2, RowTyped
  <2>4. run' \in [JobID -> Attempt]
    BY <1>a, <2>1, <2>2, GoesTyped DEF Steps
  <2>5. QED
    BY <1>a, <1>3, <2>3, <2>4 DEF Begin, TypeOK
<1>4. ASSUME NEW t \in Tasks, BeginFails(t) PROVE TypeOK'
  <2>1. Retried(t) \in QueueEntries
    BY <1>a, RetriedIsEntry
  <2>2. QED
    BY <1>a, <1>4, <2>1 DEF BeginFails, TypeOK, QueueEntries
<1>5. ASSUME NEW j \in JobID, Admit(j) PROVE TypeOK'
  BY <1>a, <1>5, GoesTyped DEF Admit, TypeOK, Steps
<1>6. ASSUME NEW j \in JobID, NEW saved \in BOOLEAN, FailJob(j, saved)
      PROVE  TypeOK'
  BY <1>a, <1>b, <1>6, ErrorTyped, RowFailsTyped DEF FailJob, TypeOK, QueueEntries
<1>7. ASSUME NEW j \in JobID, NEW saved \in BOOLEAN, Forbidden(j, saved)
      PROVE  TypeOK'
  BY <1>a, <1>b, <1>7, NilTyped, RowFailsTyped DEF Forbidden, TypeOK, QueueEntries
<1>8. ASSUME NEW j \in JobID, Interrupted(j) PROVE TypeOK'
  BY <1>a, <1>b, <1>8, ErrorTyped DEF Interrupted, TypeOK, QueueEntries
<1>9. ASSUME NEW j \in JobID, FetchNothing(j) PROVE TypeOK'
  <2>1. job' \in [JobID -> Row]
    <3>1. [job[j] EXCEPT !.status = "done"] \in Row
      BY <1>a DEF TypeOK, Row
    <3>2. QED
      BY <1>a, <1>9, <3>1, RowTyped DEF FetchNothing
  <2>2. run' \in [JobID -> Attempt]
    BY <1>a, <1>9, GoesTyped DEF FetchNothing, Steps
  <2>3. QED
    BY <1>a, <1>9, <2>1, <2>2 DEF FetchNothing, Finished, TypeOK
<1>10. ASSUME NEW j \in JobID, NEW data \in Contents, Fetch(j, data)
       PROVE  TypeOK'
  BY <1>a, <1>10, ZenonT(60) DEF Fetch, TypeOK, Attempt, Steps
<1>11. ASSUME NEW j \in JobID, Link(j) PROVE TypeOK'
  <2>1. PICK prev \in PrevChainHash(ZoneOf[job[j].task]) :
           run' = [run EXCEPT ![j].pc = "put", ![j].prev = prev]
    BY <1>11 DEF Link
  <2>2. prev \in Links
    BY JobIDInt DEF PrevChainHash, LastDone, DoneRows, Links
  <2>3. run' \in [JobID -> Attempt]
    BY <1>a, <2>1, <2>2, ZenonT(60) DEF TypeOK, Attempt, Steps
  <2>4. QED
    BY <1>a, <1>11, <2>3 DEF Link, TypeOK
<1>12. ASSUME NEW j \in JobID, Put(j) PROVE TypeOK'
  <2>0. run[j].data \in Contents /\ job[j].task \in Tasks
    BY <1>b, <1>12 DEF Put, Inv, AttemptInv
  <2>1. [task |-> job[j].task, data |-> run[j].data] \in Objects
    BY <2>0 DEF Objects
  <2>2. run' \in [JobID -> Attempt]
    BY <1>a, <1>12, GoesTyped DEF Put, Steps
  <2>3. QED
    BY <1>a, <1>12, <2>1, <2>2 DEF Put, TypeOK
<1>13. ASSUME NEW j \in JobID, Save(j) PROVE TypeOK'
  <2> DEFINE chain == ChainHash(run[j].prev, Hash("raw", run[j].data), j)
             new == [job[j] EXCEPT !.status = "done", !.object = run[j].data,
                         !.sha = Hash("gzip", run[j].data), !.chain = chain]
  <2>1. run[j].data \in Contents /\ run[j].prev \in Links
    BY <1>a, <1>13 DEF Save, Inv, AttemptInv, TypeOK, Attempt
  <2>2. Hash("raw", run[j].data) \in Hashes /\ Hash("gzip", run[j].data) \in Hashes
    BY <2>1 DEF Hash, Hashes
  <2>3. chain \in Chains
    BY <2>1, <2>2 DEF ChainHash, Chains
  <2>4. new \in Row
    BY <1>a, <2>1, <2>2, <2>3, SavedRowTyped DEF TypeOK
  <2>5. job' = [job EXCEPT ![j] = new]
    BY <1>a, <1>13 DEF Save, TypeOK
  <2>6. job' \in [JobID -> Row]
    BY <1>a, <2>4, <2>5, RowTyped
  <2>7. run' \in [JobID -> Attempt]
    BY <1>a, <1>13, GoesTyped DEF Save, Steps
  <2>8. QED
    BY <1>a, <1>13, <2>6, <2>7 DEF Save, Finished, TypeOK
<1>14. ASSUME NEW j \in JobID, Ack(j) PROVE TypeOK'
  BY <1>a, <1>b, <1>14, NilTyped DEF Ack, TypeOK, QueueEntries
<1>15. ASSUME NEW j \in JobID, VerifyRun(j) PROVE TypeOK'
  <2> DEFINE new == [job[j] EXCEPT !.verified = @ \/ VerifyMatches(j)]
  <2>1. (job[j].verified \/ VerifyMatches(j)) \in BOOLEAN
    OBVIOUS
  <2>2. new \in Row
    BY <1>a, <2>1, ZenonT(60) DEF TypeOK, Row
  <2>3. job' = [job EXCEPT ![j] = new]
    BY <1>a, <1>15 DEF VerifyRun, TypeOK
  <2>4. job' \in [JobID -> Row]
    BY <1>a, <2>2, <2>3, RowTyped
  <2>5. QED
    BY <1>a, <1>15, <2>4 DEF VerifyRun, TypeOK
<1>16. CASE Crash
  <2>1. Off \in Attempt
    BY DEF Off, Attempt, Steps, Links
  <2>2. \A t \in Tasks : (IF task[t].state = "active" THEN Retried(t)
                          ELSE task[t]) \in QueueEntries
    BY <1>a, RetriedIsEntry DEF TypeOK, QueueEntries
  <2>3. QED
    BY <1>a, <1>16, <2>1, <2>2 DEF Crash, TypeOK, QueueEntries
<1>17. CASE UNCHANGED vars
  BY <1>a, <1>17 DEF vars, TypeOK
<1>18. CASE AllHandled
  BY <1>17, <1>18 DEF AllHandled
<1>19. QED
  BY <1>2, <1>3, <1>4, <1>5, <1>6, <1>7, <1>8, <1>9, <1>10, <1>11, <1>12,
     <1>13, <1>14, <1>15, <1>16, <1>17, <1>18 DEF Next, AttemptStep

----------------------------------------------------------------------------
(***************************************************************************)
(* What no step undoes.  A row that was inserted stays inserted, a done    *)
(* row keeps its task, object and links, and objects and refusals stay.    *)
(***************************************************************************)
Kept(k) ==
    /\ job'[k].task = job[k].task
    /\ job'[k].status = job[k].status
    /\ job'[k].object = job[k].object
    /\ job'[k].sha = job[k].sha
    /\ job'[k].chain = job[k].chain
    /\ doneAt'[k] = doneAt[k]

Inserted(k) ==
    job[k].status # "none" =>
        job'[k].task = job[k].task /\ job'[k].status # "none"

LEMMA RowsGrow ==
    ASSUME Inv, [Next]_vars, NEW k \in JobID
    PROVE  /\ job[k].status = "done" => Kept(k)
           /\ Inserted(k)
<1> DEFINE G == (job[k].status = "done" => Kept(k)) /\ Inserted(k)
<1>a. job \in [JobID -> Row] /\ doneAt \in [JobID -> Nat]
  BY DEF Inv, TypeOK
<1>b. \A j \in JobID : AttemptInv(j)
  BY DEF Inv
<1>1. ASSUME job' = job, doneAt' = doneAt PROVE G
  BY <1>1 DEF Kept, Inserted
<1>2. ASSUME NEW t \in Tasks, Begin(t) PROVE G
  BY <1>a, <1>2 DEF Begin, Kept, Inserted, Unused
<1>3. ASSUME NEW j \in JobID, NEW saved \in BOOLEAN,
             FailJob(j, saved) \/ Forbidden(j, saved)
      PROVE  G
  <2>1. job[j].status = "pending"
    BY <1>3, <1>b DEF FailJob, Forbidden, AttemptInv
  <2>2. doneAt' = doneAt
    BY <1>3 DEF FailJob, Forbidden
  <2>3. job' = [job EXCEPT ![j].status = "failed"] \/ job' = job
    BY <1>3 DEF FailJob, Forbidden, RowFails
  <2>4. CASE job' = job
    BY <1>1, <2>2, <2>4
  <2>5. CASE job' = [job EXCEPT ![j].status = "failed"]
    <3>1. CASE k = j
      BY <1>a, <2>1, <2>5, <3>1 DEF Kept, Inserted, Row
    <3>2. CASE k # j
      <4>1. job'[k] = job[k]
        BY <1>a, <2>5, <3>2
      <4>2. QED
        BY <2>2, <4>1 DEF Kept, Inserted
    <3>3. QED
      BY <3>1, <3>2
  <2>6. QED
    BY <2>3, <2>4, <2>5
<1>4. ASSUME NEW j \in JobID, FetchNothing(j) \/ Save(j) PROVE G
  <2>1. job[j].status = "pending"
    BY <1>4, <1>b DEF FetchNothing, Save, AttemptInv
  <2>2. \A i \in JobID \ {j} : job'[i] = job[i] /\ doneAt'[i] = doneAt[i]
    BY <1>a, <1>4 DEF FetchNothing, Save, Finished
  <2>3. job'[j].task = job[j].task /\ job'[j].status = "done"
    <3>1. CASE FetchNothing(j)
      BY <1>a, <3>1 DEF FetchNothing, Row
    <3>2. CASE Save(j)
      BY <1>a, <3>2 DEF Save, Row
    <3>3. QED
      BY <1>4, <3>1, <3>2
  <2>4. QED
    BY <2>1, <2>2, <2>3 DEF Kept, Inserted
<1>5. ASSUME NEW j \in JobID, VerifyRun(j) PROVE G
  BY <1>a, <1>5 DEF VerifyRun, Kept, Inserted
<1>6. QED
  BY <1>1, <1>2, <1>3, <1>4, <1>5
  DEF Next, AttemptStep, Enqueue, BeginFails, Admit, Interrupted, Fetch,
      Link, Put, Ack, Crash, AllHandled, vars

LEMMA HistoryGrows ==
    [Next]_vars => store \subseteq store' /\ refused \subseteq refused'
BY DEF Next, AttemptStep, Enqueue, Begin, BeginFails, Admit, FailJob,
       Forbidden, Interrupted, FetchNothing, Fetch, Link, Put, Save, Ack,
       VerifyRun, Crash, AllHandled, vars

(***************************************************************************)
(* Only Save archives a row.                                               *)
(***************************************************************************)
LEMMA ArchivedBySave ==
    ASSUME Inv, [Next]_vars, NEW k \in JobID, Archived(k)', ~Archived(k)
    PROVE  Save(k)
<1>a. job \in [JobID -> Row]
  BY DEF Inv, TypeOK
<1>b. job[k].status # "done"
  BY RowsGrow DEF Archived, Kept
<1>c. job[k].chain = Blank
  BY <1>b DEF Inv, RowInv
<1>d. ASSUME job'[k].status = job[k].status \/ job'[k].chain = job[k].chain
      PROVE  FALSE
  BY <1>b, <1>c, <1>d DEF Archived
<1>1. ASSUME NEW t \in Tasks, Begin(t) PROVE FALSE
  BY <1>a, <1>d, <1>1 DEF Begin, Unused
<1>2. ASSUME NEW j \in JobID, NEW saved \in BOOLEAN,
             FailJob(j, saved) \/ Forbidden(j, saved)
      PROVE  FALSE
  <2>1. job' = [job EXCEPT ![j].status = "failed"] \/ job' = job
    BY <1>2 DEF FailJob, Forbidden, RowFails
  <2>2. job'[k].chain = job[k].chain
    BY <1>a, <2>1 DEF Row
  <2>3. QED
    BY <1>d, <2>2
<1>3. ASSUME NEW j \in JobID, FetchNothing(j) PROVE FALSE
  BY <1>a, <1>d, <1>3 DEF FetchNothing
<1>4. ASSUME NEW j \in JobID, VerifyRun(j) PROVE FALSE
  BY <1>a, <1>d, <1>4 DEF VerifyRun
<1>5. ASSUME NEW j \in JobID, Save(j), j # k PROVE FALSE
  BY <1>a, <1>d, <1>5 DEF Save
<1>6. ASSUME job' = job PROVE FALSE
  BY <1>d, <1>6
<1>7. QED
  BY <1>1, <1>2, <1>3, <1>4, <1>5, <1>6
  DEF Next, AttemptStep, Enqueue, BeginFails, Admit, Interrupted, Fetch,
      Link, Put, Ack, Crash, AllHandled, vars

(***************************************************************************)
(* The queue marks a task done only for an acknowledged or refused one.    *)
(***************************************************************************)
LEMMA DoneByReturn ==
    ASSUME Inv, [Next]_vars, NEW t \in Tasks,
           task'[t].state = "done", task[t].state # "done"
    PROVE  \E j \in JobID : /\ job[j].task = t
                            /\ \/ Ack(j)
                               \/ \E saved \in BOOLEAN : Forbidden(j, saved)
<1> DEFINE G == \E j \in JobID : /\ job[j].task = t
                                 /\ \/ Ack(j)
                                    \/ \E saved \in BOOLEAN : Forbidden(j, saved)
<1>a. TypeOK /\ task \in [Tasks -> QueueEntries]
  BY DEF Inv, TypeOK, QueueEntries
<1>b. \A u \in Tasks : Retried(u).state # "done"
  BY <1>a, RetriedIsEntry
<1>1. ASSUME NEW u \in Tasks, Enqueue(u) \/ Begin(u) PROVE FALSE
  BY <1>a, <1>1 DEF Enqueue, Begin, QueueEntries
<1>2. ASSUME NEW u \in Tasks, BeginFails(u) PROVE FALSE
  BY <1>a, <1>b, <1>2 DEF BeginFails
<1>3. ASSUME NEW j \in JobID, ReturnsError(j), job[j].task \in Tasks PROVE FALSE
  BY <1>a, <1>b, <1>3 DEF ReturnsError, Returns
<1>4. ASSUME NEW j \in JobID, ReturnsNil(j) PROVE job[j].task = t
  BY <1>a, <1>4 DEF ReturnsNil, Returns
<1>5. ASSUME NEW j \in JobID, run[j].pc # "off" PROVE job[j].task \in Tasks
  BY <1>5 DEF Inv, RowInv
<1>6. CASE Crash
  BY <1>a, <1>b, <1>6 DEF Crash
<1>7. ASSUME task' = task PROVE FALSE
  BY <1>7
<1>8. ASSUME NEW j \in JobID, NEW saved \in BOOLEAN, FailJob(j, saved) PROVE FALSE
  BY <1>3, <1>5, <1>8 DEF FailJob
<1>9. ASSUME NEW j \in JobID, Interrupted(j) PROVE FALSE
  BY <1>3, <1>5, <1>9 DEF Interrupted
<1>10. ASSUME NEW j \in JobID, NEW saved \in BOOLEAN, Forbidden(j, saved) PROVE G
  <2>1. job[j].task = t
    BY <1>4, <1>10 DEF Forbidden
  <2>2. QED
    BY <1>10, <2>1
<1>11. ASSUME NEW j \in JobID, Ack(j) PROVE G
  <2>1. job[j].task = t
    BY <1>4, <1>11 DEF Ack
  <2>2. QED
    BY <1>11, <2>1
<1>12. QED
  BY <1>1, <1>2, <1>6, <1>7, <1>8, <1>9, <1>10, <1>11
  DEF Next, AttemptStep, Admit, FetchNothing, Fetch, Link, Put, Save,
      VerifyRun, AllHandled, vars

----------------------------------------------------------------------------
(***************************************************************************)
(* What an attempt knows stays true.  The step of another attempt leaves   *)
(* row k and attempt k alone (or stops the attempt); a step of attempt k   *)
(* itself is looked at action by action.                                   *)
(***************************************************************************)
AllInv(k) == RowInv(k) /\ AttemptInv(k) /\ LinkInv(k)

Quiet(k) ==
    /\ job'[k].task = job[k].task
    /\ job'[k].status = job[k].status
    /\ job'[k].chain = job[k].chain
    /\ run'[k] = run[k] \/ run'[k] = Off
    /\ doneAt'[k] = doneAt[k]

LEMMA ClockGrows ==
    TypeOK /\ [Next]_vars => clock' \in Nat /\ clock <= clock'
<1>1. [Next]_vars => clock' = clock \/ clock' = clock + 1
  BY DEF Next, AttemptStep, Enqueue, Begin, BeginFails, Admit, FailJob,
         Forbidden, Interrupted, FetchNothing, Finished, Fetch, Link, Put,
         Save, Ack, VerifyRun, Crash, AllHandled, vars
<1>2. QED
  BY <1>1 DEF TypeOK

LEMMA LinkKept ==
    ASSUME Inv, [Next]_vars, NEW k \in JobID, NEW p \in JobID,
           Archived(p), ZoneOf[job[p].task] = ZoneOf[job[k].task],
           job[k].status # "none"
    PROVE  Archived(p)' /\ ZoneOf[job'[p].task] = ZoneOf[job'[k].task]
<1>1. Kept(p) /\ Inserted(k)
  BY RowsGrow DEF Archived
<1>2. QED
  BY <1>1 DEF Kept, Inserted, Archived

LEMMA QuietStep ==
    ASSUME Inv, [Next]_vars, NEW k \in JobID, Quiet(k)
    PROVE  AllInv(k)'
<1>a. TypeOK /\ RowInv(k) /\ AttemptInv(k) /\ LinkInv(k)
  BY DEF Inv
<1>b. clock' \in Nat /\ clock <= clock' /\ store \subseteq store'
  BY <1>a, ClockGrows, HistoryGrows
<1>1. RowInv(k)'
  <2>1. doneAt'[k] <= clock'
    BY <1>a, <1>b DEF Quiet, RowInv, TypeOK
  <2>2. QED
    BY <1>a, <2>1 DEF Quiet, RowInv, Off
<1>2. CASE run'[k] = Off
  BY <1>1, <1>2 DEF AllInv, AttemptInv, LinkInv, Off
<1>3. CASE run'[k] = run[k]
  <2>1. AttemptInv(k)'
    BY <1>a, <1>b, <1>3 DEF Quiet, AttemptInv, ObjectOfRun
  <2>2. LinkInv(k)'
    <3> SUFFICES ASSUME run[k].pc \in {"put", "save"},
                        NEW p \in JobID, run[k].prev = p
                 PROVE  /\ Archived(p)'
                        /\ ZoneOf[job'[p].task] = ZoneOf[job'[k].task]
      BY <1>3 DEF LinkInv, Archived
    <3>1. job[k].status # "none"
      BY <1>a DEF AttemptInv
    <3>2. Archived(p) /\ ZoneOf[job[p].task] = ZoneOf[job[k].task]
      BY <1>a DEF LinkInv
    <3>3. QED
      BY <3>1, <3>2, LinkKept
  <2>3. QED
    BY <1>1, <2>1, <2>2 DEF AllInv
<1>4. QED
  BY <1>2, <1>3 DEF Quiet

LEMMA NextAllInv ==
    ASSUME Inv, [Next]_vars, NEW k \in JobID
    PROVE  AllInv(k)'
<1>a. TypeOK /\ TypeOK' /\ RowInv(k) /\ AttemptInv(k) /\ LinkInv(k)
  BY NextTypeOK DEF Inv
<1>b. /\ job \in [JobID -> Row] /\ run \in [JobID -> Attempt]
      /\ doneAt \in [JobID -> Nat] /\ clock \in Nat
  BY <1>a DEF TypeOK
<1>c. clock' \in Nat /\ clock <= clock' /\ store \subseteq store'
  BY <1>a, ClockGrows, HistoryGrows
<1>1. ASSUME NEW t \in Tasks, Begin(t) PROVE AllInv(k)'
  <2>1. PICK j \in Unused :
           /\ job' = [job EXCEPT ![j].task = t, ![j].status = "pending"]
           /\ Goes(j, "admit")
    BY <1>1 DEF Begin
  <2>2. doneAt' = doneAt /\ clock' = clock
    BY <1>1 DEF Begin
  <2>3. j \in JobID /\ job[j].status = "none"
    BY <2>1 DEF Unused
  <2>4. CASE k = j
    <3> DEFINE new == [job[j] EXCEPT !.task = t, !.status = "pending"]
    <3>a. job' = [job EXCEPT ![j] = new]
      BY <1>b, <2>1, <2>3
    <3>b. /\ new.task = t /\ new.status = "pending"
          /\ new.chain = job[k].chain
      BY <1>b, <2>3, <2>4 DEF Row
    <3>c. run'[k].pc = "admit"
      BY <1>b, <2>1, <2>3, <2>4 DEF Goes, Attempt
    <3>1. /\ job'[k].task = t /\ job'[k].status = "pending"
          /\ job'[k].chain = job[k].chain /\ run'[k].pc = "admit"
      BY <1>b, <2>4, <3>a, <3>b, <3>c
    <3>2. QED
      BY <1>a, <2>2, <2>3, <2>4, <3>1 DEF AllInv, RowInv, AttemptInv, LinkInv
  <2>5. CASE k # j
    BY <1>b, <2>1, <2>2, <2>3, <2>5, QuietStep DEF Quiet, Goes
  <2>6. QED
    BY <2>4, <2>5
<1>2. ASSUME NEW j \in JobID, NEW saved \in BOOLEAN,
             FailJob(j, saved) \/ Forbidden(j, saved)
      PROVE  AllInv(k)'
  <2>1. run' = [run EXCEPT ![j] = Off] /\ doneAt' = doneAt /\ clock' = clock
    BY <1>2 DEF FailJob, Forbidden, ReturnsError, ReturnsNil, Returns
  <2>2. job' = [job EXCEPT ![j].status = "failed"] \/ job' = job
    BY <1>2 DEF FailJob, Forbidden, RowFails
  <2>3. run[j].pc # "off" /\ run[j].pc # "ack"
    BY <1>2 DEF FailJob, Forbidden
  <2>4. CASE k = j
    <3>1. run'[k].pc = "off" /\ job[k].status = "pending"
      BY <1>a, <1>b, <1>2, <2>1, <2>4
      DEF FailJob, Forbidden, AttemptInv, Off
    <3>2. /\ job'[k].task = job[k].task /\ job'[k].chain = job[k].chain
          /\ job'[k].status \in {"pending", "failed"}
      BY <1>b, <2>2, <2>4, <3>1 DEF Row
    <3>3. QED
      BY <1>a, <2>1, <3>1, <3>2 DEF AllInv, RowInv, AttemptInv, LinkInv
  <2>5. CASE k # j
    <3>1. job'[k] = job[k] /\ run'[k] = run[k]
      BY <1>b, <2>1, <2>2, <2>5
    <3>2. QED
      BY <2>1, <3>1, QuietStep DEF Quiet
  <2>6. QED
    BY <2>4, <2>5
<1>3. ASSUME NEW j \in JobID, FetchNothing(j) \/ Save(j) PROVE AllInv(k)'
  <2>1. CASE k = j
    <3>1. /\ job'[k].status = "done" /\ job'[k].task = job[k].task
          /\ run'[k].pc = "ack" /\ doneAt'[k] = clock'
      <4>1. CASE FetchNothing(j)
        BY <1>b, <2>1, <4>1 DEF FetchNothing, Finished, Goes, Row, Attempt
      <4>2. CASE Save(j)
        BY <1>b, <2>1, <4>2 DEF Save, Finished, Goes, Row, Attempt
      <4>3. QED
        BY <1>3, <4>1, <4>2
    <3>2. job[k].status = "pending"
      BY <1>a, <1>3, <2>1 DEF FetchNothing, Save, AttemptInv
    <3>3. QED
      BY <1>a, <1>c, <3>1, <3>2 DEF AllInv, RowInv, AttemptInv, LinkInv
  <2>2. CASE k # j
    BY <1>b, <1>3, <2>2, QuietStep
    DEF Quiet, FetchNothing, Save, Finished, Goes
  <2>3. QED
    BY <2>1, <2>2
<1>4. ASSUME NEW j \in JobID, NEW data \in Contents, Fetch(j, data)
      PROVE  AllInv(k)'
  <2>1. CASE k = j
    <3>1. run'[k].pc = "link" /\ run'[k].data \in Contents
      BY <1>b, <1>4, <2>1 DEF Fetch, Attempt
    <3>2. QED
      BY <1>a, <1>4, <2>1, <3>1
      DEF Fetch, AllInv, RowInv, AttemptInv, LinkInv
  <2>2. CASE k # j
    BY <1>b, <1>4, <2>2, QuietStep DEF Fetch, Quiet
  <2>3. QED
    BY <2>1, <2>2
<1>5. ASSUME NEW j \in JobID, Link(j) PROVE AllInv(k)'
  <2>1. PICK prev \in PrevChainHash(ZoneOf[job[j].task]) :
           run' = [run EXCEPT ![j].pc = "put", ![j].prev = prev]
    BY <1>5 DEF Link
  <2>2. prev \in JobID => /\ Archived(prev)
                          /\ ZoneOf[job[prev].task] = ZoneOf[job[j].task]
    BY HashSeeds, JobIDInt DEF PrevChainHash, LastDone, DoneRows, Archived
  <2>3. job' = job /\ doneAt' = doneAt /\ clock' = clock
    BY <1>5 DEF Link
  <2>4. CASE k = j
    <3>1. /\ run'[k].pc = "put" /\ run'[k].data = run[k].data
          /\ run'[k].prev = prev
      BY <1>b, <2>1, <2>4 DEF Attempt
    <3>2. job[k].status = "pending" /\ run[k].data \in Contents
      BY <1>a, <1>5, <2>4 DEF Link, AttemptInv
    <3>3. QED
      BY <1>a, <2>2, <2>3, <2>4, <3>1, <3>2
      DEF AllInv, RowInv, AttemptInv, LinkInv, Archived
  <2>5. CASE k # j
    BY <1>b, <2>1, <2>3, <2>5, QuietStep DEF Quiet
  <2>6. QED
    BY <2>4, <2>5
<1>6. ASSUME NEW j \in JobID, Put(j) PROVE AllInv(k)'
  <2>1. CASE k = j
    <3>1. /\ run'[k].pc = "save" /\ run'[k].data = run[k].data
          /\ run'[k].prev = run[k].prev
      BY <1>b, <1>6, <2>1 DEF Put, Goes, Attempt
    <3>2. ObjectOfRun(k)' \in store'
      BY <1>6, <2>1, <3>1 DEF Put, ObjectOfRun
    <3>3. job' = job /\ doneAt' = doneAt /\ clock' = clock /\ run[k].pc = "put"
      BY <1>6, <2>1 DEF Put
    <3>4. QED
      BY <1>a, <3>1, <3>2, <3>3
      DEF AllInv, RowInv, AttemptInv, LinkInv, Archived
  <2>2. CASE k # j
    BY <1>b, <1>6, <2>2, QuietStep DEF Put, Quiet, Goes
  <2>3. QED
    BY <2>1, <2>2
<1>7. ASSUME NEW j \in JobID, Admit(j) PROVE AllInv(k)'
  <2>1. CASE k = j
    <3>1. run'[k].pc = "fetch"
      BY <1>b, <1>7, <2>1 DEF Admit, Goes, Attempt
    <3>2. QED
      BY <1>a, <1>7, <2>1, <3>1
      DEF Admit, AllInv, RowInv, AttemptInv, LinkInv
  <2>2. CASE k # j
    BY <1>b, <1>7, <2>2, QuietStep DEF Admit, Quiet, Goes
  <2>3. QED
    BY <2>1, <2>2
<1>8. ASSUME NEW j \in JobID, Interrupted(j) \/ Ack(j) PROVE AllInv(k)'
  <2>1. run' = [run EXCEPT ![j] = Off]
    BY <1>8 DEF Interrupted, Ack, ReturnsError, ReturnsNil, Returns
  <2>2. job' = job /\ doneAt' = doneAt
    BY <1>8 DEF Interrupted, Ack
  <2>3. QED
    BY <1>b, <2>1, <2>2, QuietStep DEF Quiet
<1>9. ASSUME NEW j \in JobID, VerifyRun(j) PROVE AllInv(k)'
  BY <1>b, <1>9, QuietStep DEF VerifyRun, Quiet, Row
<1>10. CASE Crash
  BY <1>10, QuietStep DEF Crash, Quiet
<1>11. ASSUME job' = job, run' = run, doneAt' = doneAt PROVE AllInv(k)'
  BY <1>11, QuietStep DEF Quiet
<1>12. QED
  BY <1>1, <1>2, <1>3, <1>4, <1>5, <1>6, <1>7, <1>8, <1>9, <1>10, <1>11
  DEF Next, AttemptStep, Enqueue, BeginFails, AllHandled, vars

----------------------------------------------------------------------------
(***************************************************************************)
(* The three safety properties are kept by every step.                     *)
(***************************************************************************)
LEMMA ChainStep == Inv /\ [Next]_vars => ChainWellFounded'
<1> SUFFICES ASSUME Inv, [Next]_vars, NEW j \in JobID, Archived(j)',
                    NEW p \in JobID, job'[j].chain.prev = p
             PROVE  /\ Archived(p)'
                    /\ ZoneOf[job'[p].task] = ZoneOf[job'[j].task]
                    /\ doneAt'[p] < doneAt'[j]
  BY DEF ChainWellFounded, Archived
<1>1. CASE Archived(j)
  <2>1. Kept(j) /\ job[j].status # "none"
    BY <1>1, RowsGrow DEF Archived
  <2>2. /\ Archived(p) /\ ZoneOf[job[p].task] = ZoneOf[job[j].task]
        /\ doneAt[p] < doneAt[j]
    BY <1>1, <2>1 DEF Inv, ChainWellFounded, Kept
  <2>3. Kept(p)
    BY <2>2, RowsGrow DEF Archived
  <2>4. QED
    BY <2>1, <2>2, <2>3, LinkKept DEF Kept
<1>2. CASE ~Archived(j)
  <2>1. Save(j)
    BY <1>2, ArchivedBySave
  <2>2. TypeOK /\ RowInv(p) /\ AttemptInv(j) /\ LinkInv(j)
    BY DEF Inv
  <2>3. job'[j].chain.prev = run[j].prev
    BY <2>1, <2>2 DEF Save, TypeOK, Row, ChainHash
  <2>4. Archived(p) /\ ZoneOf[job[p].task] = ZoneOf[job[j].task]
    BY <2>1, <2>2, <2>3 DEF Save, LinkInv
  <2>5. job[j].status = "pending"
    BY <2>1, <2>2 DEF Save, AttemptInv
  <2>6. p # j
    BY <2>4, <2>5 DEF Archived
  <2>7. doneAt'[p] = doneAt[p] /\ doneAt'[j] = clock + 1
    BY <2>1, <2>2, <2>6 DEF Save, Finished, TypeOK
  <2>8. doneAt'[p] < doneAt'[j]
    BY <2>2, <2>7 DEF RowInv, TypeOK
  <2>9. QED
    BY <2>4, <2>5, <2>8, LinkKept
<1>3. QED
  BY <1>1, <1>2

LEMMA StoredStep == Inv /\ [Next]_vars => DoneIsStored'
<1> SUFFICES ASSUME Inv, [Next]_vars, NEW j \in JobID, Archived(j)'
             PROVE  /\ [task |-> job'[j].task, data |-> job'[j].object] \in store'
                    /\ job'[j].sha = Hash("gzip", job'[j].object)
  BY DEF DoneIsStored, Archived, ObjectOf
<1>1. CASE Archived(j)
  <2>1. Kept(j)
    BY <1>1, RowsGrow DEF Archived
  <2>2. ObjectOf(j) \in store /\ job[j].sha = Hash("gzip", job[j].object)
    BY <1>1 DEF Inv, DoneIsStored
  <2>3. QED
    BY <2>1, <2>2, HistoryGrows DEF Kept, ObjectOf
<1>2. CASE ~Archived(j)
  <2>1. Save(j)
    BY <1>2, ArchivedBySave
  <2>2. TypeOK /\ AttemptInv(j)
    BY DEF Inv
  <2>3. /\ job'[j].task = job[j].task /\ job'[j].object = run[j].data
        /\ job'[j].sha = Hash("gzip", run[j].data)
    BY <2>1, <2>2 DEF Save, TypeOK, Row
  <2>4. ObjectOfRun(j) \in store
    BY <2>1, <2>2 DEF Save, AttemptInv
  <2>5. QED
    BY <2>3, <2>4, HistoryGrows DEF ObjectOfRun
<1>3. QED
  BY <1>1, <1>2

LEMMA AckedStep == Inv /\ [Next]_vars => AckedIsArchived'
<1> SUFFICES ASSUME Inv, [Next]_vars, NEW t \in Tasks,
                    task'[t].state = "done", t \notin refused'
             PROVE  \E j \in JobID : job'[j].task = t /\ job'[j].status = "done"
  BY DEF AckedIsArchived
<1>1. SUFFICES \E j \in JobID : job[j].task = t /\ job[j].status = "done"
  BY RowsGrow DEF Kept
<1>2. CASE task[t].state = "done"
  BY <1>2, HistoryGrows DEF Inv, AckedIsArchived
<1>3. CASE task[t].state # "done"
  <2>1. PICK j \in JobID : /\ job[j].task = t
                           /\ \/ Ack(j)
                              \/ \E saved \in BOOLEAN : Forbidden(j, saved)
    BY <1>3, DoneByReturn
  <2>2. Ack(j)
    BY <2>1 DEF Forbidden
  <2>3. job[j].status = "done"
    BY <2>2 DEF Ack, Inv, AttemptInv
  <2>4. QED
    BY <2>1, <2>3
<1>4. QED
  BY <1>2, <1>3

LEMMA NextInv == Inv /\ [Next]_vars => Inv'
BY NextTypeOK, NextAllInv, ChainStep, StoredStep, AckedStep DEF Inv, AllInv

LEMMA InvHolds == Spec => []Inv
BY InitInv, NextInv, PTL DEF Spec

(***************************************************************************)
(* The queue, the table, the attempts and the store hold values of their   *)
(* types in every reachable state.                                         *)
(***************************************************************************)
THEOREM TypeCorrect == Spec => []TypeOK
<1>1. Inv => TypeOK
  BY DEF Inv
<1>2. QED
  BY <1>1, InvHolds, PTL

(***************************************************************************)
(* Every chain can be followed back to its start within its zone, whatever *)
(* number of attempts run beside each other, fail, crash and are repeated. *)
(***************************************************************************)
THEOREM ChainHolds == Spec => []ChainWellFounded
<1>1. Inv => ChainWellFounded
  BY DEF Inv
<1>2. QED
  BY <1>1, InvHolds, PTL

(***************************************************************************)
(* The row of an archived window names an object the store has, and holds  *)
(* its hash.                                                               *)
(***************************************************************************)
THEOREM StoredHolds == Spec => []DoneIsStored
<1>1. Inv => DoneIsStored
  BY DEF Inv
<1>2. QED
  BY <1>1, InvHolds, PTL

(***************************************************************************)
(* A task the queue forgot as done has a row that is done, unless the      *)
(* provider answered HTTP 403.                                             *)
(***************************************************************************)
THEOREM AckedHolds == Spec => []AckedIsArchived
<1>1. Inv => AckedIsArchived
  BY DEF Inv
<1>2. QED
  BY <1>1, InvHolds, PTL

----------------------------------------------------------------------------
(***************************************************************************)
(* The refinement of Archive.  Save is Append; every other step leaves the *)
(* entries alone, for archived rows and their objects are kept.            *)
(***************************************************************************)
LEMMA EntryKept ==
    ASSUME Inv, [Next]_vars, NEW k \in JobID, Archived(k)
    PROVE  Archived(k)' /\ EntryOf(k)' = EntryOf(k)
<1>1. Kept(k)
  BY RowsGrow DEF Archived
<1>2. Archived(k)'
  BY <1>1 DEF Kept, Archived
<1>3. ObjectOf(k) \in store /\ ObjectOf(k)' = ObjectOf(k)
  BY <1>1 DEF Inv, DoneIsStored, Kept, ObjectOf
<1>4. ObjectOf(k)' \in store'
  BY <1>3, HistoryGrows
<1>5. QED
  BY <1>1, <1>2, <1>3, <1>4 DEF Kept, EntryOf

LEMMA AppendsEntry ==
    ASSUME Inv, Inv', [Next]_vars, NEW k \in JobID, Archived(k)', ~Archived(k)
    PROVE  WORM!Next
<1> DEFINE w == job'[k].task
           c == job'[k].object
           prev == job'[k].chain.prev
<1>a. job \in [JobID -> Row] /\ job' \in [JobID -> Row]
  BY DEF Inv, TypeOK
<1>1. Save(k)
  BY ArchivedBySave
<1>2. \A j \in JobID \ {k} : Archived(j)' <=> Archived(j)
  BY <1>1, <1>a DEF Save, Archived
<1>3. /\ job[k].task \in Tasks /\ run[k].data \in Contents
      /\ run[k].prev \in Links
  BY <1>1 DEF Save, Inv, TypeOK, RowInv, AttemptInv, Attempt
<1>4. w \in Tasks /\ c \in Contents /\ prev \in {Genesis, Blank} \cup JobID
  BY <1>1, <1>3, <1>a DEF Save, ChainHash, Row, Links
<1>5. EntryOf(k)' = WORM!Entry(k, w, c, prev)
  BY DEF Inv, DoneIsStored, EntryOf, WORM!Entry, ObjectOf
<1>6. Entries' = Entries \cup {EntryOf(k)'}
  <2>1. \A j \in JobID \ {k} : Archived(j) => EntryOf(j)' = EntryOf(j)
    BY EntryKept
  <2>2. QED
    BY <1>2, <2>1 DEF Entries
<1>7. \A e \in Entries : e.at # k
  BY DEF Entries, EntryOf
<1>8. prev \in {Genesis, Blank} \cup WORM!Of(ZoneOf[w])
  <2>1. SUFFICES ASSUME NEW p \in JobID, prev = p
                 PROVE  p \in WORM!Of(ZoneOf[w])
    BY <1>4
  <2>2. /\ Archived(p)' /\ ZoneOf[job'[p].task] = ZoneOf[w]
        /\ doneAt'[p] < doneAt'[k]
    BY <2>1 DEF Inv, ChainWellFounded
  <2>3. p # k
    <3>1. doneAt'[k] \in Nat
      BY DEF Inv, TypeOK
    <3>2. QED
      BY <2>2, <3>1
  <2>4. Archived(p)
    BY <1>2, <2>2, <2>3
  <2>5. job'[p].task = job[p].task
    BY <2>4, RowsGrow DEF Archived, Kept
  <2>6. /\ EntryOf(p) \in Entries /\ EntryOf(p).at = p
        /\ ZoneOf[EntryOf(p).window] = ZoneOf[w]
    BY <2>2, <2>4, <2>5 DEF Entries, EntryOf
  <2>7. QED
    BY <2>6 DEF WORM!Of
<1>9. WORM!Append(k, w, c, prev)
  BY <1>5, <1>6, <1>7, <1>8 DEF WORM!Append
<1>10. QED
  BY <1>4, <1>9 DEF WORM!Next

LEMMA StepIsWritten ==
    Inv /\ Inv' /\ [Next]_vars => [WORM!Next]_Entries
<1> SUFFICES ASSUME Inv, Inv', [Next]_vars PROVE WORM!Next \/ Entries' = Entries
  OBVIOUS
<1>1. CASE \E k \in JobID : Archived(k)' /\ ~Archived(k)
  BY <1>1, AppendsEntry
<1>2. CASE \A k \in JobID : Archived(k)' => Archived(k)
  BY <1>2, EntryKept DEF Entries
<1>3. QED
  BY <1>1, <1>2

(***************************************************************************)
(* The table of rows with the store behind it is an archive written once,  *)
(* for every number of attempts beside each other and every failure.       *)
(***************************************************************************)
THEOREM WrittenOnceHolds == Spec => IsWrittenOnce
<1>1. Init => WORM!Init
  BY DEF Init, Archived, Entries, WORM!Init
<1>2. QED
  BY <1>1, StepIsWritten, InvHolds, PTL DEF Spec, IsWrittenOnce, WORM!Spec

----------------------------------------------------------------------------
(***************************************************************************)
(* The quota.  An attempt that was admitted holds a place: the objects     *)
(* counted and the attempts admitted together stay below the quota plus    *)
(* the number of attempts that may run.                                    *)
(***************************************************************************)
Counted == {j \in JobID : job[j].status = "done" /\ job[j].object # Nothing}

Admitted == {j \in JobID : run[j].pc \in {"fetch", "link", "put", "save"}}

Places == Counted \cup Admitted

RunningInv == Cardinality(Running) <= Concurrency

PlacesInv ==
    quota # -1 /\ Places # {} => Cardinality(Places) < quota + Concurrency

LEMMA JobsFinite == IsFiniteSet(JobID)
<1>1. Cardinality(Tasks) \in Nat
  BY TasksFinite, FS_CardinalityType
<1>2. Cardinality(Tasks) * (MaxRetry + 1) \in Int
  BY <1>1, Bounds
<1>3. QED
  BY <1>2, FS_Interval DEF JobID

LEMMA SmallerJobSet ==
    ASSUME NEW S, NEW T, S \subseteq T, T \subseteq JobID
    PROVE  /\ IsFiniteSet(S) /\ IsFiniteSet(T)
           /\ Cardinality(S) \in Nat /\ Cardinality(T) \in Nat
           /\ Cardinality(S) <= Cardinality(T)
<1>1. IsFiniteSet(T)
  BY JobsFinite, FS_Subset
<1>2. QED
  BY <1>1, FS_Subset, FS_CardinalityType

LEMMA RunningStep ==
    ASSUME Inv, RunningInv, [Next]_vars
    PROVE  RunningInv'
<1>a. run \in [JobID -> Attempt]
  BY DEF Inv, TypeOK
<1>b. Running \subseteq JobID /\ Running' \subseteq JobID
  BY DEF Running
<1>1. ASSUME NEW t \in Tasks, Begin(t) PROVE RunningInv'
  <2>1. PICK j \in Unused : run' = [run EXCEPT ![j].pc = "admit"]
    BY <1>1 DEF Begin, Goes
  <2>2. Running' = Running \cup {j}
    BY <1>a, <2>1 DEF Running, Unused, Attempt
  <2>3. Cardinality(Running) < Concurrency
    BY <1>1 DEF Begin
  <2>4. IsFiniteSet(Running) /\ Cardinality(Running) \in Nat
    BY <1>b, SmallerJobSet
  <2>5. Cardinality(Running') \in Nat
        /\ Cardinality(Running') <= Cardinality(Running) + 1
    BY <1>b, <2>2, <2>4, SmallerJobSet, FS_AddElement
  <2>6. QED
    BY <2>3, <2>4, <2>5, Bounds DEF RunningInv
<1>2. ASSUME Running' \subseteq Running PROVE RunningInv'
  <2>1. /\ Cardinality(Running') \in Nat /\ Cardinality(Running) \in Nat
        /\ Cardinality(Running') <= Cardinality(Running)
    BY <1>b, <1>2, SmallerJobSet
  <2>2. QED
    BY <2>1, Bounds DEF RunningInv
<1>3. ASSUME NEW j \in JobID, AttemptStep(j) PROVE Running' \subseteq Running
  <2>1. run[j].pc # "off"
    BY <1>3 DEF AttemptStep, Admit, FailJob, Forbidden, Interrupted,
                FetchNothing, Fetch, Link, Put, Save, Ack
  <2>2. \A i \in JobID \ {j} : run'[i] = run[i]
    BY <1>a, <1>3
    DEF AttemptStep, Admit, FailJob, Forbidden, Interrupted, FetchNothing,
        Fetch, Link, Put, Save, Ack, Goes, ReturnsError, ReturnsNil, Returns
  <2>3. QED
    BY <2>1, <2>2 DEF Running
<1>4. ASSUME run' = run PROVE Running' \subseteq Running
  BY <1>4 DEF Running
<1>5. CASE Crash
  BY <1>2, <1>5 DEF Crash, Running, Off
<1>6. QED
  BY <1>1, <1>2, <1>3, <1>4, <1>5
  DEF Next, Enqueue, BeginFails, VerifyRun, AllHandled, vars

LEMMA DoneByAdmitted ==
    ASSUME Inv, [Next]_vars, NEW k \in JobID,
           job'[k].status = "done", job[k].status # "done"
    PROVE  k \in Admitted /\ doneAt'[k] = clock + 1
<1>a. job \in [JobID -> Row] /\ doneAt \in [JobID -> Nat]
  BY DEF Inv, TypeOK
<1>1. ASSUME NEW t \in Tasks, Begin(t) PROVE FALSE
  <2>1. PICK j \in Unused :
           job' = [job EXCEPT ![j].task = t, ![j].status = "pending"]
    BY <1>1 DEF Begin
  <2>2. QED
    BY <1>a, <2>1 DEF Unused, Row
<1>2. ASSUME NEW j \in JobID, NEW saved \in BOOLEAN,
             FailJob(j, saved) \/ Forbidden(j, saved)
      PROVE  FALSE
  <2>1. job' = [job EXCEPT ![j].status = "failed"] \/ job' = job
    BY <1>2 DEF FailJob, Forbidden, RowFails
  <2>2. QED
    BY <1>a, <2>1 DEF Row
<1>3. ASSUME NEW j \in JobID, FetchNothing(j) \/ Save(j)
      PROVE  k \in Admitted /\ doneAt'[k] = clock + 1
  <2>1. j \in Admitted /\ doneAt'[j] = clock + 1
    BY <1>a, <1>3 DEF FetchNothing, Save, Admitted, Finished
  <2>2. CASE k = j
    BY <2>1, <2>2
  <2>3. CASE k # j
    BY <1>a, <1>3, <2>3 DEF FetchNothing, Save
  <2>4. QED
    BY <2>2, <2>3
<1>4. ASSUME NEW j \in JobID, VerifyRun(j) PROVE FALSE
  BY <1>a, <1>4 DEF VerifyRun, Row
<1>5. ASSUME job' = job PROVE FALSE
  BY <1>5
<1>6. QED
  BY <1>1, <1>2, <1>3, <1>4, <1>5
  DEF Next, AttemptStep, Enqueue, BeginFails, Admit, Interrupted, Fetch,
      Link, Put, Ack, Crash, AllHandled, vars

LEMMA AdmittedOrAdmits ==
    ASSUME Inv, [Next]_vars, NEW k \in JobID, k \in Admitted', k \notin Admitted
    PROVE  Admit(k)
<1>a. run \in [JobID -> Attempt]
  BY DEF Inv, TypeOK
<1>1. ASSUME NEW t \in Tasks, Begin(t) PROVE FALSE
  <2>1. PICK j \in Unused : run' = [run EXCEPT ![j].pc = "admit"]
    BY <1>1 DEF Begin, Goes
  <2>2. QED
    BY <1>a, <2>1 DEF Unused, Admitted, Attempt
<1>2. ASSUME NEW j \in JobID, AttemptStep(j), ~Admit(j) PROVE FALSE
  <2>1. \A i \in JobID \ {j} : run'[i] = run[i]
    BY <1>a, <1>2
    DEF AttemptStep, Admit, FailJob, Forbidden, Interrupted, FetchNothing,
        Fetch, Link, Put, Save, Ack, Goes, ReturnsError, ReturnsNil, Returns
  <2>2. j \in Admitted \/ run'[j].pc = "off"
    BY <1>a, <1>2
    DEF AttemptStep, FailJob, Forbidden, Interrupted, FetchNothing, Fetch,
        Link, Put, Save, Ack, ReturnsError, ReturnsNil, Returns, Off, Admitted
  <2>3. QED
    BY <2>1, <2>2 DEF Admitted
<1>3. ASSUME NEW j \in JobID, Admit(j) PROVE Admit(k)
  BY <1>a, <1>3 DEF Admit, Goes, Admitted
<1>4. ASSUME run' = run PROVE FALSE
  BY <1>4 DEF Admitted
<1>5. CASE Crash
  BY <1>5 DEF Crash, Off, Admitted
<1>6. QED
  BY <1>1, <1>2, <1>3, <1>4, <1>5
  DEF Next, Enqueue, BeginFails, VerifyRun, AllHandled, vars

LEMMA QuotaFixed == [Next]_vars => quota' = quota
BY DEF Next, AttemptStep, Enqueue, Begin, BeginFails, Admit, FailJob,
       Forbidden, Interrupted, FetchNothing, Fetch, Link, Put, Save, Ack,
       VerifyRun, Crash, AllHandled, vars

LEMMA PlacesStep ==
    ASSUME Inv, RunningInv, PlacesInv, [Next]_vars
    PROVE  PlacesInv'
<1>q. quota' = quota
  BY QuotaFixed
<1> SUFFICES ASSUME quota # -1, Places' # {}
             PROVE  Cardinality(Places') < quota + Concurrency
  BY <1>q DEF PlacesInv
<1>a. quota \in Nat /\ Concurrency \in Nat
  BY Bounds DEF Inv, TypeOK
<1>b. Places \subseteq JobID /\ Places' \subseteq JobID
  BY DEF Places, Counted, Admitted
<1>1. CASE Places' \subseteq Places
  <2>1. /\ Cardinality(Places') \in Nat /\ Cardinality(Places) \in Nat
        /\ Cardinality(Places') <= Cardinality(Places)
    BY <1>b, <1>1, SmallerJobSet
  <2>2. Cardinality(Places) < quota + Concurrency
    BY <1>1 DEF PlacesInv
  <2>3. QED
    BY <1>a, <2>1, <2>2
<1>2. CASE ~(Places' \subseteq Places)
  <2>1. PICK k \in JobID : k \in Places' /\ k \notin Places
    BY <1>b, <1>2
  <2>2. k \in Admitted'
    <3> SUFFICES ASSUME k \in Counted' PROVE FALSE
      BY <2>1 DEF Places
    <3>1. job'[k].status = "done" /\ job'[k].object # Nothing
      BY DEF Counted
    <3>2. job[k].status = "done"
      BY <2>1, <3>1, DoneByAdmitted DEF Places
    <3>3. QED
      BY <2>1, <3>1, <3>2, RowsGrow DEF Kept, Places, Counted
  <2>3. Admit(k)
    BY <2>1, <2>2, AdmittedOrAdmits DEF Places
  <2>4. job' = job /\ Usage < quota /\ Usage = Cardinality(Counted)
    BY <2>3 DEF Admit, Usage, Counted
  <2>5. Counted' = Counted
    BY <2>4 DEF Counted
  <2>6. Admitted' \subseteq Running
    <3>1. run \in [JobID -> Attempt]
      BY DEF Inv, TypeOK
    <3>2. run' = [run EXCEPT ![k].pc = "fetch"] /\ run[k].pc = "admit"
      BY <2>3 DEF Admit, Goes
    <3>3. QED
      BY <3>1, <3>2 DEF Admitted, Running
  <2>7. Running \subseteq JobID /\ Counted \subseteq JobID
    BY DEF Running, Counted
  <2>8. /\ IsFiniteSet(Admitted') /\ Cardinality(Admitted') \in Nat
        /\ Cardinality(Running) \in Nat
        /\ Cardinality(Admitted') <= Cardinality(Running)
    BY <2>6, <2>7, SmallerJobSet
  <2>9. Cardinality(Admitted') <= Concurrency
    BY <1>a, <2>8 DEF RunningInv
  <2>10. IsFiniteSet(Counted) /\ Cardinality(Counted) \in Nat
    BY <2>7, SmallerJobSet
  <2>11. Places' = Counted \cup Admitted'
    BY <2>5 DEF Places
  <2>12. Cardinality(Places')
            = Cardinality(Counted) + Cardinality(Admitted')
              - Cardinality(Counted \cap Admitted')
    BY <2>8, <2>10, <2>11, FS_Union
  <2>13. Cardinality(Counted \cap Admitted') \in Nat
    BY <2>7, SmallerJobSet
  <2>14. QED
    BY <1>a, <2>4, <2>8, <2>9, <2>10, <2>12, <2>13
<1>3. QED
  BY <1>1, <1>2

(***************************************************************************)
(* The usage of a customer passes the quota by less than the number of     *)
(* attempts that may run beside each other: with one attempt at a time,    *)
(* never.                                                                  *)
(***************************************************************************)
THEOREM QuotaHolds == Spec => []QuotaOvershoot
<1>1. Init => RunningInv /\ PlacesInv
  <2> SUFFICES ASSUME Init PROVE RunningInv /\ PlacesInv
    OBVIOUS
  <2>1. Running = {} /\ Places = {}
    BY DEF Init, Off, Running, Places, Counted, Admitted
  <2>2. QED
    BY <2>1, FS_EmptySet, Bounds DEF RunningInv, PlacesInv
<1>2. Inv /\ RunningInv /\ PlacesInv /\ [Next]_vars => RunningInv' /\ PlacesInv'
  BY RunningStep, PlacesStep
<1>3. Inv /\ PlacesInv => QuotaOvershoot
  <2> SUFFICES ASSUME Inv, PlacesInv, quota # -1, Usage > 0
               PROVE  Usage < quota + Concurrency
    BY DEF QuotaOvershoot
  <2>1. Counted \subseteq Places /\ Places \subseteq JobID
    BY DEF Places, Counted, Admitted
  <2>2. Usage = Cardinality(Counted)
    BY DEF Usage, Counted
  <2>3. /\ Cardinality(Counted) \in Nat /\ Cardinality(Places) \in Nat
        /\ Cardinality(Counted) <= Cardinality(Places)
    BY <2>1, SmallerJobSet
  <2>4. Counted # {}
    BY <2>2, FS_EmptySet
  <2>5. Cardinality(Places) < quota + Concurrency
    BY <2>1, <2>4 DEF PlacesInv
  <2>6. QED
    BY <2>2, <2>3, <2>5, Bounds DEF Inv, TypeOK
<1>4. QED
  BY <1>1, <1>2, <1>3, InvHolds, PTL DEF Spec

----------------------------------------------------------------------------
(***************************************************************************)
(* Forks.  Rows are inserted in the order of their numbers, and an attempt *)
(* that linked to a row began before any later row of the zone was done:   *)
(* the last done row is what it was given.                                 *)
(***************************************************************************)
NoHoles ==
    \A j, k \in JobID :
        job[j].status = "none" /\ j < k => job[k].status = "none"

BeganInv(j) ==
    /\ beganAt[j] <= clock
    /\ job[j].status = "done" => beganAt[j] < doneAt[j]
    /\ \A k \in JobID :
          j < k /\ job[k].status # "none" => beganAt[j] <= beganAt[k]

\* An attempt of row j works with the link to p, or saved it.
LinksTo(j, p) ==
    \/ run[j].pc \in {"put", "save"} /\ run[j].prev = p
    \/ Archived(j) /\ job[j].chain.prev = p

LinkedLate(p, k) ==
    LinksTo(k, p) =>
        \A i \in DoneRows(ZoneOf[job[k].task]) :
            p < i => beganAt[k] < doneAt[i]

ForkInv ==
    /\ Inv
    /\ NoHoles
    /\ \A j \in JobID : BeganInv(j)
    /\ \A p, k \in JobID : LinkedLate(p, k)

LEMMA InitForkInv == Init => ForkInv
<1>1. SUFFICES ASSUME Init PROVE ForkInv
  OBVIOUS
<1>2. \A j \in JobID : /\ job[j].status = "none" /\ run[j] = Off
                       /\ beganAt[j] = 0
  BY <1>1 DEF Init
<1>3. clock = 0
  BY <1>1 DEF Init
<1>4. QED
  BY <1>1, <1>2, <1>3, InitInv
     DEF ForkInv, NoHoles, BeganInv, LinkedLate, LinksTo, Off, Archived

\* A row is inserted, an attempt starts and its beginning is noted only by
\* Begin, which takes the first row that is not used.
LEMMA InsertedByBegin ==
    ASSUME Inv, [Next]_vars, NEW k \in JobID,
           \/ job[k].status = "none" /\ job'[k].status # "none"
           \/ run[k].pc = "off" /\ run'[k].pc # "off"
           \/ beganAt'[k] # beganAt[k]
    PROVE  /\ job[k].status = "none"
           /\ beganAt'[k] = clock
           /\ \A i \in Unused : k <= i
<1>a. /\ job \in [JobID -> Row] /\ run \in [JobID -> Attempt]
      /\ beganAt \in [JobID -> Nat]
  BY DEF Inv, TypeOK
<1>1. ASSUME NEW t \in Tasks, Begin(t)
      PROVE  /\ job[k].status = "none"
             /\ beganAt'[k] = clock
             /\ \A i \in Unused : k <= i
  <2>1. PICK j \in Unused :
           /\ \A i \in Unused : j <= i
           /\ job' = [job EXCEPT ![j].task = t, ![j].status = "pending"]
           /\ run' = [run EXCEPT ![j].pc = "admit"]
           /\ beganAt' = [beganAt EXCEPT ![j] = clock]
    BY <1>1 DEF Begin, Goes
  <2>2. k = j
    BY <1>a, <2>1
  <2>3. QED
    BY <1>a, <2>1, <2>2 DEF Unused
<1>2. ASSUME NEW j \in JobID, AttemptStep(j) PROVE FALSE
  <2>1. run[j].pc # "off"
    BY <1>2 DEF AttemptStep, Admit, FailJob, Forbidden, Interrupted,
                FetchNothing, Fetch, Link, Put, Save, Ack
  <2>2. \A i \in JobID \ {j} : run'[i] = run[i]
    BY <1>a, <1>2
    DEF AttemptStep, Admit, FailJob, Forbidden, Interrupted, FetchNothing,
        Fetch, Link, Put, Save, Ack, Goes, ReturnsError, ReturnsNil, Returns
  <2>3. \A i \in JobID \ {j} : job'[i] = job[i]
    BY <1>a, <1>2
    DEF AttemptStep, Admit, FailJob, Forbidden, RowFails, Interrupted,
        FetchNothing, Fetch, Link, Put, Save, Ack
  <2>4. job[j].status # "none"
    BY <2>1 DEF Inv, RowInv
  <2>5. beganAt' = beganAt
    BY <1>2 DEF AttemptStep, Admit, FailJob, Forbidden, Interrupted,
                FetchNothing, Fetch, Link, Put, Save, Ack
  <2>6. QED
    BY <2>1, <2>2, <2>3, <2>4, <2>5
<1>3. ASSUME NEW j \in JobID, VerifyRun(j) PROVE FALSE
  BY <1>a, <1>3 DEF VerifyRun
<1>4. ASSUME job' = job, run' = run \/ Crash, beganAt' = beganAt PROVE FALSE
  BY <1>4 DEF Crash, Off
<1>5. QED
  BY <1>1, <1>2, <1>3, <1>4
  DEF Next, Enqueue, BeginFails, Crash, AllHandled, vars

\* An attempt learns its previous row in Link and keeps it.
LEMMA LinkedBy ==
    ASSUME Inv, [Next]_vars, NEW j \in JobID, run'[j].pc \in {"put", "save"}
    PROVE  \/ run[j].pc \in {"put", "save"} /\ run'[j].prev = run[j].prev
           \/ Link(j)
<1> DEFINE G == \/ run[j].pc \in {"put", "save"} /\ run'[j].prev = run[j].prev
                \/ Link(j)
<1>a. run \in [JobID -> Attempt]
  BY DEF Inv, TypeOK
<1>1. ASSUME NEW t \in Tasks, Begin(t) PROVE G
  <2>1. PICK i \in Unused : run' = [run EXCEPT ![i].pc = "admit"]
    BY <1>1 DEF Begin, Goes
  <2>2. QED
    BY <1>a, <2>1 DEF Unused, Attempt
<1>2. ASSUME NEW i \in JobID, AttemptStep(i) PROVE G
  <2>1. CASE i = j
    BY <1>a, <1>2, <2>1
    DEF AttemptStep, Admit, FailJob, Forbidden, Interrupted, FetchNothing,
        Fetch, Put, Save, Ack, Goes, ReturnsError, ReturnsNil, Returns,
        Off, Attempt
  <2>2. CASE i # j
    <3>1. run'[j] = run[j]
      BY <1>a, <1>2, <2>2
      DEF AttemptStep, Admit, FailJob, Forbidden, Interrupted, FetchNothing,
          Fetch, Link, Put, Save, Ack, Goes, ReturnsError, ReturnsNil, Returns
    <3>2. QED
      BY <3>1
  <2>3. QED
    BY <2>1, <2>2
<1>3. ASSUME run' = run \/ Crash PROVE G
  BY <1>3 DEF Crash, Off
<1>4. QED
  BY <1>1, <1>2, <1>3
  DEF Next, Enqueue, BeginFails, VerifyRun, AllHandled, vars

\* Whoever is linked to p now was linked to it before, or has just been
\* given it as the last done row.
LEMMA NewlyLinked ==
    ASSUME Inv, [Next]_vars, NEW p \in JobID, NEW j \in JobID,
           LinksTo(j, p)', ~LinksTo(j, p)
    PROVE  Link(j) /\ p \in LastDone(ZoneOf[job[j].task])
<1>a. run \in [JobID -> Attempt] /\ job \in [JobID -> Row]
  BY DEF Inv, TypeOK
<1>1. CASE run'[j].pc \in {"put", "save"} /\ run'[j].prev = p
  <2>1. Link(j)
    BY <1>1, LinkedBy DEF LinksTo
  <2>2. p \in PrevChainHash(ZoneOf[job[j].task])
    BY <1>a, <1>1, <2>1 DEF Link
  <2>3. p # Genesis /\ p # Blank
    BY JobIDInt, HashSeeds
  <2>4. QED
    BY <2>1, <2>2, <2>3 DEF PrevChainHash
<1>2. CASE Archived(j)' /\ job'[j].chain.prev = p
  <2>1. CASE Archived(j)
    BY <1>2, <2>1, RowsGrow DEF Archived, Kept, LinksTo
  <2>2. CASE ~Archived(j)
    <3>1. Save(j)
      BY <1>2, <2>2, ArchivedBySave
    <3>2. run[j].prev = p
      BY <1>a, <1>2, <3>1 DEF Save, ChainHash
    <3>3. QED
      BY <3>1, <3>2 DEF Save, LinksTo
  <2>3. QED
    BY <2>1, <2>2
<1>3. QED
  BY <1>1, <1>2 DEF LinksTo

\* The row somebody is linked to is an archived row of the same zone.
LEMMA LinkedToArchived ==
    ASSUME Inv, NEW p \in JobID, NEW j \in JobID, LinksTo(j, p)
    PROVE  /\ job[j].status # "none" /\ j # p
           /\ Archived(p)
           /\ ZoneOf[job[p].task] = ZoneOf[job[j].task]
<1>1. CASE run[j].pc \in {"put", "save"} /\ run[j].prev = p
  BY <1>1 DEF Inv, AttemptInv, LinkInv, Archived
<1>2. CASE Archived(j) /\ job[j].chain.prev = p
  <2>1. doneAt \in [JobID -> Nat]
    BY DEF Inv, TypeOK
  <2>2. QED
    BY <1>2, <2>1 DEF Inv, ChainWellFounded, Archived
<1>3. QED
  BY <1>1, <1>2 DEF LinksTo

LEMMA NextForkInv ==
    ASSUME ForkInv, [Next]_vars
    PROVE  ForkInv'
<1>a. Inv /\ Inv'
  BY NextInv DEF ForkInv
<1>b. /\ clock \in Nat /\ clock' \in Nat /\ clock <= clock'
      /\ beganAt \in [JobID -> Nat] /\ beganAt' \in [JobID -> Nat]
      /\ doneAt \in [JobID -> Nat] /\ doneAt' \in [JobID -> Nat]
  BY <1>a, ClockGrows DEF Inv, TypeOK
<1>c. \A k \in JobID : job[k].status # "none" =>
         /\ job'[k].status # "none" /\ job'[k].task = job[k].task
         /\ beganAt'[k] = beganAt[k]
  BY <1>a, RowsGrow, InsertedByBegin DEF Inserted
<1>d. ASSUME NEW k \in JobID, job'[k].status = "done", job[k].status # "done"
      PROVE  job[k].status # "none" /\ doneAt'[k] = clock + 1
  BY <1>a, <1>d, DoneByAdmitted DEF Admitted, Inv, RowInv
<1>1. NoHoles'
  <2>1. SUFFICES ASSUME NEW j \in JobID, NEW k \in JobID,
                        job'[j].status = "none", j < k,
                        job'[k].status # "none"
                 PROVE  FALSE
    BY DEF NoHoles
  <2>2. job[j].status = "none" /\ job[k].status = "none"
    BY <1>c, <2>1 DEF ForkInv, NoHoles
  <2>3. k <= j
    BY <1>a, <2>1, <2>2, InsertedByBegin DEF Unused
  <2>4. QED
    BY <2>1, <2>3, JobIDInt
<1>2. ASSUME NEW j \in JobID PROVE BeganInv(j)'
  <2>1. beganAt'[j] <= clock'
    <3>1. beganAt'[j] = beganAt[j] \/ beganAt'[j] = clock
      BY <1>a, InsertedByBegin
    <3>2. QED
      BY <1>b, <3>1 DEF ForkInv, BeganInv
  <2>2. ASSUME job'[j].status = "done" PROVE beganAt'[j] < doneAt'[j]
    <3>1. CASE job[j].status = "done"
      BY <1>a, <1>c, <3>1, RowsGrow DEF Kept, ForkInv, BeganInv
    <3>2. CASE job[j].status # "done"
      BY <1>b, <1>c, <1>d, <2>2, <3>2 DEF ForkInv, BeganInv
    <3>3. QED
      BY <3>1, <3>2
  <2>3. ASSUME NEW k \in JobID, j < k, job'[k].status # "none"
        PROVE  beganAt'[j] <= beganAt'[k]
    <3>1. CASE job[k].status # "none"
      <4>1. job[j].status # "none"
        BY <2>3, <3>1 DEF ForkInv, NoHoles
      <4>2. QED
        BY <1>c, <2>3, <3>1, <4>1 DEF ForkInv, BeganInv
    <3>2. CASE job[k].status = "none"
      <4>1. beganAt'[k] = clock /\ \A i \in Unused : k <= i
        BY <1>a, <2>3, <3>2, InsertedByBegin
      <4>2. job[j].status # "none"
        BY <2>3, <4>1, JobIDInt DEF Unused
      <4>3. QED
        BY <1>c, <4>1, <4>2 DEF ForkInv, BeganInv
    <3>3. QED
      BY <3>1, <3>2
  <2>4. QED
    BY <2>1, <2>2, <2>3 DEF BeganInv
<1>3. ASSUME NEW p \in JobID, NEW k \in JobID PROVE LinkedLate(p, k)'
  <2>1. SUFFICES ASSUME LinksTo(k, p)',
                        NEW i \in JobID, job'[i].status = "done", p < i,
                        ZoneOf[job'[i].task] = ZoneOf[job'[k].task]
                 PROVE  beganAt'[k] < doneAt'[i]
    BY DEF LinkedLate, DoneRows
  <2>2. CASE LinksTo(k, p)
    <3>1. job[k].status # "none"
      BY <1>a, <2>2, LinkedToArchived
    <3>2. job[i].status # "none"
      BY <1>d, <2>1
    <3>3. CASE job[i].status = "done"
      <4>1. i \in DoneRows(ZoneOf[job[k].task])
        BY <1>c, <2>1, <3>1, <3>2, <3>3 DEF DoneRows
      <4>2. beganAt[k] < doneAt[i]
        BY <2>1, <2>2, <4>1 DEF ForkInv, LinkedLate
      <4>3. QED
        BY <1>a, <1>c, <3>1, <3>3, <4>2, RowsGrow DEF Kept
    <3>4. CASE job[i].status # "done"
      BY <1>b, <1>c, <1>d, <2>1, <3>1, <3>4 DEF ForkInv, BeganInv
    <3>5. QED
      BY <3>3, <3>4
  <2>3. CASE ~LinksTo(k, p)
    <3>1. Link(k) /\ p \in LastDone(ZoneOf[job[k].task])
      BY <1>a, <2>1, <2>3, NewlyLinked
    <3>2. i \in DoneRows(ZoneOf[job[k].task])
      BY <2>1, <3>1 DEF Link, DoneRows
    <3>3. QED
      BY <2>1, <3>1, <3>2, JobIDInt DEF LastDone
  <2>4. QED
    BY <2>2, <2>3
<1>4. QED
  BY <1>a, <1>1, <1>2, <1>3 DEF ForkInv

LEMMA ForkInvHolds == Spec => []ForkInv
<1>1. ForkInv /\ [Next]_vars => ForkInv'
  BY NextForkInv
<1>2. QED
  BY <1>1, InitForkInv, PTL DEF Spec

(***************************************************************************)
(* A chain forks only where attempts ran beside each other, whatever fails,*)
(* dies and is delivered again, and however many attempts may run.         *)
(***************************************************************************)
THEOREM ForkNeedsOverlapHolds == Spec => []ForkNeedsOverlap
<1>1. ForkInv => ForkNeedsOverlap
  <2>1. SUFFICES ASSUME ForkInv, NEW p \in JobID, NEW j \in JobID, NEW k \in JobID,
                        j \in Linked(p), k \in Linked(p), j < k
                 PROVE  Overlap(j, k) \/ (j < p /\ Overlap(j, p))
    BY DEF ForkNeedsOverlap, Linked
  <2> USE <2>1
  <2>a. Inv /\ LinksTo(j, p) /\ LinksTo(k, p)
    BY DEF ForkInv, Linked, LinksTo
  <2>b. \A i \in JobID : beganAt[i] \in Nat /\ doneAt[i] \in Nat
    BY <2>a DEF Inv, TypeOK
  <2>c. /\ job[j].status = "done" /\ job[k].status = "done"
        /\ job[p].status = "done" /\ doneAt[p] < doneAt[j]
        /\ j # p /\ ZoneOf[job[j].task] = ZoneOf[job[k].task]
    BY <2>a, LinkedToArchived DEF Linked, Archived, Inv, ChainWellFounded
  <2>2. CASE p < j
    <3>1. beganAt[k] < doneAt[j]
      BY <2>a, <2>c, <2>2 DEF ForkInv, LinkedLate, DoneRows
    <3>2. beganAt[j] <= beganAt[k] /\ beganAt[k] < doneAt[k]
      BY <2>c DEF ForkInv, BeganInv
    <3>3. QED
      BY <2>b, <3>1, <3>2 DEF Overlap
  <2>3. CASE j < p
    <3>1. beganAt[j] <= beganAt[p] /\ beganAt[p] < doneAt[p]
      BY <2>c, <2>3 DEF ForkInv, BeganInv
    <3>2. QED
      BY <2>b, <2>c, <2>3, <3>1 DEF Overlap
  <2>4. QED
    BY <2>c, <2>2, <2>3, JobIDInt
<1>2. QED
  BY <1>1, ForkInvHolds, PTL

----------------------------------------------------------------------------
(***************************************************************************)
(* The width of a fork.  The rows linked to p are older or newer than p.   *)
(* The older ones were at work when p was done, beside p itself.  The      *)
(* newer ones were at work when the first of them was done, since from     *)
(* then on p is no longer the last row.                                    *)
(***************************************************************************)
Before(p) == {j \in JobID : j < p /\ (run[j].pc # "off" \/ LinksTo(j, p))}

After(p) == {j \in JobID : p < j /\ LinksTo(j, p)}

Later(p) == {i \in DoneRows(ZoneOf[job[p].task]) : p < i}

WidthInv(p) ==
    /\ job[p].status = "done" => Cardinality(Before(p)) <= Concurrency - 1
    /\ Cardinality(After(p)) <= Concurrency

LEMMA BeforeStep ==
    ASSUME ForkInv, RunningInv, [Next]_vars, NEW p \in JobID, WidthInv(p),
           job'[p].status = "done"
    PROVE  Cardinality(Before(p)') <= Concurrency - 1
<1>a. Inv
  BY DEF ForkInv
<1>b. job[p].status # "none"
  BY <1>a, DoneByAdmitted DEF Admitted, Inv, RowInv
<1>c. ASSUME NEW j \in Before(p)'
      PROVE  j \in JobID /\ j < p /\ (run[j].pc # "off" \/ LinksTo(j, p))
  <2>1. j \in JobID /\ j < p /\ (run'[j].pc # "off" \/ LinksTo(j, p)')
    BY <1>c DEF Before
  <2>2. job[j].status # "none"
    BY <1>b, <2>1 DEF ForkInv, NoHoles
  <2>3. run'[j].pc # "off" => run[j].pc # "off"
    BY <1>a, <2>1, <2>2, InsertedByBegin
  <2>4. LinksTo(j, p)' => LinksTo(j, p) \/ run[j].pc # "off"
    BY <1>a, <2>1, NewlyLinked DEF Link
  <2>5. QED
    BY <2>1, <2>3, <2>4
<1>1. CASE job[p].status = "done"
  <2>1. Before(p)' \subseteq Before(p) /\ Before(p) \subseteq JobID
    BY <1>c DEF Before
  <2>2. /\ Cardinality(Before(p)') \in Nat /\ Cardinality(Before(p)) \in Nat
        /\ Cardinality(Before(p)') <= Cardinality(Before(p))
    BY <2>1, SmallerJobSet
  <2>3. QED
    BY <1>1, <2>2, Bounds DEF WidthInv
<1>2. CASE job[p].status # "done"
  <2>1. \A j \in JobID : ~LinksTo(j, p)
    BY <1>a, <1>2, LinkedToArchived DEF Archived
  <2>2. p \in Running
    BY <1>a, <1>2, DoneByAdmitted DEF Admitted, Running
  <2>3. Before(p)' \subseteq Running \ {p} /\ Running \subseteq JobID
    BY <1>c, <2>1, JobIDInt DEF Running
  <2>4. /\ IsFiniteSet(Running) /\ Cardinality(Running) \in Nat
        /\ Cardinality(Before(p)') \in Nat
        /\ Cardinality(Before(p)') <= Cardinality(Running \ {p})
    BY <2>3, SmallerJobSet
  <2>5. Cardinality(Running \ {p}) = Cardinality(Running) - 1
    BY <2>2, <2>4, FS_RemoveElement
  <2>6. QED
    BY <2>4, <2>5, Bounds DEF RunningInv
<1>3. QED
  BY <1>1, <1>2

LEMMA AfterStep ==
    ASSUME Inv, RunningInv', [Next]_vars, NEW p \in JobID, WidthInv(p)
    PROVE  Cardinality(After(p)') <= Concurrency
<1>1. CASE Later(p)' = {}
  <2>1. ASSUME NEW j \in After(p)' PROVE j \in Running'
    <3>1. j \in JobID /\ p < j /\ LinksTo(j, p)'
      BY <2>1 DEF After
    <3>2. ZoneOf[job'[p].task] = ZoneOf[job'[j].task]
      <4>1. CASE LinksTo(j, p)
        <5>1. /\ ZoneOf[job[p].task] = ZoneOf[job[j].task]
              /\ job[j].status # "none" /\ job[p].status # "none"
          BY <3>1, <4>1, LinkedToArchived DEF Archived
        <5>2. QED
          BY <3>1, <5>1, RowsGrow DEF Inserted
      <4>2. CASE ~LinksTo(j, p)
        <5>1. Link(j) /\ p \in LastDone(ZoneOf[job[j].task])
          BY <3>1, <4>2, NewlyLinked
        <5>2. job' = job /\ ZoneOf[job[p].task] = ZoneOf[job[j].task]
          BY <5>1 DEF Link, LastDone, DoneRows
        <5>3. QED
          BY <5>2
      <4>3. QED
        BY <4>1, <4>2
    <3>3. ~Archived(j)'
      BY <1>1, <3>1, <3>2 DEF Later, DoneRows, Archived
    <3>4. QED
      BY <3>1, <3>3 DEF LinksTo, Running
  <2>2. After(p)' \subseteq Running' /\ Running' \subseteq JobID
    BY <2>1 DEF Running
  <2>3. /\ Cardinality(After(p)') \in Nat /\ Cardinality(Running') \in Nat
        /\ Cardinality(After(p)') <= Cardinality(Running')
    BY <2>2, SmallerJobSet
  <2>4. QED
    BY <2>3, Bounds DEF RunningInv
<1>2. CASE Later(p)' # {}
  <2>1. ASSUME NEW j \in JobID, p < j, LinksTo(j, p)' PROVE LinksTo(j, p)
    <3>1. SUFFICES ASSUME ~LinksTo(j, p) PROVE FALSE
      OBVIOUS
    <3>2. Link(j) /\ p \in LastDone(ZoneOf[job[j].task])
      BY <2>1, <3>1, NewlyLinked
    <3>3. job' = job
      BY <3>2 DEF Link
    <3>4. PICK i \in JobID : /\ job[i].status = "done" /\ p < i
                             /\ ZoneOf[job[i].task] = ZoneOf[job[p].task]
      BY <1>2, <3>3 DEF Later, DoneRows
    <3>5. QED
      BY <3>2, <3>4, JobIDInt DEF LastDone, DoneRows
  <2>2. After(p)' \subseteq After(p) /\ After(p) \subseteq JobID
    BY <2>1 DEF After
  <2>3. /\ Cardinality(After(p)') \in Nat /\ Cardinality(After(p)) \in Nat
        /\ Cardinality(After(p)') <= Cardinality(After(p))
    BY <2>2, SmallerJobSet
  <2>4. QED
    BY <2>3, Bounds DEF WidthInv
<1>3. QED
  BY <1>1, <1>2

LEMMA WidthBounds ==
    ASSUME ForkInv, NEW p \in JobID, WidthInv(p)
    PROVE  Cardinality(Linked(p)) <= 2 * Concurrency - 1
<1>a. Inv
  BY DEF ForkInv
<1>1. CASE Linked(p) = {}
  <2>1. Cardinality(Linked(p)) = 0
    BY <1>1, FS_EmptySet
  <2>2. QED
    BY <2>1, Bounds
<1>2. CASE Linked(p) # {}
  <2>1. \A j \in Linked(p) : /\ j \in JobID /\ LinksTo(j, p)
                             /\ j # p /\ Archived(p)
    BY <1>a, LinkedToArchived DEF Linked, LinksTo
  <2>2. job[p].status = "done"
    BY <1>2, <2>1 DEF Archived
  <2>3. Linked(p) \subseteq Before(p) \cup After(p)
    BY <2>1, JobIDInt DEF Before, After
  <2>4. Before(p) \subseteq JobID /\ After(p) \subseteq JobID
    BY DEF Before, After
  <2>5. /\ IsFiniteSet(Before(p)) /\ IsFiniteSet(After(p))
        /\ Cardinality(Before(p)) \in Nat /\ Cardinality(After(p)) \in Nat
    BY <2>4, SmallerJobSet
  <2>6. /\ Cardinality(Linked(p)) \in Nat
        /\ Cardinality(Before(p) \cup After(p)) \in Nat
        /\ Cardinality(Linked(p)) <= Cardinality(Before(p) \cup After(p))
    BY <2>3, <2>4, SmallerJobSet
  <2>7. Cardinality(Before(p) \cap After(p)) \in Nat
    BY <2>4, SmallerJobSet
  <2>8. Cardinality(Before(p) \cup After(p))
          = Cardinality(Before(p)) + Cardinality(After(p))
              - Cardinality(Before(p) \cap After(p))
    BY <2>5, FS_Union
  <2>9. QED
    BY <2>2, <2>5, <2>6, <2>7, <2>8, Bounds DEF WidthInv
<1>3. QED
  BY <1>1, <1>2

(***************************************************************************)
(* With C attempts at a time at most 2C - 1 rows are linked to one row: 19 *)
(* with the ten of cmd/worker, and one, so that the chain does not fork,   *)
(* only where attempts run one at a time.                                  *)
(***************************************************************************)
THEOREM ForkWidthHolds == Spec => []ForkWidth
<1> DEFINE I == /\ ForkInv /\ RunningInv
                /\ \A p \in JobID : WidthInv(p)
<1>1. Init => I
  <2>1. SUFFICES ASSUME Init PROVE RunningInv /\ \A p \in JobID : WidthInv(p)
    BY InitForkInv
  <2>2. \A j \in JobID : job[j].status = "none" /\ run[j] = Off
    BY <2>1 DEF Init
  <2>3. Running = {} /\ \A p \in JobID : After(p) = {}
    BY <2>2 DEF Running, After, LinksTo, Archived, Off
  <2>4. Cardinality(Running) = 0 /\ \A p \in JobID : Cardinality(After(p)) = 0
    BY <2>3, FS_EmptySet
  <2>5. 0 <= Concurrency
    BY Bounds
  <2>6. \A p \in JobID : job[p].status # "done"
    BY <2>2
  <2>7. QED
    BY <2>4, <2>5, <2>6 DEF RunningInv, WidthInv
<1>2. I /\ [Next]_vars => I'
  <2>1. SUFFICES ASSUME I, [Next]_vars PROVE I'
    OBVIOUS
  <2>2. ForkInv' /\ RunningInv' /\ Inv
    BY <2>1, NextForkInv, RunningStep DEF ForkInv
  <2>3. ASSUME NEW p \in JobID PROVE WidthInv(p)'
    BY <2>1, <2>2, BeforeStep, AfterStep DEF WidthInv
  <2>4. QED
    BY <2>2, <2>3
<1>3. I => ForkWidth
  BY WidthBounds DEF ForkWidth
<1>4. QED
  BY <1>1, <1>2, <1>3, PTL DEF Spec

----------------------------------------------------------------------------
(***************************************************************************)
(* The verify task.  It is enqueued for a row that was saved, and such a   *)
(* row keeps the hash of the compressed bytes of its object.  The hash of  *)
(* the decompressed bytes never equals it.                                 *)
(***************************************************************************)
Compressed(j) ==
    job[j].status = "done" /\ job[j].sha = Hash("gzip", job[j].object)

StampInv ==
    /\ Inv
    /\ \A j \in verify : Compressed(j)
    /\ \A j \in JobID : ~job[j].verified

LEMMA InitStampInv == Init => StampInv
BY InitInv DEF Init, StampInv

LEMMA FormsDiffer == \A c, d : Hash("raw", c) # Hash("gzip", d)
<1>1. SUFFICES ASSUME NEW c, NEW d, Hash("raw", c) = Hash("gzip", d)
               PROVE  FALSE
  OBVIOUS
<1>2. Hash("raw", c).form = "raw" /\ Hash("gzip", d).form = "gzip"
  BY DEF Hash
<1>3. QED
  BY <1>1, <1>2

LEMMA NeverMatches ==
    ASSUME NEW j \in JobID, Compressed(j)
    PROVE  ~VerifyMatches(j)
BY FormsDiffer DEF VerifyMatches, Compressed

\* A row in verify was saved, and a row that was saved does not change.
LEMMA VerifyStep == StampInv /\ [Next]_vars => \A j \in verify' : Compressed(j)'
<1>1. SUFFICES ASSUME StampInv, [Next]_vars, NEW j \in verify'
               PROVE  Compressed(j)'
  OBVIOUS
<1>2. Inv /\ Inv'
  BY <1>1, NextInv DEF StampInv
<1>3. j \in JobID
  BY <1>2 DEF Inv, TypeOK
<1>4. CASE j \in verify
  BY <1>1, <1>2, <1>3, <1>4, RowsGrow DEF StampInv, Compressed, Kept
<1>5. CASE j \notin verify
  <2>1. Save(j)
    BY <1>1, <1>5
    DEF Next, AttemptStep, Enqueue, Begin, BeginFails, Admit, FailJob,
        Forbidden, Interrupted, FetchNothing, Fetch, Link, Put, Save, Ack,
        VerifyRun, Crash, AllHandled, vars
  <2>2. QED
    BY <1>2, <1>3, <2>1 DEF Save, Inv, TypeOK, Row, Compressed
<1>6. QED
  BY <1>4, <1>5

LEMMA StampStep == StampInv /\ [Next]_vars => \A j \in JobID : ~job'[j].verified
<1>1. SUFFICES ASSUME StampInv, [Next]_vars, NEW k \in JobID
               PROVE  ~job'[k].verified
  OBVIOUS
<1>a. job \in [JobID -> Row] /\ ~job[k].verified
  BY <1>1 DEF StampInv, Inv, TypeOK
<1>b. ASSUME job'[k].verified = job[k].verified PROVE ~job'[k].verified
  BY <1>a, <1>b
<1>2. ASSUME NEW j \in JobID, VerifyRun(j) PROVE ~job'[k].verified
  <2>1. CASE j = k
    <3>1. ~VerifyMatches(k)
      BY <1>1, <1>2, <2>1, NeverMatches DEF VerifyRun, StampInv
    <3>2. job'[k].verified = (job[k].verified \/ VerifyMatches(k))
      <4>1. \A v : job' = [job EXCEPT ![k].verified = v] => job'[k].verified = v
        BY <1>a DEF Row
      <4>2. QED
        BY <1>2, <2>1, <4>1, Zenon DEF VerifyRun
    <3>3. QED
      BY <1>a, <3>1, <3>2, Zenon
  <2>2. CASE j # k
    <3>1. job'[k] = job[k]
      BY <1>a, <1>2, <2>2, ZenonT(30) DEF VerifyRun
    <3>2. QED
      BY <1>b, <3>1
  <2>3. QED
    BY <2>1, <2>2
<1>3. ASSUME NEW t \in Tasks, Begin(t) PROVE ~job'[k].verified
  <2>1. job'[k].verified = job[k].verified
    BY <1>a, <1>3 DEF Begin, Unused, Row
  <2>2. QED
    BY <1>b, <2>1
<1>4. ASSUME NEW j \in JobID, NEW saved \in BOOLEAN,
             FailJob(j, saved) \/ Forbidden(j, saved)
      PROVE  ~job'[k].verified
  <2>1. job' = [job EXCEPT ![j].status = "failed"] \/ job' = job
    BY <1>4 DEF FailJob, Forbidden, RowFails
  <2>2. job'[k].verified = job[k].verified
    BY <1>a, <2>1 DEF Row
  <2>3. QED
    BY <1>b, <2>2
<1>5. ASSUME NEW j \in JobID, FetchNothing(j) \/ Save(j)
      PROVE  ~job'[k].verified
  <2>1. CASE FetchNothing(j)
    <3>1. job'[k].verified = job[k].verified
      BY <1>a, <2>1 DEF FetchNothing, Row
    <3>2. QED
      BY <1>b, <3>1
  <2>2. CASE Save(j)
    <3>1. job'[k].verified = job[k].verified
      BY <1>a, <2>2 DEF Save, Row
    <3>2. QED
      BY <1>b, <3>1
  <2>3. QED
    BY <1>5, <2>1, <2>2
<1>6. ASSUME job' = job PROVE ~job'[k].verified
  BY <1>a, <1>6
<1>7. QED
  BY <1>1, <1>2, <1>3, <1>4, <1>5, <1>6
  DEF Next, AttemptStep, Enqueue, BeginFails, Admit, Interrupted, Fetch,
      Link, Put, Ack, Crash, AllHandled, vars

(***************************************************************************)
(* No row ever gets its verified_at, whatever is archived, fails or is     *)
(* delivered again: what the counterexample to VerifyStamps shows of one   *)
(* behaviour is so of every one.                                           *)
(***************************************************************************)
THEOREM NoRowIsStamped == Spec => [](\A j \in JobID : ~job[j].verified)
<1>1. StampInv /\ [Next]_vars => StampInv'
  BY NextInv, VerifyStep, StampStep DEF StampInv
<1>2. StampInv => \A j \in JobID : ~job[j].verified
  BY DEF StampInv
<1>3. QED
  BY <1>1, <1>2, InitStampInv, PTL DEF Spec

----------------------------------------------------------------------------
(***************************************************************************)
(* Rows and deliveries.  A task that waits has had as many deliveries as   *)
(* retries were counted, any other one more.  No step lowers this number,  *)
(* and the one that adds a row to a window, Begin, raises it.              *)
(***************************************************************************)
Deliveries(e) == IF e.state \in {"none", "pending"} THEN e.tries ELSE e.tries + 1

CountInv ==
    \A t \in Tasks : Cardinality(RowsOf(t)) <= Deliveries(task[t])

LEMMA RetriedDeliveries ==
    ASSUME TypeOK, NEW t \in Tasks
    PROVE  Deliveries(Retried(t)) = task[t].tries + 1
<1>1. task[t] \in QueueEntries
  BY DEF TypeOK, QueueEntries
<1>2. CASE task[t].tries < MaxRetry
  BY <1>2 DEF Retried, Deliveries
<1>3. CASE ~(task[t].tries < MaxRetry)
  <2>1. Retried(t).state = "archived" /\ Retried(t).tries = task[t].tries
    BY <1>1, <1>3 DEF Retried, QueueEntries
  <2>2. QED
    BY <2>1 DEF Deliveries
<1>4. QED
  BY <1>2, <1>3

LEMMA DeliveriesTyped ==
    ASSUME TypeOK, NEW t \in Tasks
    PROVE  /\ task[t].tries \in 0 .. MaxRetry
           /\ Deliveries(task[t]) \in Nat
           /\ Deliveries(task[t]) <= task[t].tries + 1
<1>1. task[t] \in QueueEntries
  BY DEF TypeOK, QueueEntries
<1>2. task[t].tries \in 0 .. MaxRetry
  BY <1>1 DEF QueueEntries
<1>3. QED
  BY <1>2, Bounds DEF Deliveries

LEMMA DeliveriesGrow ==
    ASSUME Inv, [Next]_vars, NEW t \in Tasks
    PROVE  /\ Deliveries(task'[t]) >= Deliveries(task[t])
           /\ Begin(t) => Deliveries(task'[t]) = Deliveries(task[t]) + 1
<1> DEFINE Grows == Deliveries(task'[t]) >= Deliveries(task[t])
<1>a. TypeOK /\ task \in [Tasks -> QueueEntries]
  BY DEF Inv, TypeOK, QueueEntries
<1>b. /\ task[t].tries \in Nat /\ Deliveries(task[t]) \in Nat
      /\ Deliveries(task[t]) <= task[t].tries + 1
  BY <1>a, DeliveriesTyped, Bounds
<1>c. ASSUME task'[t] \in {task[t], Retried(t)} PROVE Grows
  BY <1>a, <1>b, <1>c, RetriedDeliveries
<1>1. ASSUME NEW u \in Tasks, Enqueue(u) PROVE Grows
  <2>1. CASE u = t
    <3>1. task'[t].state = "pending" /\ task'[t].tries = task[t].tries
      BY <1>a, <1>1, <2>1 DEF Enqueue, QueueEntries
    <3>2. Deliveries(task[t]) = task[t].tries
      BY <1>1, <2>1 DEF Enqueue, Deliveries
    <3>3. QED
      BY <1>b, <3>1, <3>2 DEF Deliveries
  <2>2. CASE u # t
    BY <1>a, <1>c, <1>1, <2>2 DEF Enqueue
  <2>3. QED
    BY <2>1, <2>2
<1>2. Begin(t) => Deliveries(task'[t]) = Deliveries(task[t]) + 1
  <2>1. SUFFICES ASSUME Begin(t)
                 PROVE  Deliveries(task'[t]) = Deliveries(task[t]) + 1
    OBVIOUS
  <2>2. task'[t].state = "active" /\ task'[t].tries = task[t].tries
    BY <1>a, <2>1 DEF Begin, QueueEntries
  <2>3. Deliveries(task[t]) = task[t].tries
    BY <2>1 DEF Begin, Deliveries
  <2>4. QED
    BY <2>2, <2>3 DEF Deliveries
<1>3. ASSUME NEW u \in Tasks, Begin(u) PROVE Grows
  <2>1. CASE u = t
    BY <1>b, <1>2, <1>3, <2>1
  <2>2. CASE u # t
    BY <1>a, <1>c, <1>3, <2>2 DEF Begin
  <2>3. QED
    BY <2>1, <2>2
<1>4. ASSUME NEW u \in Tasks, BeginFails(u) PROVE Grows
  BY <1>a, <1>c, <1>4 DEF BeginFails
<1>5. ASSUME NEW j \in JobID, ReturnsError(j), job[j].task \in Tasks PROVE Grows
  BY <1>a, <1>c, <1>5 DEF ReturnsError, Returns
<1>6. ASSUME NEW j \in JobID, ReturnsNil(j) PROVE Grows
  <2>1. CASE job[j].task = t
    <3>1. task'[t].state = "done" /\ task'[t].tries = task[t].tries
      BY <1>a, <1>6, <2>1 DEF ReturnsNil, Returns, QueueEntries
    <3>2. QED
      BY <1>b, <3>1 DEF Deliveries
  <2>2. CASE job[j].task # t
    BY <1>a, <1>c, <1>6, <2>2 DEF ReturnsNil, Returns
  <2>3. QED
    BY <2>1, <2>2
<1>7. ASSUME Crash PROVE Grows
  <2>1. task'[t] = IF task[t].state = "active" THEN Retried(t) ELSE task[t]
    BY <1>7 DEF Crash
  <2>2. task'[t] = task[t] \/ task'[t] = Retried(t)
    BY <2>1, Zenon
  <2>3. QED
    BY <1>c, <2>2
<1>8. ASSUME task' = task PROVE Grows
  BY <1>c, <1>8
<1>9. ASSUME NEW j \in JobID, run[j].pc # "off" PROVE job[j].task \in Tasks
  BY <1>9 DEF Inv, RowInv
<1>10. ASSUME NEW j \in JobID, AttemptStep(j) PROVE Grows
  <2>1. CASE task' = task
    BY <1>8, <2>1
  <2>2. CASE task' # task
    <3>1. ReturnsError(j) \/ ReturnsNil(j)
      BY <1>10, <2>2
      DEF AttemptStep, Admit, FailJob, Forbidden, Interrupted, FetchNothing,
          Fetch, Link, Put, Save, Ack
    <3>2. run[j].pc # "off"
      BY <1>10
      DEF AttemptStep, Admit, FailJob, Forbidden, Interrupted, FetchNothing,
          Fetch, Link, Put, Save, Ack
    <3>3. QED
      BY <1>5, <1>6, <1>9, <3>1, <3>2
  <2>3. QED
    BY <2>1, <2>2
<1>11. Grows
  BY <1>1, <1>3, <1>4, <1>7, <1>8, <1>10
  DEF Next, VerifyRun, AllHandled, vars
<1>12. QED
  BY <1>2, <1>11

\* Only Begin inserts a row, and it inserts one.
LEMMA RowsOfStep ==
    ASSUME Inv, [Next]_vars, NEW t \in Tasks
    PROVE  \/ RowsOf(t)' \subseteq RowsOf(t)
           \/ Begin(t) /\ \E j \in JobID : RowsOf(t)' \subseteq RowsOf(t) \cup {j}
<1> DEFINE Goal == \/ RowsOf(t)' \subseteq RowsOf(t)
                   \/ /\ Begin(t)
                      /\ \E j \in JobID : RowsOf(t)' \subseteq RowsOf(t) \cup {j}
<1>a. job \in [JobID -> Row] /\ run \in [JobID -> Attempt]
  BY DEF Inv, TypeOK
<1>b. \A k \in JobID : Inserted(k)
  BY RowsGrow
<1>c. ASSUME \A k \in JobID : job[k].status = "none" => job'[k].status = "none"
      PROVE  Goal
  BY <1>b, <1>c DEF RowsOf, Inserted
<1>1. ASSUME NEW u \in Tasks, Begin(u) PROVE Goal
  <2>1. PICK j \in JobID :
           job' = [job EXCEPT ![j].task = u, ![j].status = "pending"]
    BY <1>1 DEF Begin, Unused
  <2>2. \A k \in JobID \ {j} : job'[k] = job[k]
    BY <1>a, <2>1
  <2>3. job'[j].task = u
    BY <1>a, <2>1 DEF Row
  <2>4. CASE u = t
    BY <1>1, <2>2, <2>4 DEF RowsOf
  <2>5. CASE u # t
    BY <2>2, <2>3, <2>5 DEF RowsOf
  <2>6. QED
    BY <2>4, <2>5
<1>2. ASSUME NEW j \in JobID, AttemptStep(j) PROVE Goal
  <2>1. run[j].pc # "off"
    BY <1>2 DEF AttemptStep, Admit, FailJob, Forbidden, Interrupted,
                FetchNothing, Fetch, Link, Put, Save, Ack
  <2>2. job[j].status # "none"
    BY <2>1 DEF Inv, RowInv
  <2>3. \A k \in JobID \ {j} : job'[k] = job[k]
    BY <1>a, <1>2
    DEF AttemptStep, Admit, FailJob, Forbidden, RowFails, Interrupted,
        FetchNothing, Fetch, Link, Put, Save, Ack
  <2>4. QED
    BY <1>c, <2>2, <2>3
<1>3. ASSUME NEW j \in JobID, VerifyRun(j) PROVE Goal
  BY <1>a, <1>c, <1>3 DEF VerifyRun
<1>4. ASSUME job' = job PROVE Goal
  BY <1>c, <1>4
<1>5. QED
  BY <1>1, <1>2, <1>3, <1>4 DEF Next, Enqueue, BeginFails, Crash, AllHandled, vars

LEMMA CountStep == Inv /\ CountInv /\ [Next]_vars => CountInv'
<1>1. SUFFICES ASSUME Inv, CountInv, [Next]_vars, NEW t \in Tasks
               PROVE  Cardinality(RowsOf(t)') <= Deliveries(task'[t])
  BY DEF CountInv, Deliveries, RowsOf
<1>2. RowsOf(t) \subseteq JobID /\ RowsOf(t)' \subseteq JobID
  BY DEF RowsOf
<1>3. /\ Deliveries(task[t]) \in Nat /\ Deliveries(task'[t]) \in Nat
      /\ Cardinality(RowsOf(t)) \in Nat /\ Cardinality(RowsOf(t)') \in Nat
      /\ Cardinality(RowsOf(t)) <= Deliveries(task[t])
  <2>1. TypeOK /\ TypeOK'
    BY <1>1, NextInv DEF Inv
  <2>2. Deliveries(task'[t]) \in Nat
    <3>1. task'[t].tries \in Nat
      BY <2>1, Bounds DEF TypeOK
    <3>2. QED
      BY <3>1 DEF Deliveries
  <2>3. QED
    BY <1>1, <1>2, <2>1, <2>2, DeliveriesTyped, SmallerJobSet DEF CountInv
<1>4. CASE RowsOf(t)' \subseteq RowsOf(t)
  <2>1. Cardinality(RowsOf(t)') <= Cardinality(RowsOf(t))
    BY <1>2, <1>4, SmallerJobSet
  <2>2. QED
    BY <1>1, <1>3, <2>1, DeliveriesGrow
<1>5. ASSUME Begin(t), NEW j \in JobID, RowsOf(t)' \subseteq RowsOf(t) \cup {j}
      PROVE  Cardinality(RowsOf(t)') <= Deliveries(task'[t])
  <2>1. Cardinality(RowsOf(t) \cup {j}) <= Cardinality(RowsOf(t)) + 1
    BY <1>2, <1>3, SmallerJobSet, FS_AddElement
  <2>2. /\ Cardinality(RowsOf(t)') <= Cardinality(RowsOf(t) \cup {j})
        /\ Cardinality(RowsOf(t) \cup {j}) \in Nat
    BY <1>2, <1>5, SmallerJobSet
  <2>3. QED
    BY <1>1, <1>3, <1>5, <2>1, <2>2, DeliveriesGrow
<1>6. QED
  BY <1>1, <1>4, <1>5, RowsOfStep

LEMMA CountHolds == Spec => []CountInv
<1>1. Init => CountInv
  <2>1. SUFFICES ASSUME Init, NEW t \in Tasks
                 PROVE  Cardinality(RowsOf(t)) <= Deliveries(task[t])
    BY DEF CountInv
  <2>2. RowsOf(t) = {}
    BY <2>1 DEF Init, RowsOf
  <2>3. QED
    BY <2>1, <2>2, FS_EmptySet DEF Init, Deliveries
<1>2. QED
  BY <1>1, CountStep, InvHolds, PTL DEF Spec

(***************************************************************************)
(* However often attempts fail, die or are interrupted, a window has one   *)
(* row for every retry the queue has counted, and one more, at the most.   *)
(***************************************************************************)
THEOREM RowsAreCountedHolds == Spec => []RowsAreCounted
<1>1. Inv /\ CountInv => RowsAreCounted
  <2>1. SUFFICES ASSUME Inv, CountInv, NEW t \in Tasks
                 PROVE  Cardinality(RowsOf(t)) <= task[t].tries + 1
    BY DEF RowsAreCounted
  <2>2. Cardinality(RowsOf(t)) \in Nat
    <3>1. RowsOf(t) \subseteq JobID
      BY DEF RowsOf
    <3>2. QED
      BY <3>1, SmallerJobSet
  <2>3. /\ Deliveries(task[t]) \in Nat /\ task[t].tries \in Nat
        /\ Deliveries(task[t]) <= task[t].tries + 1
    BY <2>1, DeliveriesTyped, Bounds DEF Inv
  <2>4. QED
    BY <2>1, <2>2, <2>3 DEF CountInv
<1>2. QED
  BY <1>1, InvHolds, CountHolds, PTL

(***************************************************************************)
(* The numbers of rows that are set aside for the table suffice: a task    *)
(* that waits finds one that is not used.  Were all of them used, the rows *)
(* with their places among the rows of their windows would be as many      *)
(* pairs of a task and a number up to MaxRetry as there are, while the     *)
(* last place of the window that waits is not taken.                       *)
(***************************************************************************)
Older(j) == {i \in RowsOf(job[j].task) : i < j}

Place(j) == <<job[j].task, Cardinality(Older(j))>>

LEMMA PlaceOfRow ==
    ASSUME NEW j \in JobID, job[j].status # "none"
    PROVE  /\ Cardinality(Older(j)) \in Nat
           /\ Cardinality(Older(j)) < Cardinality(RowsOf(job[j].task))
           /\ Cardinality(RowsOf(job[j].task)) \in Nat
<1> DEFINE R == RowsOf(job[j].task)
<1>1. R \subseteq JobID /\ Older(j) \subseteq R /\ j \in R
  BY DEF RowsOf, Older
<1>2. j \notin Older(j)
  BY JobIDInt DEF Older
<1>3. /\ IsFiniteSet(R) /\ Cardinality(Older(j)) \in Nat /\ Cardinality(R) \in Nat
      /\ Cardinality(Older(j)) <= Cardinality(R)
  BY <1>1, SmallerJobSet
<1>4. Cardinality(Older(j)) # Cardinality(R)
  BY <1>1, <1>2, <1>3, FS_Subset
<1>5. QED
  BY <1>3, <1>4

LEMMA PlacesDiffer ==
    ASSUME NEW j \in JobID, NEW k \in JobID, j < k,
           job[j].status # "none", job[j].task = job[k].task
    PROVE  Cardinality(Older(j)) < Cardinality(Older(k))
<1>1. Older(j) \subseteq Older(k) /\ Older(k) \subseteq JobID
  BY JobIDInt DEF Older, RowsOf
<1>2. j \in Older(k) /\ j \notin Older(j)
  BY JobIDInt DEF Older, RowsOf
<1>3. /\ IsFiniteSet(Older(k))
      /\ Cardinality(Older(j)) \in Nat /\ Cardinality(Older(k)) \in Nat
      /\ Cardinality(Older(j)) <= Cardinality(Older(k))
  BY <1>1, SmallerJobSet
<1>4. Cardinality(Older(j)) # Cardinality(Older(k))
  BY <1>1, <1>2, <1>3, FS_Subset
<1>5. QED
  BY <1>3, <1>4

LEMMA UnusedLeft ==
    ASSUME Inv, CountInv, NEW t \in Tasks, task[t].state = "pending"
    PROVE  Unused # {}
<1> SUFFICES ASSUME Unused = {} PROVE FALSE
  OBVIOUS
<1> DEFINE Pairs == Tasks \X (0 .. MaxRetry)
           Taken == Pairs \ {<<t, MaxRetry>>}
           place == [j \in JobID |-> Place(j)]
<1>1. \A j \in JobID : job[j].status # "none" /\ job[j].task \in Tasks
  BY DEF Unused, Inv, RowInv
<1>2. \A j \in JobID : Place(j) \in Taken
  <2> SUFFICES ASSUME NEW j \in JobID PROVE Place(j) \in Taken
    OBVIOUS
  <2> DEFINE u == job[j].task
  <2>1. /\ u \in Tasks /\ Cardinality(Older(j)) \in Nat
        /\ Cardinality(Older(j)) < Cardinality(RowsOf(u))
        /\ Cardinality(RowsOf(u)) \in Nat
    BY <1>1, PlaceOfRow
  <2>2. /\ Cardinality(RowsOf(u)) <= Deliveries(task[u])
        /\ Deliveries(task[u]) \in Nat /\ task[u].tries \in 0 .. MaxRetry
        /\ Deliveries(task[u]) <= task[u].tries + 1
    BY <2>1, DeliveriesTyped DEF CountInv, Inv
  <2>3. u = t => Deliveries(task[u]) = task[u].tries
    BY DEF Deliveries
  <2>4. Cardinality(Older(j)) \in 0 .. MaxRetry
    BY <2>1, <2>2, Bounds
  <2>5. u = t => Cardinality(Older(j)) # MaxRetry
    BY <2>1, <2>2, <2>3, Bounds
  <2>6. QED
    BY <2>1, <2>4, <2>5 DEF Place
<1>3. place \in Injection(JobID, Taken)
  <2>1. ASSUME NEW j \in JobID, NEW k \in JobID, Place(j) = Place(k) PROVE j = k
    <3>1. /\ job[j].task = job[k].task
          /\ Cardinality(Older(j)) = Cardinality(Older(k))
      BY <2>1 DEF Place
    <3>2. Cardinality(Older(j)) \in Nat /\ Cardinality(Older(k)) \in Nat
      BY <1>1, PlaceOfRow
    <3>3. ~(j < k) /\ ~(k < j)
      BY <1>1, <3>1, <3>2, PlacesDiffer
    <3>4. QED
      BY <3>3, JobIDInt
  <2>2. IsInjective(place)
    BY <2>1 DEF IsInjective
  <2>3. QED
    BY <1>2, <2>2 DEF Injection
<1>4. /\ IsFiniteSet(0 .. MaxRetry) /\ Cardinality(0 .. MaxRetry) = MaxRetry + 1
  BY FS_Interval, Bounds
<1>5. /\ IsFiniteSet(Pairs)
      /\ Cardinality(Pairs) = Cardinality(Tasks) * (MaxRetry + 1)
  BY <1>4, TasksFinite, FS_Product
<1>6. Cardinality(Pairs) \in Nat
  BY <1>5, FS_CardinalityType
<1>7. <<t, MaxRetry>> \in Pairs
  BY Bounds
<1>8. IsFiniteSet(Taken) /\ Cardinality(Taken) = Cardinality(Pairs) - 1
  BY <1>5, <1>7, FS_RemoveElement
<1>9. Cardinality(JobID) = Cardinality(Pairs)
  <2>1. JobID = 1 .. Cardinality(Pairs)
    BY <1>5 DEF JobID
  <2>2. QED
    BY <1>6, <2>1, FS_Interval
<1>10. Cardinality(JobID) <= Cardinality(Taken)
  BY <1>3, <1>8, FS_Injection
<1>11. QED
  BY <1>6, <1>8, <1>9, <1>10

(***************************************************************************)
(* A delivery always finds room for its row: that the model numbers the    *)
(* rows up to a bound keeps no attempt from beginning.                     *)
(***************************************************************************)
THEOREM RowForEveryDelivery ==
    Spec => [](\A t \in Tasks : task[t].state = "pending" => Unused # {})
<1>1. Inv /\ CountInv
        => \A t \in Tasks : task[t].state = "pending" => Unused # {}
  BY UnusedLeft
<1>2. QED
  BY <1>1, InvHolds, CountHolds, PTL
=============================================================================
