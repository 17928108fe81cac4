------------------------------ MODULE LogPull ------------------------------
(***************************************************************************)
(* The processors of pull tasks (internal/worker: LogPullProcessor,        *)
(* SecurityEventsProcessor, LogVerifyProcessor) with the log_jobs table,   *)
(* the object store and the queue that redelivers a task until its handler *)
(* returns nil or the retries are used up.                                 *)
(*                                                                         *)
(* Every delivery of a task is an attempt, and every attempt inserts a row *)
(* of its own into log_jobs before it does anything else, so an attempt is *)
(* known by the identifier of its row.  Rows are numbered in the order of  *)
(* created_at.  The attempt then runs on its own while other attempts run  *)
(* beside it; it reads the quota, the last row of the zone and the clock   *)
(* at different moments and writes the object and the row at others.       *)
(*                                                                         *)
(* The raw data of an object is abstract; what is hashed is kept in the    *)
(* hash, so that two hashes are equal when the same bytes were hashed.     *)
(***************************************************************************)
EXTENDS Integers, FiniteSets

CONSTANTS
    Tasks,        \* pull tasks, one per window
    ZoneOf,       \* the zone of a task
    Kind,         \* "pull" (log:pull) or "sec" (security:poll)
    TooLong,      \* tasks whose window is longer than one hour
    Contents,     \* what the log provider may return for a window
    Nothing,      \* no data, no object
    Genesis,      \* the hash the first link of a chain points at
    Blank,        \* the empty chain_hash of a row that archived nothing
    Quotas,       \* what quota_bytes may be, in units of one object; -1 is
                  \* unlimited
    Concurrency,  \* bound: attempts running at a time (10 in cmd/worker)
    MaxRetry      \* bound: retries of a task (25, the default of asynq)

Zones == {ZoneOf[t] : t \in Tasks}
JobID == 1 .. Cardinality(Tasks) * (MaxRetry + 1)

ASSUME TasksFinite == IsFiniteSet(Tasks)
ASSUME KindsOfTasks == Kind \in [Tasks -> {"pull", "sec"}]
ASSUME HashSeeds == /\ Genesis # Blank
                    /\ Genesis \notin Int /\ Blank \notin Int
ASSUME NothingIsNoContent == Nothing \notin Contents
ASSUME Bounds == /\ MaxRetry \in Nat /\ Concurrency \in Nat \ {0}
                 /\ Quotas \subseteq Nat \cup {-1}

VARIABLES
    task,    \* the queue
    job,     \* the log_jobs table
    run,     \* per row: where its attempt stands
    store,   \* the objects in the store
    verify,  \* rows with a log:verify task in the queue
    refused, \* history: tasks given up because of an HTTP 403
    quota,   \* quota_bytes of the customer, set when it is created
    beganAt, \* history: when the attempt of a row began
    doneAt,  \* history: when a row became done, 0 if it never did
    clock    \* history: how many rows became done

vars == <<task, job, run, store, verify, refused, quota, beganAt, doneAt, clock>>

----------------------------------------------------------------------------
(***************************************************************************)
(* Values.                                                                 *)
(***************************************************************************)
Steps == {"off", "admit", "fetch", "link", "put", "save", "ack"}

Links == {Genesis, Blank} \cup JobID

Hash(form, data) == [form |-> form, data |-> data]

\* The chain hash of a row stands for the row itself: it is computed over
\* the identifier of the row and is a digest of what it is computed from.
ChainHash(prev, hash, id) == [prev |-> prev, hash |-> hash, id |-> id]

Hashes == [form : {"raw", "gzip"}, data : Contents]

Row == [task : Tasks \cup {Nothing}, status : {"none", "pending", "failed", "done"},
        object : Contents \cup {Nothing}, sha : Hashes \cup {Nothing},
        chain : [prev : Links, hash : Hashes, id : JobID] \cup {Blank},
        verified : BOOLEAN]

Attempt == [pc : Steps, data : Contents \cup {Nothing}, prev : Links]

Off == [pc |-> "off", data |-> Nothing, prev |-> Genesis]

Objects == [task : Tasks, data : Contents]

----------------------------------------------------------------------------
(***************************************************************************)
(* The queue: a failed or interrupted delivery is retried until the        *)
(* retries are used up.                                                    *)
(***************************************************************************)
\* Mutant: one retry too many.
RetriedOnceMore(t) ==
    IF task[t].tries <= MaxRetry
    THEN [state |-> "pending", tries |-> task[t].tries + 1]
    ELSE [task[t] EXCEPT !.state = "archived"]

\* Mutant: the retries are not counted.
RetriedForEver(t) == [task[t] EXCEPT !.state = "pending"]

Retried(t) ==
    IF task[t].tries < MaxRetry
    THEN [state |-> "pending", tries |-> task[t].tries + 1]
    ELSE [task[t] EXCEPT !.state = "archived"]

Enqueue(t) ==
    /\ task[t].state = "none"
    /\ task' = [task EXCEPT ![t].state = "pending"]
    /\ UNCHANGED <<job, run, store, verify, refused, quota, beganAt, doneAt, clock>>

Returns(j, outcome) ==
    /\ run' = [run EXCEPT ![j] = Off]
    /\ task' = [task EXCEPT ![job[j].task] = outcome]

ReturnsError(j) == Returns(j, Retried(job[j].task))

ReturnsNil(j) == Returns(j, [task[job[j].task] EXCEPT !.state = "done"])

----------------------------------------------------------------------------
(***************************************************************************)
(* The log_jobs table.                                                     *)
(***************************************************************************)
Running == {j \in JobID : run[j].pc # "off"}

Unused == {j \in JobID : job[j].status = "none"}

DoneRows(z) ==
    {j \in JobID : job[j].status = "done" /\ ZoneOf[job[j].task] = z}

\* Mutant: the done rows are sorted by created_at upwards.
FirstDone(z) == {k \in DoneRows(z) : \A i \in DoneRows(z) : k <= i}

\* GetLastJob: the done row of the zone that was created last.
LastDone(z) == {k \in DoneRows(z) : \A i \in DoneRows(z) : i <= k}

\* Mutant: a row that archived nothing is linked to like any other.
PrevOfAnyRow(z) == {Genesis} \cup LastDone(z)

\* What an attempt may take for the previous chain hash: no previous row and
\* an error of the query both read as the genesis hash.
PrevChainHash(z) ==
    {Genesis} \cup {IF job[k].chain = Blank THEN Blank ELSE k : k \in LastDone(z)}

\* GetCurrentUsage, the objects counted one each.
Usage == Cardinality({j \in JobID : /\ job[j].status = "done"
                                    /\ job[j].object # Nothing})

----------------------------------------------------------------------------
(***************************************************************************)
(* One attempt.                                                            *)
(***************************************************************************)
Goes(j, pc) == run' = [run EXCEPT ![j].pc = pc]

Begin(t) ==
    /\ task[t].state = "pending"
    /\ Cardinality(Running) < Concurrency
    /\ \E j \in Unused :
          /\ \A i \in Unused : j <= i
          /\ job' = [job EXCEPT ![j].task = t, ![j].status = "pending"]
          /\ Goes(j, "admit")
          /\ beganAt' = [beganAt EXCEPT ![j] = clock]
    /\ task' = [task EXCEPT ![t].state = "active"]
    /\ UNCHANGED <<store, verify, refused, quota, doneAt, clock>>

BeginFails(t) ==
    /\ task[t].state = "pending"
    /\ task' = [task EXCEPT ![t] = Retried(t)]
    /\ UNCHANGED <<job, run, store, verify, refused, quota, beganAt, doneAt, clock>>

\* Mutant: the quota may be reached before an attempt is refused.
AdmitAtQuota(j) ==
    /\ run[j].pc = "admit"
    /\ quota = -1 \/ Usage <= quota
    /\ Goes(j, "fetch")
    /\ UNCHANGED <<task, job, store, verify, refused, quota, beganAt, doneAt, clock>>

Admit(j) ==
    /\ run[j].pc = "admit"
    /\ quota = -1 \/ Usage < quota
    /\ Goes(j, "fetch")
    /\ UNCHANGED <<task, job, store, verify, refused, quota, beganAt, doneAt, clock>>

RowFails(j, saved) ==
    job' = IF saved THEN [job EXCEPT ![j].status = "failed"] ELSE job

\* Mutant: the handler swallows the error after it failed the row.
FailJobReturnsNil(j, saved) ==
    /\ run[j].pc \in {"admit", "fetch", "put"}
    /\ RowFails(j, saved)
    /\ ReturnsNil(j)
    /\ UNCHANGED <<store, verify, refused, quota, beganAt, doneAt, clock>>

\* An error the handler reports: no customer, no zone, quota exceeded, no
\* key, the provider's error, a window it refuses, a failed upload.  The
\* error of the update of the row is dropped, and the row stays pending.
FailJob(j, saved) ==
    /\ run[j].pc \in {"admit", "fetch", "put"}
    /\ RowFails(j, saved)
    /\ ReturnsError(j)
    /\ UNCHANGED <<store, verify, refused, quota, beganAt, doneAt, clock>>

\* HTTP 403: the row fails and the task is given up at once.
Forbidden(j, saved) ==
    /\ run[j].pc = "fetch"
    /\ Kind[job[j].task] = "pull"
    /\ RowFails(j, saved)
    /\ ReturnsNil(j)
    /\ refused' = refused \cup {job[j].task}
    /\ UNCHANGED <<store, verify, quota, beganAt, doneAt, clock>>

\* An error returned as it is: the provider's rate limit, the deadline of
\* the task during the wait before the request, a failed update of the row
\* that was to become done.
Interrupted(j) ==
    /\ run[j].pc \in {"fetch", "save"}
    /\ ReturnsError(j)
    /\ UNCHANGED <<job, store, verify, refused, quota, beganAt, doneAt, clock>>

\* The provider is not asked for a pull window longer than one hour.
Refuses(t) == Kind[t] = "pull" /\ t \in TooLong

Finished(j) ==
    /\ clock' = clock + 1
    /\ doneAt' = [doneAt EXCEPT ![j] = clock + 1]

FetchNothing(j) ==
    /\ run[j].pc = "fetch"
    /\ ~Refuses(job[j].task)
    /\ job' = [job EXCEPT ![j].status = "done"]
    /\ Finished(j)
    /\ Goes(j, "ack")
    /\ UNCHANGED <<task, store, verify, refused, quota, beganAt>>

Fetch(j, data) ==
    /\ run[j].pc = "fetch"
    /\ ~Refuses(job[j].task)
    /\ run' = [run EXCEPT ![j].pc = "link", ![j].data = data]
    /\ UNCHANGED <<task, job, store, verify, refused, quota, beganAt, doneAt, clock>>

Link(j) ==
    /\ run[j].pc = "link"
    /\ \E prev \in PrevChainHash(ZoneOf[job[j].task]) :
          run' = [run EXCEPT ![j].pc = "put", ![j].prev = prev]
    /\ UNCHANGED <<task, job, store, verify, refused, quota, beganAt, doneAt, clock>>

\* Mutant: the row is saved while the upload is still under way.
PutInBackground(j) ==
    /\ run[j].pc = "put"
    /\ \/ store' = store
       \/ store' = store \cup {[task |-> job[j].task, data |-> run[j].data]}
    /\ Goes(j, "save")
    /\ UNCHANGED <<task, job, verify, refused, quota, beganAt, doneAt, clock>>

Put(j) ==
    /\ run[j].pc = "put"
    /\ store' = store \cup {[task |-> job[j].task, data |-> run[j].data]}
    /\ Goes(j, "save")
    /\ UNCHANGED <<task, job, verify, refused, quota, beganAt, doneAt, clock>>

\* The row becomes done.  The verify task may be lost when the queue cannot
\* be reached; the security processor enqueues none.
Save(j) ==
    /\ run[j].pc = "save"
    /\ job' = [job EXCEPT ![j].status = "done",
                          ![j].object = run[j].data,
                          ![j].sha = Hash("gzip", run[j].data),
                          ![j].chain = ChainHash(run[j].prev,
                                          Hash("raw", run[j].data), j)]
    /\ \/ verify' = verify
       \/ Kind[job[j].task] = "pull" /\ verify' = verify \cup {j}
    /\ Finished(j)
    /\ Goes(j, "ack")
    /\ UNCHANGED <<task, store, refused, quota, beganAt>>

Ack(j) ==
    /\ run[j].pc = "ack"
    /\ ReturnsNil(j)
    /\ UNCHANGED <<job, store, verify, refused, quota, beganAt, doneAt, clock>>

\* The worker process dies.  The lease of its tasks runs out and the queue
\* delivers them again.
Crash ==
    /\ Running # {}
    /\ run' = [j \in JobID |-> Off]
    /\ task' = [t \in Tasks |-> IF task[t].state = "active"
                                THEN Retried(t) ELSE task[t]]
    /\ UNCHANGED <<job, store, verify, refused, quota, beganAt, doneAt, clock>>

----------------------------------------------------------------------------
(***************************************************************************)
(* The verify task of a row: the object is downloaded, decompressed and    *)
(* hashed, and the hash compared with the one in the row.                  *)
(***************************************************************************)
ObjectOf(j) == [task |-> job[j].task, data |-> job[j].object]

VerifyMatches(j) ==
    /\ ObjectOf(j) \in store
    /\ Hash("raw", job[j].object) = job[j].sha

\* Mutant: the row of an object that does not verify is set to failed.
VerifyFailsRow(j) ==
    /\ j \in verify
    /\ verify' = verify \ {j}
    /\ job' = [job EXCEPT ![j].status = IF VerifyMatches(j) THEN @ ELSE "failed"]
    /\ UNCHANGED <<task, run, store, refused, quota, beganAt, doneAt, clock>>

\* The delivery after which the verify task leaves the queue: the hashes
\* match, or its retries are used up.
VerifyRun(j) ==
    /\ j \in verify
    /\ verify' = verify \ {j}
    /\ job' = [job EXCEPT ![j].verified = @ \/ VerifyMatches(j)]
    /\ UNCHANGED <<task, run, store, refused, quota, beganAt, doneAt, clock>>

----------------------------------------------------------------------------
Init ==
    /\ task = [t \in Tasks |-> [state |-> "none", tries |-> 0]]
    /\ job = [j \in JobID |->
                [task |-> Nothing, status |-> "none", object |-> Nothing,
                 sha |-> Nothing, chain |-> Blank, verified |-> FALSE]]
    /\ run = [j \in JobID |-> Off]
    /\ store = {}
    /\ verify = {}
    /\ refused = {}
    /\ quota \in Quotas
    /\ beganAt = [j \in JobID |-> 0]
    /\ doneAt = [j \in JobID |-> 0]
    /\ clock = 0

AttemptStep(j) ==
    \/ Admit(j)
    \/ \E saved \in BOOLEAN : FailJob(j, saved) \/ Forbidden(j, saved)
    \/ Interrupted(j)
    \/ FetchNothing(j)
    \/ \E data \in Contents : Fetch(j, data)
    \/ Link(j)
    \/ Put(j)
    \/ Save(j)
    \/ Ack(j)

\* Every window was handled and nothing is left to do.
AllHandled ==
    /\ \A t \in Tasks : task[t].state \in {"done", "archived"}
    /\ verify = {}
    /\ UNCHANGED vars

Next ==
    \/ \E t \in Tasks : Enqueue(t) \/ Begin(t) \/ BeginFails(t)
    \/ \E j \in JobID : AttemptStep(j) \/ VerifyRun(j)
    \/ Crash
    \/ AllHandled

Spec == Init /\ [][Next]_vars

\* The queue delivers a task that waits, and a handler that runs goes on.
Fairness ==
    /\ \A t \in Tasks : WF_vars(Begin(t) \/ BeginFails(t))
    /\ \A j \in JobID : WF_vars(AttemptStep(j)) /\ WF_vars(VerifyRun(j))

FairSpec == Spec /\ Fairness

----------------------------------------------------------------------------
(***************************************************************************)
(* Properties.                                                             *)
(***************************************************************************)
TypeOK ==
    /\ task \in [Tasks -> [state : {"none", "pending", "active", "done",
                                    "archived"}, tries : 0 .. MaxRetry]]
    /\ job \in [JobID -> Row]
    /\ run \in [JobID -> Attempt]
    /\ store \subseteq Objects
    /\ verify \subseteq JobID
    /\ refused \subseteq Tasks
    /\ quota \in Quotas
    /\ beganAt \in [JobID -> Nat]
    /\ doneAt \in [JobID -> Nat]
    /\ clock \in Nat

Archived(j) == job[j].status = "done" /\ job[j].chain # Blank

(***************************************************************************)
(* A link of a chain points at the genesis hash, at the empty hash, or at  *)
(* a row of the same zone that was archived strictly earlier.  So every    *)
(* chain can be followed back to its start, whatever attempts of the zone  *)
(* run beside each other, crash and are delivered again.                   *)
(***************************************************************************)
ChainWellFounded ==
    \A j \in JobID : Archived(j) /\ job[j].chain.prev \in JobID =>
        LET p == job[j].chain.prev IN
        /\ Archived(p)
        /\ ZoneOf[job[p].task] = ZoneOf[job[j].task]
        /\ doneAt[p] < doneAt[j]

(***************************************************************************)
(* The row of an archived window names an object that is in the store, and *)
(* holds the hash of that object.                                          *)
(***************************************************************************)
DoneIsStored ==
    \A j \in JobID : Archived(j) =>
        ObjectOf(j) \in store /\ job[j].sha = Hash("gzip", job[j].object)

(***************************************************************************)
(* The queue forgets a task as done only when a row of its window is done, *)
(* or the provider answered HTTP 403: no crash, error or lost update makes *)
(* a window vanish without a trace in the queue.                           *)
(***************************************************************************)
AckedIsArchived ==
    \A t \in Tasks : task[t].state = "done" /\ t \notin refused =>
        \E j \in JobID : job[j].task = t /\ job[j].status = "done"

(***************************************************************************)
(* The quota is read when an attempt begins and the object is counted when *)
(* it ends, so attempts that run beside each other may pass it, but never  *)
(* by more than the other running attempts can add.                        *)
(***************************************************************************)
QuotaOvershoot ==
    quota # -1 /\ Usage > 0 => Usage < quota + Concurrency

(***************************************************************************)
(* Every delivery of a task leaves a row in log_jobs.  The rows of a       *)
(* window are never more than the retries the queue has counted and the    *)
(* first delivery, however often attempts fail, die or are interrupted.    *)
(***************************************************************************)
RowsOf(t) == {j \in JobID : job[j].status # "none" /\ job[j].task = t}

RowsAreCounted ==
    \A t \in Tasks : Cardinality(RowsOf(t)) <= task[t].tries + 1

(***************************************************************************)
(* The done rows with their objects are an archive that is written once:   *)
(* what the attempts, retries, crashes and verify tasks do to the table    *)
(* and the store adds, row by row, an entry whose object can be read and   *)
(* whose link leads to an entry that was there, and changes none.          *)
(***************************************************************************)
EntryOf(j) ==
    [at |-> j, window |-> job[j].task, prev |-> job[j].chain.prev,
     content |-> IF ObjectOf(j) \in store THEN job[j].object ELSE Nothing]

Entries == {EntryOf(j) : j \in {i \in JobID : Archived(i)}}

WORM == INSTANCE Archive WITH
    Positions <- JobID, Windows <- Tasks, Starts <- {Genesis, Blank},
    archive <- Entries

IsWrittenOnce == WORM!Spec

(***************************************************************************)
(* A chain forks only where attempts ran beside each other: of two rows    *)
(* that are linked to one row, the older was at work when the younger was  *)
(* inserted, or it was inserted before the row they are linked to and was  *)
(* at work when that one was done.  Attempts that follow each other never  *)
(* fork the chain, whatever fails, dies or is delivered again: GetLastJob  *)
(* gives the second of them the row of the first.                          *)
(***************************************************************************)
Linked(p) == {j \in JobID : Archived(j) /\ job[j].chain.prev = p}

Overlap(j, k) == beganAt[j] < doneAt[k] /\ beganAt[k] < doneAt[j]

ForkNeedsOverlap ==
    \A p \in JobID : \A j, k \in Linked(p) :
        j < k => Overlap(j, k) \/ (j < p /\ Overlap(j, p))

(***************************************************************************)
(* How wide a fork can be: the rows linked to one row are fewer than twice *)
(* the attempts that may run at a time, however often attempts are retried.*)
(***************************************************************************)
ForkWidth ==
    \A p \in JobID : Cardinality(Linked(p)) <= 2 * Concurrency - 1

(***************************************************************************)
(* A task that was enqueued is done or archived one day.                   *)
(***************************************************************************)
TaskEnds ==
    \A t \in Tasks :
        task[t].state = "pending" ~> task[t].state \in {"done", "archived"}

----------------------------------------------------------------------------
(***************************************************************************)
(* What the documentation says and the code does not do.                   *)
(***************************************************************************)
(***************************************************************************)
(* "A continuous SHA-256 hash chain": no two rows are linked to the same   *)
(* row.                                                                    *)
(***************************************************************************)
NoFork ==
    \A p \in JobID : Cardinality(Linked(p)) <= 1

(***************************************************************************)
(* "Verify task runs after pull": a row whose verify task is in the queue  *)
(* gets its verified_at; the object is intact and no delivery is lost.     *)
(***************************************************************************)
VerifyStamps == \A j \in JobID : j \in verify ~> job[j].verified
============================================================================
