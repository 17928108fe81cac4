------------------------------- MODULE Export -------------------------------
(***************************************************************************)
(* Bulk exports: the API stores a request and enqueues a task for it       *)
(* (internal/api/handlers/export.go), the worker copies the archived logs  *)
(* of the requested period to the customer's bucket                        *)
(* (internal/worker/export.go: LogExportProcessor).                        *)
(*                                                                         *)
(* The archive goes on meanwhile: rows become done, objects are deleted    *)
(* and rows expire.  An attempt may end at any point (the worker dies, the *)
(* task's deadline passes, an update fails) and the queue then delivers    *)
(* the task again, or archives it when its retries are used up.  The queue *)
(* runs one attempt of a task at a time.                                   *)
(***************************************************************************)
EXTENDS Naturals, FiniteSets

CONSTANTS
    Exports,   \* requests
    Logs,      \* rows of log_jobs in the customer's archive
    Requested, \* the rows in the period of a request
    MaxRetry   \* retries of a task (3)

ASSUME PeriodsOfLogs == Requested \in [Exports -> SUBSET Logs]
ASSUME FiniteArchive == IsFiniteSet(Logs)
ASSUME RetriesAreCounted == MaxRetry \in Nat

VARIABLES
    log,      \* "bare" is a row that is done and has no object to read
    row,      \* the log_exports table
    task,     \* the task of a request in the queue
    attempt,  \* the attempt at work on the task
    dest      \* what the bucket of the request holds

vars == <<log, row, task, attempt, dest>>

Row == [status : {"none", "pending", "processing", "completed", "failed"},
        count : 0 .. Cardinality(Logs), error : BOOLEAN]

Task == [state : {"none", "requested", "refused", "queued", "running",
                  "done", "archived"},
         retried : 0 .. MaxRetry]

\* read: the copy of the row the attempt works with.
Attempt == [pc : {"off", "list", "copy", "ack"}, read : Row,
            todo : SUBSET Logs, count : 0 .. Cardinality(Logs)]

NoRow == [status |-> "none", count |-> 0, error |-> FALSE]

Idle == [pc |-> "off", read |-> NoRow, todo |-> {}, count |-> 0]

----------------------------------------------------------------------------
(***************************************************************************)
(* The archive.                                                            *)
(***************************************************************************)
Moves(l, from, to) ==
    /\ log[l] = from
    /\ log' = [log EXCEPT ![l] = to]
    /\ UNCHANGED <<row, task, attempt, dest>>

Archived(l) == Moves(l, "new", "done") \/ Moves(l, "new", "bare")

Expired(l) == Moves(l, "done", "bare") \/ Moves(l, "bare", "expired")

----------------------------------------------------------------------------
(***************************************************************************)
(* The request.  Its row is stored first; when the task is not enqueued    *)
(* the client gets an error and the row stays.                             *)
(***************************************************************************)
Create(e) ==
    /\ row[e] = NoRow
    /\ row' = [row EXCEPT ![e].status = "pending"]
    /\ task' = [task EXCEPT ![e].state = "requested"]
    /\ UNCHANGED <<log, attempt, dest>>

CreateEnqueues(e) ==
    /\ task[e].state = "requested"
    /\ \E state \in {"queued", "refused"} : task' = [task EXCEPT ![e].state = state]
    /\ UNCHANGED <<log, row, attempt, dest>>

----------------------------------------------------------------------------
(***************************************************************************)
(* The attempts.                                                           *)
(***************************************************************************)
\* Mutant: a task of which an attempt died is not counted as retried.
RetriedForEver(e) ==
    /\ task' = [task EXCEPT ![e].state = "queued"]
    /\ attempt' = [attempt EXCEPT ![e] = Idle]

\* Mutant: one retry too many.
RetriedOnceMore(e) ==
    /\ IF task[e].retried <= MaxRetry
       THEN task' = [task EXCEPT ![e].state = "queued", ![e].retried = @ + 1]
       ELSE task' = [task EXCEPT ![e].state = "archived"]
    /\ attempt' = [attempt EXCEPT ![e] = Idle]

Retried(e) ==
    /\ IF task[e].retried < MaxRetry
       THEN task' = [task EXCEPT ![e].state = "queued", ![e].retried = @ + 1]
       ELSE task' = [task EXCEPT ![e].state = "archived"]
    /\ attempt' = [attempt EXCEPT ![e] = Idle]

Succeeds(e) ==
    /\ task' = [task EXCEPT ![e].state = "done"]
    /\ attempt' = [attempt EXCEPT ![e] = Idle]

\* Mutant: the counters go on from those of the attempt before.
BeginsWhereLeft(e) ==
    /\ task[e].state = "queued"
    /\ row' = [row EXCEPT ![e].status = "processing"]
    /\ task' = [task EXCEPT ![e].state = "running"]
    /\ attempt' = [attempt EXCEPT ![e] = [Idle EXCEPT !.pc = "list",
                                             !.read = row'[e], !.count = row[e].count]]
    /\ UNCHANGED <<log, dest>>

Begins(e) ==
    /\ task[e].state = "queued"
    /\ row' = [row EXCEPT ![e].status = "processing"]
    /\ task' = [task EXCEPT ![e].state = "running"]
    /\ attempt' = [attempt EXCEPT ![e] = [Idle EXCEPT !.pc = "list", !.read = row'[e]]]
    /\ UNCHANGED <<log, dest>>

\* The row is not read, or its update is not answered.
BeginFails(e) ==
    /\ task[e].state = "queued"
    /\ row' \in {row, [row EXCEPT ![e].status = "processing"]}
    /\ Retried(e)
    /\ UNCHANGED <<log, dest>>

\* Mutant: the failure is stored, and the handler returns nil.
FailJobReturnsNil(e) ==
    /\ attempt[e].pc = "list"
    /\ row' \in {row, [row EXCEPT ![e] = [attempt[e].read EXCEPT
                                            !.status = "failed", !.error = TRUE]]}
    /\ Succeeds(e)
    /\ UNCHANGED <<log, dest>>

\* The destination cannot be read or the rows cannot be listed; the error of
\* the update is dropped.
FailJob(e) ==
    /\ attempt[e].pc = "list"
    /\ row' \in {row, [row EXCEPT ![e] = [attempt[e].read EXCEPT
                                            !.status = "failed", !.error = TRUE]]}
    /\ Retried(e)
    /\ UNCHANGED <<log, dest>>

ListForExport(e) == {l \in Requested[e] : log[l] \in {"done", "bare"}}

Lists(e) ==
    /\ attempt[e].pc = "list"
    /\ attempt' = [attempt EXCEPT ![e].pc = "copy", ![e].todo = ListForExport(e)]
    /\ UNCHANGED <<log, row, task, dest>>

Copies(e, l) ==
    /\ attempt[e].pc = "copy" /\ l \in attempt[e].todo
    /\ log[l] = "done"
    /\ dest' = [dest EXCEPT ![e] = @ \cup {l}]
    /\ attempt' = [attempt EXCEPT ![e].todo = @ \ {l}, ![e].count = @ + 1]
    /\ UNCHANGED <<log, row, task>>

\* An object that is not read, or not written, is passed over.  A write that
\* was not answered may have been carried out.
Skips(e, l) ==
    /\ attempt[e].pc = "copy" /\ l \in attempt[e].todo
    /\ \/ dest' = dest
       \/ /\ log[l] = "done"
          /\ dest' = [dest EXCEPT ![e] = @ \cup {l}]
    /\ attempt' = [attempt EXCEPT ![e].todo = @ \ {l}]
    /\ UNCHANGED <<log, row, task>>

Completes(e) ==
    /\ attempt[e].pc = "copy" /\ attempt[e].todo = {}
    /\ row' = [row EXCEPT ![e] = [attempt[e].read EXCEPT
                          !.status = "completed", !.count = attempt[e].count]]
    /\ attempt' = [attempt EXCEPT ![e].pc = "ack"]
    /\ UNCHANGED <<log, task, dest>>

Returns(e) ==
    /\ attempt[e].pc = "ack"
    /\ Succeeds(e)
    /\ UNCHANGED <<log, row, dest>>

\* The worker dies, the deadline passes, or the last update fails with or
\* without being carried out.
Dies(e) ==
    /\ attempt[e].pc # "off"
    /\ Retried(e)
    /\ UNCHANGED <<log, row, dest>>

----------------------------------------------------------------------------
Init ==
    /\ log = [l \in Logs |-> "new"]
    /\ row = [e \in Exports |-> NoRow]
    /\ task = [e \in Exports |-> [state |-> "none", retried |-> 0]]
    /\ attempt = [e \in Exports |-> Idle]
    /\ dest = [e \in Exports |-> {}]

AttemptStep(e) ==
    \/ Begins(e) \/ BeginFails(e) \/ FailJob(e) \/ Lists(e)
    \/ \E l \in Logs : Copies(e, l) \/ Skips(e, l)
    \/ Completes(e) \/ Returns(e) \/ Dies(e)

Next ==
    \/ \E l \in Logs : Archived(l) \/ Expired(l)
    \/ \E e \in Exports : Create(e) \/ CreateEnqueues(e) \/ AttemptStep(e)

Spec == Init /\ [][Next]_vars

\* A queued task is delivered and its attempt goes on, to an end of some kind.
Fairness == \A e \in Exports : WF_vars(AttemptStep(e))

FairSpec == Spec /\ Fairness

----------------------------------------------------------------------------
(***************************************************************************)
(* Properties.                                                             *)
(***************************************************************************)
TypeOK ==
    /\ log \in [Logs -> {"new", "done", "bare", "expired"}]
    /\ row \in [Exports -> Row]
    /\ task \in [Exports -> Task]
    /\ attempt \in [Exports -> Attempt]
    /\ dest \in [Exports -> SUBSET Logs]

(***************************************************************************)
(* The log_count of an export never exceeds the objects in its bucket,     *)
(* however many attempts have counted and copied before, and at whatever   *)
(* point they ended.                                                       *)
(***************************************************************************)
CountIsTrue ==
    \A e \in Exports : row[e].count <= Cardinality(dest[e])

(***************************************************************************)
(* The queue forgets an export only when its row says completed, and from  *)
(* then on the row keeps saying so: no attempt is left that could set it   *)
(* back to processing, as one may do after a crash before the end.         *)
(***************************************************************************)
ForgottenIsCompleted ==
    \A e \in Exports : task[e].state = "done" => row[e].status = "completed"

(***************************************************************************)
(* Every export that was enqueued comes to an end in the queue, although   *)
(* an export that had completed may be begun again after a crash.          *)
(***************************************************************************)
ExportEnds ==
    \A e \in Exports :
        task[e].state = "queued" ~> task[e].state \in {"done", "archived"}
=============================================================================
