----------------------------- MODULE Retention -----------------------------
(***************************************************************************)
(* How archived logs leave the system: the daily expiry tasks              *)
(* (internal/worker/worker.go: scheduleExpiry, LogExpireProcessor), and    *)
(* the erasure of a customer (internal/api/handlers: DeleteCustomer),      *)
(* while the processors go on archiving.  One customer is modelled.        *)
(*                                                                         *)
(* The worker reaches a primary and a secondary object store, the API only *)
(* the primary.  The key of an object is made of its window and a hash of  *)
(* its lines, so two attempts that are given the same lines for a window   *)
(* write the same key; attempts that are given other lines count as        *)
(* another window.  Expiry tasks carry the date in their identifier, and a *)
(* task that is retried for days lives beside those of the next days.      *)
(***************************************************************************)
EXTENDS MultiStore, FiniteSets

CONSTANTS
    Rows,        \* rows of log_jobs
    Windows,     \* pulled windows, one object key each
    WindowOf,    \* the window of a row
    Providers,   \* object stores
    WorkerOrder, \* the providers of cmd/worker, in order
    APIOrder,    \* the providers of cmd/api
    ListLimit,   \* the rows an erasure lists at most, 9999 in the code
    Tasks,       \* bound: expiry tasks that exist beside each other
    IntAsText    \* the database connections can pass an integer for a text
                 \* parameter; as shipped they cannot

ASSUME WindowsOfRows == WindowOf \in [Rows -> Windows]
ASSUME OrdersOfProviders == /\ Members(WorkerOrder) \subseteq Providers
                            /\ Members(APIOrder) \subseteq Members(WorkerOrder)
ASSUME SomeProvider == WorkerOrder # <<>> /\ APIOrder # <<>>
ASSUME IntAsTextIsBoolean == IntAsText \in BOOLEAN

VARIABLES
    row,     \* the log_jobs table: status, and whether s3_key is set
    pull,    \* per row: where the attempt that writes it stands
    store,   \* the object stores
    old,     \* windows whose period_end lies beyond the retention
    expiry,  \* the expiry tasks
    today,   \* {} or the expiry task that has today's date
    todo,    \* per task: rows it has listed and not yet handled
    mark,    \* per task: {} or the row whose object was deleted just now
    erase,   \* the DELETE request: step, rows to do, row to mark; history:
             \* what became of the last request, and the rows it listed
    account  \* zones, keys and the customer, while they are not deleted

vars == <<row, pull, store, old, expiry, today, todo, mark, erase, account>>

Row == [status : {"none", "pending", "failed", "done", "expired"}, key : BOOLEAN]

Account == {"zones", "keys", "customer"}

Erase == [step : {"off", "list", "rows", "keys", "customer"},
          todo : SUBSET Rows, mark : SUBSET Rows,
          listed : SUBSET Rows,
          outcome : {"none", "open", "partial", "erased"}]

Key(j) == WindowOf[j]

----------------------------------------------------------------------------
(***************************************************************************)
(* Archiving, as far as the store and the rows see it.  An attempt reads   *)
(* the customer and the zone when it begins, and not again; attempts that  *)
(* find one of them deleted leave a failed row and are not modelled.       *)
(***************************************************************************)
Archiving == <<old, expiry, today, todo, mark, erase, account>>

PullBegins(j) ==
    /\ row[j].status = "none"
    /\ "customer" \in account /\ "zones" \in account
    /\ row' = [row EXCEPT ![j].status = "pending"]
    /\ pull' = [pull EXCEPT ![j] = "put"]
    /\ UNCHANGED <<store, Archiving>>

\* The provider returned no log lines: the row is done and names no object.
PullsNothing(j) ==
    /\ pull[j] = "put"
    /\ row' = [row EXCEPT ![j].status = "done"]
    /\ pull' = [pull EXCEPT ![j] = "off"]
    /\ UNCHANGED <<store, Archiving>>

PullPuts(j) ==
    /\ pull[j] = "put"
    /\ \E put \in PutLogs(WorkerOrder, store, Key(j)) :
          /\ store' = put.store
          /\ IF put.ok
             THEN /\ pull' = [pull EXCEPT ![j] = "save"]
                  /\ row' = row
             ELSE /\ pull' = [pull EXCEPT ![j] = "off"]
                  /\ row' = [row EXCEPT ![j].status = "failed"]
    /\ UNCHANGED Archiving

PullSaves(j) ==
    /\ pull[j] = "save"
    /\ row' = [row EXCEPT ![j] = [status |-> "done", key |-> TRUE]]
    /\ pull' = [pull EXCEPT ![j] = "off"]
    /\ UNCHANGED <<store, Archiving>>

\* The attempt ends before its row is saved.  "failed" stands for a row that
\* is failed and for one that stays pending: nothing here tells them apart.
PullDies(j) ==
    /\ pull[j] # "off"
    /\ pull' = [pull EXCEPT ![j] = "off"]
    /\ row' = [row EXCEPT ![j].status = "failed"]
    /\ UNCHANGED <<store, Archiving>>

\* Mutant: a status the table does not have.
MarkDeleted(j) == row' = [row EXCEPT ![j].status = "deleted"]

MarkExpired(j) == row' = [row EXCEPT ![j].status = "expired"]

----------------------------------------------------------------------------
(***************************************************************************)
(* Expiry.                                                                 *)
(***************************************************************************)
Age(w) ==
    /\ w \notin old
    /\ old' = old \cup {w}
    /\ UNCHANGED <<row, pull, store, expiry, today, todo, mark, erase, account>>

\* Tasks of the days before go on; one that was archived matters no more.
NextDay ==
    /\ today' = {}
    /\ expiry' = [t \in Tasks |-> IF expiry[t] = "archived" THEN "none"
                                                          ELSE expiry[t]]
    /\ UNCHANGED <<row, pull, store, old, todo, mark, erase, account>>

\* At the start of a worker and once a day: nothing is queued while a task
\* with today's date exists.
ScheduleExpiry(t) ==
    /\ "customer" \in account
    /\ \A u \in today : expiry[u] = "none"
    /\ expiry[t] = "none"
    /\ expiry' = [expiry EXCEPT ![t] = "queued"]
    /\ today' = {t}
    /\ UNCHANGED <<row, pull, store, old, todo, mark, erase, account>>

\* Mutant: the age is not part of the query.
ListDone == {j \in Rows : row[j].status = "done"}

ListExpired == {j \in Rows : row[j].status = "done" /\ WindowOf[j] \in old}

\* The query joins the number of days, an integer, to a text: the driver
\* refuses the parameter unless it is told to send every value as text.
ExpireBegins(d) ==
    /\ IntAsText
    /\ expiry[d] = "queued"
    /\ expiry' = [expiry EXCEPT ![d] = "running"]
    /\ todo' = [todo EXCEPT ![d] = ListExpired]
    /\ UNCHANGED <<row, pull, store, old, today, mark, erase, account>>

\* The delivery fails before or after it has begun; after some of those the
\* retries are used up.
ExpireFails(d) ==
    /\ expiry[d] \in {"queued", "running"}
    /\ \E state \in {"queued", "archived"} :
          expiry' = [expiry EXCEPT ![d] = state]
    /\ todo' = [todo EXCEPT ![d] = {}]
    /\ mark' = [mark EXCEPT ![d] = {}]
    /\ UNCHANGED <<row, pull, store, old, today, erase, account>>

\* Mutant: a failed delete does not keep the row from being marked.
ExpireDeletesAnyway(d, j) ==
    /\ expiry[d] = "running" /\ mark[d] = {}
    /\ j \in todo[d]
    /\ todo' = [todo EXCEPT ![d] = @ \ {j}]
    /\ mark' = [mark EXCEPT ![d] = {j}]
    /\ \E del \in DeleteObject(WorkerOrder, store, Key(j)) :
          store' = IF row[j].key THEN del.store ELSE store
    /\ UNCHANGED <<row, pull, old, expiry, today, erase, account>>

\* The object of a row is deleted; a row that names none is marked at once.
ExpireDeletes(d, j) ==
    /\ expiry[d] = "running" /\ mark[d] = {}
    /\ j \in todo[d]
    /\ todo' = [todo EXCEPT ![d] = @ \ {j}]
    /\ IF row[j].key
       THEN \E del \in DeleteObject(WorkerOrder, store, Key(j)) :
               /\ store' = del.store
               /\ mark' = [mark EXCEPT ![d] = IF del.ok THEN {j} ELSE {}]
       ELSE /\ store' = store
            /\ mark' = [mark EXCEPT ![d] = {j}]
    /\ UNCHANGED <<row, pull, old, expiry, today, erase, account>>

ExpireMarks(d, j) ==
    /\ expiry[d] = "running"
    /\ j \in mark[d]
    /\ mark' = [mark EXCEPT ![d] = {}]
    /\ MarkExpired(j)
    /\ UNCHANGED <<pull, store, old, expiry, today, todo, erase, account>>

ExpireMarkFails(d) ==
    /\ expiry[d] = "running"
    /\ mark[d] # {}
    /\ mark' = [mark EXCEPT ![d] = {}]
    /\ UNCHANGED <<row, pull, store, old, expiry, today, todo, erase, account>>

\* The handler returns nil, whatever the rows' deletions came to, and the
\* queue forgets the task.
ExpireEnds(d) ==
    /\ expiry[d] = "running"
    /\ todo[d] = {} /\ mark[d] = {}
    /\ expiry' = [expiry EXCEPT ![d] = "none"]
    /\ UNCHANGED <<row, pull, store, old, today, todo, mark, erase, account>>

----------------------------------------------------------------------------
(***************************************************************************)
(* The erasure of the customer.  Only the last step can make the request   *)
(* fail; the errors of the others are logged.                              *)
(***************************************************************************)
Erasing == <<pull, old, expiry, today, todo, mark>>

\* Bound: one request.
EraseBegins ==
    /\ erase.outcome = "none"
    /\ erase' = [step |-> "list", todo |-> {}, mark |-> {},
                 listed |-> {}, outcome |-> "open"]
    /\ UNCHANGED <<row, store, account, Erasing>>

\* ListByCustomer: the rows created last, at most ListLimit of them.  When
\* they were created is left out, so any rows may be the last.
Listings ==
    LET rows == {j \in Rows : row[j].status # "none"}
    IN  {l \in SUBSET rows : \/ l = rows /\ Cardinality(l) <= ListLimit
                             \/ Cardinality(l) = ListLimit}

EraseLists ==
    /\ erase.step = "list"
    /\ \/ erase' = [erase EXCEPT !.step = "rows", !.outcome = "partial"]
       \/ \E l \in Listings : LET keyed == {j \in l : row[j].key} IN
             erase' = [erase EXCEPT !.step = "rows", !.todo = keyed,
                                    !.listed = keyed]
    /\ UNCHANGED <<row, store, account, Erasing>>

EraseDeletes(j) ==
    /\ erase.mark = {}
    /\ j \in erase.todo
    /\ \E del \in DeleteObject(APIOrder, store, Key(j)) :
          /\ store' = del.store
          /\ erase' = [erase EXCEPT !.todo = @ \ {j}, !.mark = {j},
                                    !.outcome = IF del.ok THEN @ ELSE "partial"]
    /\ UNCHANGED <<row, account, Erasing>>

EraseMarks(j) ==
    /\ j \in erase.mark
    /\ erase' = [erase EXCEPT !.mark = {}]
    /\ \/ MarkExpired(j)
       \/ row' = row
    /\ UNCHANGED <<store, account, Erasing>>

\* One of the three updates that end the request.  It may fail, and an
\* update whose answer is an error may have been carried out.
Ends(part, next) ==
    \E stored, ok \in BOOLEAN :
        /\ ok => stored
        /\ account' = IF stored THEN account \ {part} ELSE account
        /\ erase' = [erase EXCEPT !.step = next, !.outcome =
                        IF ~ok THEN "partial"
                        ELSE IF next = "off" /\ @ = "open" THEN "erased" ELSE @]

EraseZones ==
    /\ erase.step = "rows"
    /\ erase.todo = {} /\ erase.mark = {}
    /\ Ends("zones", "keys")
    /\ UNCHANGED <<row, store, Erasing>>

EraseKeys ==
    /\ erase.step = "keys"
    /\ Ends("keys", "customer")
    /\ UNCHANGED <<row, store, Erasing>>

EraseCustomer ==
    /\ erase.step = "customer"
    /\ Ends("customer", "off")
    /\ UNCHANGED <<row, store, Erasing>>

EraseDies ==
    /\ erase.step # "off"
    /\ erase' = [erase EXCEPT !.step = "off", !.todo = {}, !.mark = {},
                              !.outcome = "partial"]
    /\ UNCHANGED <<row, store, account, Erasing>>

----------------------------------------------------------------------------
Init ==
    /\ row = [j \in Rows |-> [status |-> "none", key |-> FALSE]]
    /\ pull = [j \in Rows |-> "off"]
    /\ store = [p \in Providers |-> {}]
    /\ old = {}
    /\ expiry = [t \in Tasks |-> "none"]
    /\ today = {}
    /\ todo = [t \in Tasks |-> {}]
    /\ mark = [t \in Tasks |-> {}]
    /\ erase = [step |-> "off", todo |-> {}, mark |-> {},
                listed |-> {}, outcome |-> "none"]
    /\ account = Account

PullStep(j) ==
    PullBegins(j) \/ PullsNothing(j) \/ PullPuts(j) \/ PullSaves(j) \/ PullDies(j)

ExpireStep(d) ==
    \/ ExpireBegins(d) \/ ExpireFails(d)
    \/ \E j \in Rows : ExpireDeletes(d, j) \/ ExpireMarks(d, j)
    \/ ExpireMarkFails(d) \/ ExpireEnds(d)

EraseStep ==
    \/ EraseBegins \/ EraseLists
    \/ \E j \in Rows : EraseDeletes(j) \/ EraseMarks(j)
    \/ EraseZones \/ EraseKeys \/ EraseCustomer \/ EraseDies

Next ==
    \/ \E j \in Rows : PullStep(j)
    \/ \E w \in Windows : Age(w)
    \/ NextDay
    \/ \E t \in Tasks : ScheduleExpiry(t) \/ ExpireStep(t)
    \/ EraseStep

Spec == Init /\ [][Next]_vars

\* Days pass, the expiry ticker fires every day, a queued task is delivered,
\* and a query, a deletion or an update that can succeed, and is tried again
\* and again, succeeds one day.
Fairness ==
    /\ WF_vars(NextDay) /\ WF_vars(\E t \in Tasks : ScheduleExpiry(t))
    /\ SF_vars(\E t \in Tasks : ExpireBegins(t))
    /\ \A t \in Tasks :
          /\ WF_vars(ExpireBegins(t) \/ ExpireFails(t))
          /\ WF_vars(ExpireEnds(t))
    /\ \A j \in Rows :
          /\ SF_vars(\E t \in Tasks : ExpireDeletes(t, j) /\ mark'[t] = {j})
          /\ SF_vars(\E t \in Tasks : ExpireMarks(t, j))

FairSpec == Spec /\ Fairness

----------------------------------------------------------------------------
(***************************************************************************)
(* Properties.                                                             *)
(***************************************************************************)
TypeOK ==
    /\ row \in [Rows -> Row]
    /\ pull \in [Rows -> {"off", "put", "save"}]
    /\ store \in [Providers -> SUBSET Windows]
    /\ old \subseteq Windows
    /\ expiry \in [Tasks -> {"none", "queued", "running", "archived"}]
    /\ today \subseteq Tasks
    /\ todo \in [Tasks -> SUBSET Rows]
    /\ mark \in [Tasks -> SUBSET Rows]
    /\ erase \in Erase
    /\ account \subseteq Account

(***************************************************************************)
(* While nobody erases the customer, the object of an archived row stays   *)
(* in a store of the worker until its window is beyond the retention,      *)
(* whatever tasks of several days, retries of its window and failing       *)
(* stores do.                                                              *)
(***************************************************************************)
RetainedIsStored ==
    \A j \in Rows :
        row[j].status = "done" /\ row[j].key /\ WindowOf[j] \notin old
        /\ erase.outcome = "none"
            => \E p \in Members(WorkerOrder) : Key(j) \in store[p]

\* No other attempt ever archived the window of the row.
Alone(j) == \A k \in Rows \ {j} :
                WindowOf[k] = WindowOf[j] => row[k].status = "none"

(***************************************************************************)
(* A row that the expiry task marked as expired has left no object behind  *)
(* in any store, when no other attempt wrote the object of its window.     *)
(* This is what the comment in DeleteObject ("We must try to delete from   *)
(* all configured backends to ensure no data residue") and the one above   *)
(* MarkExpired ("after S3 object deletion") say of it.                     *)
(***************************************************************************)
NoResidue ==
    \A j \in Rows :
        row[j].status = "expired" /\ row[j].key /\ Alone(j) /\ erase.outcome = "none"
            => \A p \in Providers : Key(j) \notin store[p]

(***************************************************************************)
(* What an erasure in which every deletion and update succeeded does come  *)
(* to: the stores of the API hold no object of a row it listed, and get    *)
(* none again, unless another attempt archives the window of the row.      *)
(***************************************************************************)
ListedAreErased ==
    erase.outcome = "erased" =>
        \A j \in erase.listed :
            Alone(j) => \A p \in Members(APIOrder) : Key(j) \notin store[p]

(***************************************************************************)
(* "This ensures GDPR Art. 17 compliance by pruning logs older than        *)
(* retention period": an archived row that names an object and whose window*)
(* is beyond the retention is expired one day, unless its customer is      *)
(* deleted first.                                                          *)
(***************************************************************************)
OldIsExpired ==
    \A j \in Rows :
        row[j].status = "done" /\ row[j].key /\ WindowOf[j] \in old
            ~> row[j].status = "expired" \/ "customer" \notin account

(***************************************************************************)
(* "DELETE /customers/:id erases all S3 objects": after a request whose    *)
(* deletions and updates all succeeded the stores hold no object that is   *)
(* named by a row of the customer.                                         *)
(***************************************************************************)
ErasureErases ==
    erase.outcome = "erased" =>
        \A p \in Providers, j \in Rows : row[j].key => Key(j) \notin store[p]
=============================================================================
