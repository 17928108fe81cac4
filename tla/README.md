# A verified model of RainLogs

RainLogs pulls access and security logs of Cloudflare zones into object storage,
chains a hash over them, keeps them for a retention period and erases them when
asked. This directory holds TLA+ modules that model the parts of it where the
order of steps matters, TLC configurations that check them on small instances,
and proofs, checked by TLAPS, of the properties that matter most for every
instance.

All paths below are relative to the repository (`src/`).

## 1. The system

Two processes, `cmd/api` (an HTTP server, two replicas) and `cmd/worker` (one
replica; two overlap for a moment during a rolling update), share PostgreSQL,
Redis (the asynq task queue) and one or two object stores.

| Component | State it keeps | Operations | Talks to |
|---|---|---|---|
| Zone scheduler (`internal/worker/worker.go`, `ZoneScheduler`) | none of its own; `zones.last_pulled_at` | a pass per tick: read the due zones, enqueue a task per window, store the window's end; once a day an expiry task per customer | zones, customers, queue |
| Pull and security processors (`worker.go`, `security.go`) | one row of `log_jobs` per attempt | insert row, check quota, fetch, link to the zone's last row, upload, save row, enqueue verify | log provider, store, `log_jobs`, queue |
| Verify processor (`worker.go`) | `log_jobs.verified_at` | read object, compare hashes, stamp | store, `log_jobs` |
| Expire processor (`worker.go`) | `log_jobs.status` | list old rows, delete object, mark row | store, `log_jobs` |
| Erasure (`handlers.go`, `DeleteCustomer`) | rows of one customer | delete objects, delete zones, revoke keys, delete customer | store, all tables |
| Object store (`internal/storage`) | objects in a primary and a secondary | put to the first provider that accepts, get from the first that answers, delete from all | S3, file system |
| Instant-log daemon (`instant_logs.go`, twice) | map from zones to streams, a buffer per stream | start and stop streams, read lines, upload batches | zones, WebSocket, store |
| Export (`internal/worker/export.go`, `handlers/export.go`) | `log_exports` | store request, enqueue, copy objects to the customer's bucket | queue, `log_jobs`, store |
| Task queue (asynq, external) | tasks by identifier | enqueue, deliver, retry, archive | Redis |
| Zone, customer and key handlers (`handlers.go`) | `zones`, `customers`, `api_keys` | create, update, delete, erase, trigger a pull, download | tables, queue |
| Rate limiters (`internal/api/middleware/ratelimit.go`) | a map from keys to token buckets, a last use per key | look a bucket up, take a token, drop what is idle | requests, clock |
| Authentication and audit (`internal/api/middleware/middleware.go`, `internal/auth`) | `audit_events` | look a key up and compare its hash, ask for the role, write an event in the background | tables |
| `internal/kms`, `internal/config`, `internal/notifications`, `internal/cloudflare/graphql.go` | keys and settings read at start | encrypt, decrypt, alert, query | - |
| `cmd/rainlogs-verify` | none | read a table, recompute hashes | PostgreSQL |
| Documentation site (`docs/.vitepress`) | none | a theme and the navigation of the manual | - |

What is hard here, and what makes each part correct:

- **Scheduling.** A pass works on a copy of rows it read minutes ago, the
  enqueue and the store of the new cursor are in two systems, and asynq refuses
  an identifier that exists. Correct means: no instant is left out, windows
  overlap only after a failure, every due zone is scheduled one day.
- **Archiving.** Up to ten attempts run at a time, each reads the last row and
  the quota early and writes the object and the row late; deliveries are
  repeated after errors and crashes. Correct means: chains lead back to a start,
  a done row has its object, no task vanishes, the quota is passed by a bounded
  amount only.
- **Retention and erasure.** Deletions fail, fail in one of two providers, or
  succeed without an answer, while attempts store objects. Correct means:
  nothing is deleted early, nothing stays that is called expired or erased.
- **Instant logs.** A goroutine per stream and one per connection, a mutex, a
  bounded channel, cancellation from outside. Correct means: one stream per zone
  that is not cancelled, no line is dropped by a reconnect, cancelled streams end.
- **Rate limiters.** A request looks its bucket up under a mutex and takes its
  token after it; the clean-up reads the clock before it takes the mutex and drops
  buckets meanwhile. Correct means: to forget a key neither gives nor takes a
  token, and keys that are not used are forgotten.
- **Requests of the API.** A key is read, its hash compared a while later, and
  the handler makes several queries without a transaction, beside the requests of
  other clients; a query that failed may have been carried out, and the audit
  event is written after the answer. Correct means: a dead key opens nothing, no
  request reaches the rows of another customer, an erasure lasts, a patch changes
  what it names, every change can be traced and what the audit calls done is so.
- **Export.** Retries over a half-filled bucket while the archive shrinks.
  Correct means: the report is not larger than the bucket, and every request
  that was enqueued ends.

The file `PROJECT.json` lists every such hazard at its line, with the property
that would catch it or the reason why none does.

## 2. The modules

`ZoneScheduler` (which implements `WindowCursor`), `LogPull` (which implements
`Archive`), `Retention` (over `MultiStore`), `InstantLogs`, `Export`, `RateLimiter`
(which implements `TokenBucket`, and is measured by `MeteredLimiter`) and
`ApiRequests` each model one component with the shared state it touches. What
another component does to that state is an action of the module: zone edits in
`ZoneScheduler`, archiving in `Retention`, archiving and expiry in `Export`.
`MCRateLimiter` composes `RateLimiter` and `ApiRequests`, whose limiter stands
between the authentication and the handlers. The `MC*` modules hold constants for
TLC; the `*_proofs` modules hold theorems.

### ZoneScheduler

| In the model | In the code |
|---|---|
| `row`, `CreateZone`, `UpdateZone`, `DeleteZone` | the zones table and its handlers |
| `PassBegins` | `ListDue` at the start of `schedule`; `todo` is the slice the pass walks |
| `Schedule` / `PassOver` / `EnqueueFails` | one iteration of the loop up to the enqueue: accepted, refused because the identifier exists (or a Business zone), or failed |
| `Store` / `StoreFails` | `UpdateLastPulled` |
| `Crash` | the process dies between any two of these |
| `tasks`, `TaskSucceeds`, `TaskArchived` | what asynq keeps under an identifier |

Identifiers hold the kind, the zone and the second the window starts, as in the
code. The window starts at the copied `last_pulled_at`, or one interval before now
for a zone that was never pulled, and ends now.

### WindowCursor

What one scheduler promises of a zone: a consumer that commits its place only
after the work was handed on. A window starts at the committed cursor, and the
cursor only ever moves to the end of a window that started where it stands.
`ZoneScheduler` implements it with `last_pulled_at` as the cursor and the windows
ever enqueued as what was handed on (`CommitsWhatItOffered`); edits, pauses,
deletions, failures and crashes are stutters.

### LogPull

Every delivery is an attempt with a row of its own; `run[j].pc` is the place in
`ProcessTask` at which the attempt with row `j` stands: `admit` (quota), `fetch`,
`link` (read of the last row), `put`, `save`, `ack`. `beganAt` and `doneAt` are
history: the count of rows that were done when an attempt began, and when its own
row was. `quota` is chosen from `Quotas` at the start. Pull and security tasks
differ where their processors do (refusals with HTTP 403, windows that are too
long). `FailJob` drops the error of its own update as the code does, so the row
may be failed or stay pending. `VerifyRun` compares what the code compares: the
hash of the decompressed data with the hash of the compressed object. Hashes are
injective; a chain hash is a record that stands for its row.

### Archive

What the pull and security processors together promise of `log_jobs`: an archive
to which entries are only ever appended, each linked to an entry that was there
before or to none; an entry is never changed, taken back or linked anew ("write
once, read many"). `LogPull` implements it when a row counts as an entry from the
moment it is done. Two entries may link to one: that is the fork of run
`pull_fork`, so `Archive` promises no more than the code keeps. Its entries can be
read from the moment they are there. The modules `LogPull` and `Archive` speak of
the time in which a row is retained; what ends it is in `Retention`.

### MultiStore and Retention

`MultiStore` gives, for a call, the set of results and stores it may leave
behind: each provider succeeds, fails, or fails after having done the work. The
worker knows a primary and a secondary (`cmd/worker/main.go:58-101`), the API
one backend (`cmd/api/main.go:62-75`). `Retention` has the expiry tasks of several
days (their identifier holds the date, and a task that fails is retried for longer
than a day, so the tasks of earlier days go on while those of later ones are
queued; `today` is the task with today's date, and a new one is queued only when
there is none), the erasure request as a sequence of list, delete and mark steps
and of three updates (zones, keys, customer) each of which may fail, also after
having been carried out, and the attempts as far as store and rows see them.
`IntAsText` says whether the database connections can pass an integer where the
server expects a text, which the query of `ListExpired` needs
(`repositories.go:329`); as shipped they cannot, and then no delivery of an expiry
task gets past its query. The list is cut off after `ListLimit` rows, 9999 in the
code (`handlers.go:161`). An erasure's `outcome` is `erased` only if every call
in it succeeded, and `listed` remembers the rows it was about.

### InstantLogs

`manager` is the goroutine of `Start`, `streams` its map, `locked` the mutex
while `stopAll` holds it. A stream's `pc` follows `runZoneStream` and
`streamSession`; `reader` follows the goroutine of `Stream`, which looks at its
context only between two messages. Go's `select` may take any ready branch: the
actions `Take`, `UploadTick`, `Closed` and `SessionCancelled` are alternatives.
Lines are counted. `Terminate` and `Exit` are the signal and the return of `run`,
which does not wait.

### Export

`Create` and `CreateEnqueues` are the two writes of the handler, `Begins`,
`Lists`, `Copies`, `Skips`, `Completes` and `Returns` the steps of the processor.
`Dies` stands for every way an attempt ends unfinished. asynq runs one attempt of
a task at a time: a lost lease or a passed deadline cancels the attempt's context
before the next delivery, and every call of the processor uses that context.

### TokenBucket and RateLimiter

| In the model | In the code (`ratelimit.go`) |
|---|---|
| `entry`, `idle` | `entries` of an `ipLimiter`; the time since an entry's `lastSeen` |
| `bucket` | the tokens of a `rate.Limiter` |
| `asks`, `held`, `age` | a request's key, the limiter `get` gave it, the time since |
| `Get` | `get`: the entry of the key, or a new and full limiter, and `lastSeen` |
| `Allow`, `Refuse` | `Allow` of the limiter, outside the mutex: a token or HTTP 429 |
| `sweep`, `EvictBegins`, `Evict` | `evict`: the cutoff is computed, then the map is locked and swept |

A tick is the time in which a bucket gains a token, and times are ages in ticks.
`Stall` bounds the ticks a goroutine may lose between two of its statements. The
process has three of these limiters: by address (60 a second, burst 120) and by
customer for each of `/api/v1` and `/dashboard` (30 a second, burst 60). All
drop entries after ten minutes, which is 36000 or 18000 ticks: the assumption
`Burst + Stall <= TTL + 1` holds for a stall of nearly that time.

`TokenBucket` says what the limiter promises: a bucket per key that is there from
the beginning and is never dropped. `RateLimiter` implements it when a key
without an entry counts as a full bucket (`Tokens`). Each replica has limiters of
its own and a restart fills them; the model is of one process between restarts.

`MeteredLimiter` adds a meter to one key: history that starts, at any moment, at
the burst, gains one per tick and loses one per request of the key that passes.
`RateBound` says that it never runs below zero, which is the promise a client
sees: in any stretch of n ticks at most burst + n requests of a key pass. The
meter stops the clock only when it would show more than `MaxCredit`, and may
start anew at every step.

### ApiRequests

| In the model | In the code |
|---|---|
| `key`, `zone`, `deleted` | `api_keys`, the zone of a customer, `customers.deleted_at` |
| `Arrive` | a client sends a request with a key that was shown to it |
| `GetByPrefix`, `Authenticate` | the two halves of `APIKeyAuth`: the query, then the hash, the expiry and the customer's limiter |
| `Forbid` | `RequireAdmin`, which stands behind the audit |
| `ReadZone`, `UpdateZone`, `DeleteZone` | the read and the write of the zone handlers; the write is of all columns |
| `CreateZone`, `CreateAPIKey`, `RevokeAPIKey` | handlers of one write |
| `SoftDeleteZones`, `RevokeByCustomer`, `SoftDeleteCustomer` | the last three steps of `DeleteCustomer`; the errors of the first two are logged and nothing more |
| `Record` | the goroutine of `AuditLog` |
| `Dies` | the process ends (`cmd/api/main.go:187-204`), which waits for no goroutine: a request stops where it stands, and an event still to be written is lost |

Every write has two flags: `stored` says whether the table has it, `ok` whether
the handler was told so, and `ok => stored`. `req[q].alone` is history: no other
request of the customer was under way so far. It stands in the properties for
what the code does not promise: two patches at a time, or a key created beside an
erasure. A customer has one zone, whose fields take values of a small set.

## 3. The runs

| Run | Verdict | Properties | Instance |
|---|---|---|---|
| `sched` | pass | `TypeOK` `NoGap` `NoOverlap` `ConflictNeedsLoss` `CursorNeverSkips` `CommitsWhatItOffered` `DueIsScheduled` | one zone, one scheduler, three plans, clock 1..3 |
| `sched_conflict` | violation | `ConflictIsSafe` | as above, one plan |
| `pull_core` | pass | `TypeOK` `ChainWellFounded` `DoneIsStored` `AckedIsArchived` `QuotaOvershoot` `RowsAreCounted` `ForkNeedsOverlap` `TaskEnds` `IsWrittenOnce` | one pull and one security task of a zone, two attempts at a time, one retry, a quota of one object or none |
| `pull_fork` | violation | `NoFork` | three tasks, two at a time |
| `pull_verify` | violation | `VerifyStamps` | two tasks |
| `retention` | pass | `TypeOK` `RetainedIsStored` `NoResidue` `ListedAreErased` | two attempts of one window, one provider, the expiry tasks of three days, `IntAsText` true, an erasure that lists one row |
| `expiry` | violation | `OldIsExpired` | two attempts of one window, one provider, `IntAsText` false as shipped |
| `erasure` | violation | `ErasureErases` | two windows, primary and secondary |
| `instant` | pass | `TypeOK` `OneStream` `SessionDrained` `ZoneIsStreamed` `CancelledEnds` | one zone, two streams of it at a time, channel 1, batch 2 |
| `instant_shutdown` | violation | `ShutdownLosesNothing` | as above |
| `export` | pass | `TypeOK` `CountIsTrue` `ForgottenIsCompleted` `ExportEnds` | one request, two rows, three retries |
| `limiter` | pass | `TypeOK` `RateBound` `NeverForgets` `IdleIsDropped` | two keys, two requests, burst 2, time to live 2, stall 1, a meter on one key up to 3 |
| `limiter` | pass | `DeadKeyIsRefused` `ErasedIsSilent` `AuditIsTrue` `ChangesAreTraced` `PatchKeepsOthers` `TenantsApart` | two customers, three keys, two requests at a time, one that reads and two that change |

**Bounds.** *sched*: three clock values give a first window, a second one and a late
store of the first. The clock stops at its last value, where the window of a zone
that was never pulled, which the code starts one interval before now, would no
longer move: `ConflictIsSafe` asks only for zones that were pulled, whose window
starts at the stored cursor whatever the clock says. Every property speaks of one
zone, zones share only the queue's identifiers (which name the zone), so a second
zone adds nothing. Runs with one scheduler are what the deployment asks for; `NoGap`
is proved for any number. *pull*: two attempts and a retry are the least that can
read the same last row, overtake each other between the insert and the save, and
pass the quota together. The quota is chosen at the start and never changes, as
`quota_bytes` is written only when a customer is created: of one object, it is
passed by two attempts together; without one, three rows of the chain may follow
each other, and only then could a link read from the wrong row fork it without an
overlap.
*retention*: two attempts of one window are the least that share a key; of three
tasks two may be left from earlier days while today's runs, days are not counted, so
behaviours run on for ever, and since no property names a task the tasks are
symmetric; with two rows a list of one is one that is cut off. With `IntAsText` true
a delivery may fail or succeed at its query, so the behaviours of the shipped
program are among those checked for safety. *instant*: a zone removed and added
again needs two streams, a channel of one line fills up, a batch of two
distinguishes a partial from a full buffer. *export*: two rows distinguish a partial
from a complete copy; the retries are those of the code. *limiter*: two requests
share a key or not, and a third limiter exists beside two that are held; the time to
live is the smallest the assumption allows, so every eviction happens as early as it
may. One tick less, and TLC refutes `NeverForgets`. A meter up to burst + 1 sees
each tick after a full bucket, and one that is started anew sees every later
stretch. Of the API's requests, two that change are the least that race for a row,
and a third, sent after one of them, is what meets the traces it left; two customers
are the least that could reach each other's rows, the second with a zone from the
start, the first with room for a zone and a second key; two fields are the least of
which a patch can lose one. The limiter and the requests share no variable, so a
behaviour moves one of them and leaves the other at its start.

**Deadlock** is checked where the system does not stop by design. `InstantLogs`
stops when the process is gone, `Export` when its finite set of requests has
ended: both configurations say `CHECK_DEADLOCK FALSE`. `LogPull` has an explicit
`AllHandled` step, and the API process a step `Wait` when no request is under
way.

**Fairness.** Every assumption is one the deployment justifies:

- *ZoneScheduler*: the ticker fires; an enqueue or a store that is possible again
  and again succeeds one day (strong, since crashes and failures may interrupt
  it); a task in the queue ends. No fairness for edits, failures or crashes.
- *LogPull*: asynq delivers a waiting task, a running handler takes its next
  step. Nothing is assumed of crashes: there are finitely many retries.
- *Retention* (run `expiry`): days pass, the daily ticker fires, a queued task is
  delivered, and a query, deletion or update that can succeed and is tried again and
  again does so one day. Nothing says that the query of `ListExpired` can: with
  `IntAsText` false it cannot, and that is the counterexample.
- *InstantLogs*: the manager's ticker fires, goroutines run and uploads end (they
  have a timeout of a minute). `SessionCancelled` is strong because `select`
  chooses at random among ready branches. Nothing is assumed of the reader: it
  may block for ever, as it may in the code.
- *RateLimiter*: time goes on, the clean-up's ticker fires, and a request that
  looked its limiter up takes its token or is refused. No request need come.
- *ApiRequests*: none is assumed, and no liveness is claimed: the code gives an
  audit event one attempt.
- *Export*: asynq delivers, a running attempt goes on or dies.

## 4. What the runs show

The passing runs say that the core is sound: the cursor skips nothing, chains have
no cycle and stay in their zone, done rows have objects, retained objects stay, a
zone has one stream that is not cancelled (a cancelled one may still upload beside
it), a chain forks only where attempts ran beside each other, the scheduler is a
consumer that commits after the work was handed on and meets a taken identifier only
after a store was lost, a window leaves no more rows than deliveries were counted,
exports report no more than they wrote, and a rate limiter that drops idle keys
cannot be told from one that keeps them all and lets no key pass more often than its
rate. An erasure without a failure empties the stores of the API of what it listed.
The archive is written once: beneath retries, crashes and lost updates of rows its
readers see entries that are added and never changed. At the API a key that is dead
when a request is sent opens nothing, no request writes rows of another customer, an
erasure that met no failure and no other request lasts, and the audit trail is true
and, up to events whose writing failed or met the end of the process, complete for
keys, zones and deleted customers. The six violations are disagreements between code
and documents:

1. `sched_conflict`: a pull task that has used up its retries stays archived
   under its identifier. If the store of the cursor was lost for a zone that was
   pulled before, the next window starts at the same `last_pulled_at` and gets the
   same identifier, and `schedule` skips the zone in every later pass, as long as
   asynq keeps the archived task (weeks, up to a limit of their number; the model
   never drops one). The comment at `internal/worker/worker.go:424` calls the skip
   safe. A zone that was never pulled starts one interval before now and gets a new
   identifier in every pass: nothing of this holds for it.
2. `pull_fork`: `GetLastJob` is read before the upload; two attempts of a zone
   can link to one row. The README speaks of a continuous chain. How wide a fork
   can be is proved: with ten attempts at a time up to 19 rows link to one.
3. `pull_verify`: the verify processor hashes the decompressed data and compares
   with the hash of the compressed object; no row is ever stamped.
4. `expiry`: `ListExpired` passes the retention, a Go `int`, where the server
   expects a text (`repositories.go:329`), and pgx with its default protocol has no
   such encoding: every delivery of an expiry task fails, and no row is ever
   expired. The comment at `worker.go:438` promises the pruning. The tests mock the
   repository.
5. `erasure`: `DELETE /customers/:id` does not reach the objects of attempts
   under way, nor those in the worker's secondary provider.
6. `instant_shutdown`: the worker returns without waiting for its streams.

Other disagreements met while reading, which no run checks:

- `internal/cloudflare/client.go:57` refuses a window of more than one hour,
  while `pull_interval_secs` may be six days (`handlers.go:366`), and the window
  also grows with every pass that is missed.
- `client.go:60` refuses windows that end less than a minute ago, and the
  scheduler's windows end now: the first delivery always fails and a retry does
  the work.
- the chain hash is computed over the hash of the raw data (`worker.go:162`),
  while the row stores that of the compressed object, so the chain cannot be
  recomputed from the table as `docs/guide/api-reference.md:337` describes.
- a row that archived nothing has an empty chain hash, and the next link points
  at it: a zone has several chain starts.
- `stopAll` holds the mutex while it waits for streams that take the mutex before
  they end (`instant_logs.go:66-72,123`): once it waits for a stream at work neither
  of them ever ends, which `StopAllHangsHolds` proves. `README.md:100` speaks of a
  clean drain; only the exit of the process, which `instant_shutdown` shows to lose
  lines, hides the deadlock.
- `DeleteObject` succeeds if one provider does, and a provider that never held the
  object deletes successfully, so with two providers an expired row may leave its
  object in the other (`storage/s3.go:174-185`, whose comment promises "no data
  residue"): TLC refutes `NoResidue` with a primary, a secondary and `IntAsText`
  true. As shipped no expiry task gets that far.
- `DeleteCustomer` lists at most 9999 rows (`handlers.go:161`): the objects of the
  older rows of a customer who has more are not deleted.
- the reader of a cancelled stream may stay blocked on a full channel.
- objects of instant logs have no row in `log_jobs`: neither expiry nor erasure
  nor export finds them.
- an export whose task was not enqueued stays pending, and one whose last update
  failed stays processing, for ever; exported objects are decompressed but named
  `.log.gz`.
- a request whose lookup was made before a revocation is carried out after it;
  `docs/guide/api-reference.md:225` says all subsequent requests are rejected,
  and that is what `DeadKeyIsRefused` states of requests sent afterwards.
- `UpdateZone` reads the row and writes all of its columns: of two patches at a
  time one may be lost, though they name different fields (`handlers.go:339`), and
  `handlers.go:313` says "only provided fields are applied". `PatchKeepsOthers`
  speaks of patches no other request of the customer overlaps.
- a key or a zone that is created while its customer is being erased survives the
  erasure, and the scheduler pulls the zone.
- `DeleteCustomer` answers 204 although the deletion of the zones or the
  revocation of the keys failed: both errors are only logged.
- an audit event is written by a goroutine after the answer, once; an error of the
  query is dropped without a log line (`middleware.go:164-166`), and a process that
  ends waits for none of these goroutines, so a change may leave no event, although
  `README.md:250` says every mutating action is recorded; refusals with 401 and 429
  stand before the audit and leave no event, and `CreateCustomer`, which is public,
  is never recorded.

## 5. The proofs

Seven modules prove theorems for every value of the constants. They use the
assumptions the modules state of their constants (types, non-empty provider
lists, finite task sets), and nothing else, unless named here. Every invariant and
action property of a passing run, and the three refinements (of `WindowCursor`,
`Archive` and `TokenBucket`), are proved.

**ZoneScheduler_proofs.** `TypeCorrect`; `NoGapHolds`, for any number of zones,
schedulers and clock values; `CursorNeverSkipsHolds` and `NoOverlapHolds`, for one
scheduler. `NoGap` is not inductive: it says nothing of the copies and stores that
are still to be made. The invariant adds that every copy's start is reached by
windows already enqueued (or was never pulled), and so is the end that every
pending store will write. With one scheduler (`CursorInv`) the copies of a pass
agree with the table in `last_pulled_at`, and a store still to be done moves the
row forward, over instants that are in the queue. `OverlapInv` adds that every
window of a zone that lost no store ends at or before `last_pulled_at` or the end
that is about to be stored; a new window starts there, so it is behind all older
ones. `ConflictNeedsLossHolds` and `CommitsHolds`, the refinement of
`WindowCursor`, are for one scheduler too, and share `HandInv`: a task is named
after the start of a window in the history, no window is empty, a copied row is
older than the clock, and the end about to be stored belongs to a window that
starts where the row stands. So a store is a `Commit` and an accepted window an
`Offer`; and an identifier that is taken means a window that starts where the new
one does, which without a lost store would end at or before that start.

**LogPull_proofs.** `TypeCorrect`, `ChainHolds`, `StoredHolds`, `AckedHolds`,
`QuotaHolds`, `ForkNeedsOverlapHolds`, `ForkWidthHolds`, `WrittenOnceHolds`,
`RowsAreCountedHolds`, `RowForEveryDelivery` and `NoRowIsStamped`. The invariant
`Inv` carries what an attempt has read to the moment it is used: the row of a
running attempt is pending, the object it put is in the store, the row it has read
as the last one is archived, of the same zone, and was done at a time before now. A
link is therefore always to an earlier row. The quota needs a second argument: every
attempt past the check holds a place, there are at most `Concurrency` of them, and
each was admitted when the usage was below the quota; the usage plus the places
taken stays below quota plus `Concurrency`. `ForkNeedsOverlapHolds` says where
chains fork, for any number of concurrent attempts: `ForkInv` adds that rows are
inserted in the order of their numbers and without holes, and that an attempt linked
to a row began before any later row of the zone was done. `ForkWidthHolds` counts
the forks: the rows linked to p are older than p, and then they were at work when p
was done, beside p itself, or newer, and then they were at work when the first of
them was done, after which p is no longer the last row (`WidthInv`). With C attempts
at a time these are at most C - 1 and C, so at most 2C - 1 together; a chain is sure
not to fork only with one attempt at a time, which the deployment does not have.
`WrittenOnceHolds` is the refinement of `Archive`, forks or not: under `Inv` the
save of an attempt is an `Append` whose content is in the store and whose link is an
entry or a start, and every other step leaves the done rows and what they name
alone. `RowsAreCounted` rests on `CountInv`: the rows of a window are no more than
its deliveries, which are the retries counted, and one more unless the task waits;
no step lowers that number and `Begin` raises it. `RowForEveryDelivery` says that
the numbers the model sets aside for rows always suffice: were all of them used, the
rows and their places among the rows of their windows would fill all pairs of a task
and a number up to `MaxRetry`, yet the last place of a window that waits is free.
`NoRowIsStamped` says of every behaviour what run `pull_verify` shows of one: a row
with a verify task holds the hash of compressed bytes (`StampInv`), and no hash of
decompressed ones equals it.

**Retention_proofs.** `TypeCorrect`, `RetainedHolds` and, with one provider,
`NoResidueHolds` and `ListedAreErasedHolds`. Two lemmas say what the store's calls
do (`PutAdds`, `DeleteRemoves`). The invariant `Inv` says that attempts under way
have pending rows, that the rows on the lists of the expiry tasks are old and done
or expired, that the erasure is idle before there was a request, and that an attempt
between upload and save has its object in a store (`SavedInv`). `StoreMoves` draws
from it that only old windows leave the stores and only windows of attempts under
way come in; everything else follows. `NoResidue` also needs `MarkedInv`: a row that
is to be marked has no object left. `OneProvider` is assumed because a deletion
counts as done when one of two providers did it (see the other disagreements above).
`ListedAreErased` needs only that the API has one (`OneAPIProvider`), as
`cmd/api/main.go:62-75` starts it. `ListedInv` says that a row the request listed is
still to be handled, or its object is gone from the API's store; it does not come
back, because a row with an object has no attempt under way.

**RateLimiter_proofs.** `TypeCorrect`, `HeldHolds`, `NeverForgetsHolds`, the
refinement of `TokenBucket`, `RateHolds` and `LimitersSuffice`. The invariant `Inv`
says that no two keys share a limiter (`OwnLimiter`), that a request holds the
limiter of its key, which was last used no longer ago than the request waits
(`HeldInv`), that a limiter is full or has gained a token for every tick since a
request that looked it up can last have used it (`FillsUp`), and that a request
without a key holds none (`IdleHolds`). `DroppedIsFree` draws from it that the
clean-up drops only full limiters nobody holds; so `Evict` is a stutter of
`TokenBucket`, `Tick` is its `Refill`, and the steps of a request are its own. The
assumption on `TTL` is used exactly there. For `RateBound` the refinement does the
work: the meter is never below the tokens of the ideal bucket (`MeterInv`), whose
tokens only a request that passes takes. `LimitersSuffice` says that every limiter
that is alive is in the map, so no more are needed than there are keys.
`HeldIsCurrent` is proved and not run: a request that takes its token from a limiter
its key does not have is a step the buckets of `NeverForgets` cannot take.

**Export_proofs.** `ExportTypeCorrect`, `CountHolds` and `ForgottenHolds`.
`CountIsTrue` compares two numbers that steps far apart write. `ExportInv` says,
of each export, that an attempt has counted no more than the objects in the bucket
that are not on its list any more, that a row and the copy an attempt has read of
it report no more than the bucket holds, and that a task is done, and an attempt
about to return, only with a completed row.

**InstantLogs_proofs.** `DaemonTypeCorrect`, `OneStreamHolds`, `SessionDrainedHolds`
and `StopAllHangsHolds`. `DaemonInv` says of every stream that a buffer that waits
for more is not full, and that between two sessions, and before the upload that
leads there, the reader is gone and the channel empty. `OneStream` is inductive with
the types: the manager starts a stream only for a zone not in its map.
`StopAllHangsHolds` proves a defect, not a promise: it follows from `WaitInv`, that
the mutex is held as long as the manager waits: the last step of a stream needs it.

**ApiRequests_proofs.** `ApiTypeCorrect`, `DeadKeyHolds`, `TenantsApartHolds`,
`ErasedHolds`, `PatchKeepsOthersHolds`, `AuditHolds` and `TracedHolds`; `ApiTypeOK`
is proved and not run. With the types goes `Placed`: which requests can stand at
which statement, and that a request that holds a zone or erases does so for its own
customer. From this `TenantsApart` follows. `LateIsStopped`: a request that was late
stands before the lookup with a dead key, or before the comparison with one that ran
out. `Undisturbed`: a request alone so far has no other of its customer beside it,
the copy it holds is the row, and the erasure steps that succeeded are still in
force. `Honest`: a request that is to record a success, like an event that records
one, tells of something that holds, and no write takes back what an event tells.
`ChangesAreTraced` is inductive with the types: a write, carried out or not known to
be, leaves a request that owes its event, and `Record` and `Dies` are where an event
is lost.

**Only model-checked.** All liveness (`DueIsScheduled`, `TaskEnds`,
`ZoneIsStreamed`, `CancelledEnds`, `ExportEnds`,
`IdleIsDropped`), which is out of the prover's reach.

## 6. What is left out

- *Data.* Bytes, compression, JSON, log wording, HTTP headers; the hash, prefix
  and plaintext of API keys; what a security query cut off at 1000 events.
- *Key encryption, configuration.* Read at start, fixed for the life of a process.
- *JWT.* `JWTAuth` guards the dashboard's routes, but nothing in the repository
  except a test issues a token. `UpdateLastUsed` writes a column that is
  only shown in listings.
- *Handlers.* `CreateCustomer` is one insertion nothing races with; listings and
  downloads change nothing.
- *Notifications* are fired and forgotten. *rainlogs-verify* reads a table the
  migrations do not create. Routes, migrations, manifests and the Python client
  are wiring. *The documentation site* (`docs/.vitepress`) is the manual's theme:
  its animation and navigation take part in nothing described here.

asynq, PostgreSQL and S3 are external: the model has what the code relies on
(identifiers, retries, leases, atomic statements, lost answers). `PROJECT.json`
has the status of each component.

## 7. Plan

Done, in this order: `ZoneScheduler`, `LogPull`, `MultiStore` and `Retention`,
`InstantLogs`, `Export`, `RateLimiter` with `TokenBucket`, `Archive` with the
refinement by `LogPull`, `ApiRequests`, `WindowCursor` with the refinement by
`ZoneScheduler`, `MeteredLimiter`; proofs for all of them.

What would come next:

1. *Export and instant logs*: what each promises, as an abstract specification: a
   bucket that only grows and a report that is never ahead of it; a ledger of the
   lines that were received, uploaded and lost.
2. *Instant logs and retention together*: objects without rows.
3. *Pure parts*: which windows `PullLogs` accepts, against a reference; the hash
   formulas of the verify tool, once the table it reads exists.
