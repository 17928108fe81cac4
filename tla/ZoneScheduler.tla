--------------------------- MODULE ZoneScheduler ---------------------------
(***************************************************************************)
(* The pull scheduler of the worker (internal/worker/worker.go, type       *)
(* ZoneScheduler) together with the two pieces of shared state it drives:  *)
(* the zones table and the asynq task queue.                               *)
(*                                                                         *)
(* A pass reads the due zones once, then walks its private copy of the     *)
(* rows.  For each row it enqueues one task for the window that starts at  *)
(* the copied last_pulled_at and ends now, and afterwards stores now as    *)
(* the new last_pulled_at.  Rows may be edited, paused or deleted while    *)
(* the pass is under way, the queue may refuse the task, the store may     *)
(* fail, and the process may die between any two of these steps.           *)
(*                                                                         *)
(* Time is counted in units of one second or more: task identifiers and    *)
(* the log provider's queries have a resolution of one second, and a       *)
(* scheduler pass is minutes apart from the next.                          *)
(***************************************************************************)
EXTENDS Integers

CONSTANTS
    Zones,        \* identifiers of the rows of the zones table
    Schedulers,   \* worker processes that run a ZoneScheduler
    Plans,        \* plan types in use
    Intervals,    \* values of pull_interval_secs in use
    Never,        \* last_pulled_at IS NULL
    StartTime,    \* the clock when the model starts
    MaxTime       \* bound: the clock stops there, and with it the start
                  \* of the window of a zone that was never pulled

ASSUME PlanTypes == Plans \subseteq {"enterprise", "business", "free_pro"}
ASSUME IntervalsPositive == Intervals \subseteq Nat \ {0}
ASSUME NeverIsNoTime == Never \notin Int
ASSUME ClockBounds == StartTime \in Int /\ MaxTime \in Int

VARIABLES
    now,      \* the clock shared by the workers and the database
    row,      \* the zones table
    todo,     \* per scheduler: copied rows of this pass not yet handled
    stamp,    \* per scheduler: {} or the one store of last_pulled_at to do
    tasks,    \* the queue: the tasks that exist, whatever their state
    windows,  \* history: every window the schedulers enqueued
    lost      \* history: zones whose window was enqueued but not stored

vars == <<now, row, todo, stamp, tasks, windows, lost>>

Row == [status : {"absent", "live", "deleted"}, plan : Plans,
        active : BOOLEAN, interval : Intervals, last : Int \cup {Never}]

Copy == [zone : Zones, plan : Plans, interval : Intervals,
         last : Int \cup {Never}]

TaskID == [kind : {"pull", "sec"}, zone : Zones, start : Int]

Task == [id : TaskID, from : Int, to : Int, state : {"queued", "archived"}]

Window == [zone : Zones, from : Int, to : Int, first : BOOLEAN]

----------------------------------------------------------------------------
(***************************************************************************)
(* The queue.  asynq keeps a task under its identifier while it waits,     *)
(* runs, waits for a retry ("queued") or has used up its retries           *)
(* ("archived"); a task that succeeds is removed.                          *)
(***************************************************************************)
Conflict(id) == \E t \in tasks : t.id = id

Enqueue(id, from, to) ==
    tasks' = tasks \cup {[id |-> id, from |-> from, to |-> to,
                          state |-> "queued"]}

TaskSucceeds(t) ==
    /\ t \in tasks
    /\ t.state = "queued"
    /\ tasks' = tasks \ {t}
    /\ UNCHANGED <<now, row, todo, stamp, windows, lost>>

TaskArchived(t) ==
    /\ t \in tasks
    /\ t.state = "queued"
    /\ tasks' = (tasks \ {t}) \cup {[t EXCEPT !.state = "archived"]}
    /\ UNCHANGED <<now, row, todo, stamp, windows, lost>>

----------------------------------------------------------------------------
(***************************************************************************)
(* The zones table.                                                        *)
(***************************************************************************)
ZoneDue(z) ==
    /\ row[z].status = "live"
    /\ row[z].active
    /\ \/ row[z].last = Never
       \/ row[z].last < now - row[z].interval

ListDue ==
    {[zone |-> z, plan |-> row[z].plan, interval |-> row[z].interval,
      last |-> row[z].last] : z \in {y \in Zones : ZoneDue(y)}}

\* Mutant: the UPDATE touches only rows that were never pulled.
UpdateLastPulledOnce(z, t) ==
    row' = [row EXCEPT ![z].last = IF @ = Never THEN t ELSE @]

UpdateLastPulled(z, t) == row' = [row EXCEPT ![z].last = t]

CreateZone(z, plan, interval) ==
    /\ row[z].status = "absent"
    /\ row' = [row EXCEPT ![z] = [status |-> "live", plan |-> plan,
                 active |-> TRUE, interval |-> interval, last |-> Never]]
    /\ UNCHANGED <<now, todo, stamp, tasks, windows, lost>>

\* Mutant: the UPDATE writes the whole row, as it is when it is created.
UpdateZoneResets(z, plan, interval, active) ==
    /\ row[z].status = "live"
    /\ row' = [row EXCEPT ![z] = [status |-> "live", plan |-> plan,
                 active |-> active, interval |-> interval, last |-> Never]]
    /\ UNCHANGED <<now, todo, stamp, tasks, windows, lost>>

UpdateZone(z, plan, interval, active) ==
    /\ row[z].status = "live"
    /\ row' = [row EXCEPT ![z].plan = plan, ![z].interval = interval,
                          ![z].active = active]
    /\ UNCHANGED <<now, todo, stamp, tasks, windows, lost>>

DeleteZone(z) ==
    /\ row[z].status = "live"
    /\ row' = [row EXCEPT ![z].status = "deleted"]
    /\ UNCHANGED <<now, todo, stamp, tasks, windows, lost>>

----------------------------------------------------------------------------
(***************************************************************************)
(* One scheduler pass.                                                     *)
(***************************************************************************)
Idle(s) == todo[s] = {} /\ stamp[s] = {}

\* Mutant: the ticker starts a pass without waiting for the one under way.
PassBeginsTwice(s) ==
    /\ todo' = [todo EXCEPT ![s] = ListDue]
    /\ UNCHANGED <<now, row, stamp, tasks, windows, lost>>

PassBegins(s) ==
    /\ Idle(s)
    /\ todo' = [todo EXCEPT ![s] = ListDue]
    /\ UNCHANGED <<now, row, stamp, tasks, windows, lost>>

\* Mutant: no test for a zone that was never pulled.
WindowStartUnchecked(c) == c.last

WindowStart(c) == IF c.last = Never THEN now - c.interval ELSE c.last

IDOf(c) == [kind  |-> IF c.plan = "free_pro" THEN "sec" ELSE "pull",
            zone  |-> c.zone,
            start |-> WindowStart(c)]

Drop(s, c) == todo' = [todo EXCEPT ![s] = @ \ {c}]

\* The task is accepted: the window is in the queue, its end is still to be
\* stored in the zone's row.
Schedule(s, c) ==
    /\ stamp[s] = {}
    /\ c \in todo[s]
    /\ c.plan # "business"
    /\ ~Conflict(IDOf(c))
    /\ Drop(s, c)
    /\ Enqueue(IDOf(c), WindowStart(c), now)
    /\ windows' = windows \cup
          {[zone |-> c.zone, from |-> WindowStart(c), to |-> now,
            first |-> c.last = Never]}
    /\ stamp' = [stamp EXCEPT ![s] = {[zone |-> c.zone, to |-> now]}]
    /\ UNCHANGED <<now, row, lost>>

\* Mutant: on a conflict the end of the window is stored all the same.
PassOverStores(s, c) ==
    /\ stamp[s] = {}
    /\ c \in todo[s]
    /\ c.plan = "business" \/ Conflict(IDOf(c))
    /\ Drop(s, c)
    /\ stamp' = [stamp EXCEPT ![s] = {[zone |-> c.zone, to |-> now]}]
    /\ UNCHANGED <<now, row, tasks, windows, lost>>

\* The row is passed over: a Business zone belongs to the instant-log
\* daemon, and a task that exists already is left alone.
PassOver(s, c) ==
    /\ stamp[s] = {}
    /\ c \in todo[s]
    /\ c.plan = "business" \/ Conflict(IDOf(c))
    /\ Drop(s, c)
    /\ UNCHANGED <<now, row, stamp, tasks, windows, lost>>

EnqueueFails(s, c) ==
    /\ stamp[s] = {}
    /\ c \in todo[s]
    /\ c.plan # "business"
    /\ Drop(s, c)
    /\ UNCHANGED <<now, row, stamp, tasks, windows, lost>>

Store(s, u) ==
    /\ u \in stamp[s]
    /\ UpdateLastPulled(u.zone, u.to)
    /\ stamp' = [stamp EXCEPT ![s] = {}]
    /\ UNCHANGED <<now, todo, tasks, windows, lost>>

StoreFails(s, u) ==
    /\ u \in stamp[s]
    /\ stamp' = [stamp EXCEPT ![s] = {}]
    /\ lost' = lost \cup {u.zone}
    /\ UNCHANGED <<now, row, todo, tasks, windows>>

\* The process dies or is told to stop; its copies of the rows are gone.
Crash(s) ==
    /\ ~Idle(s)
    /\ todo' = [todo EXCEPT ![s] = {}]
    /\ stamp' = [stamp EXCEPT ![s] = {}]
    /\ lost' = lost \cup {u.zone : u \in stamp[s]}
    /\ UNCHANGED <<now, row, tasks, windows>>

Tick ==
    /\ now < MaxTime
    /\ now' = now + 1
    /\ UNCHANGED <<row, todo, stamp, tasks, windows, lost>>

----------------------------------------------------------------------------
Init ==
    /\ now = StartTime
    /\ \E i \in Intervals, p \in Plans :
          row = [z \in Zones |-> [status |-> "absent", plan |-> p,
                   active |-> TRUE, interval |-> i, last |-> Never]]
    /\ todo = [s \in Schedulers |-> {}]
    /\ stamp = [s \in Schedulers |-> {}]
    /\ tasks = {}
    /\ windows = {}
    /\ lost = {}

Pass(s) ==
    \/ PassBegins(s)
    \/ \E c \in todo[s] : Schedule(s, c) \/ PassOver(s, c) \/ EnqueueFails(s, c)
    \/ \E u \in stamp[s] : Store(s, u) \/ StoreFails(s, u)
    \/ Crash(s)

Queue == \E t \in tasks : TaskSucceeds(t) \/ TaskArchived(t)

API ==
    \E z \in Zones :
        \/ \E p \in Plans, i \in Intervals :
              \/ CreateZone(z, p, i)
              \/ \E a \in BOOLEAN : UpdateZone(z, p, i, a)
        \/ DeleteZone(z)

Next == Tick \/ API \/ Queue \/ \E s \in Schedulers : Pass(s)

Spec == Init /\ [][Next]_vars

\* The fairness of a deployment in which processes are restarted and the
\* queue and the database are reachable again and again: a pass begins when
\* the ticker fires, an enqueue or a store that is possible again and again
\* is made one day, and a queued task ends one way or the other.
Fairness ==
    /\ \A s \in Schedulers :
          /\ WF_vars(PassBegins(s))
          /\ \A z \in Zones :
                /\ SF_vars(\E c \in todo[s] : c.zone = z /\ Schedule(s, c))
                /\ SF_vars(\E c \in todo[s] : c.zone = z /\ PassOver(s, c))
                /\ SF_vars(\E u \in stamp[s] : u.zone = z /\ Store(s, u))
    /\ \A z \in Zones :
          WF_vars(\E t \in tasks :
                     t.id.zone = z /\ (TaskSucceeds(t) \/ TaskArchived(t)))

FairSpec == Spec /\ Fairness

----------------------------------------------------------------------------
(***************************************************************************)
(* Properties.                                                             *)
(***************************************************************************)
TypeOK ==
    /\ now \in Int
    /\ row \in [Zones -> Row]
    /\ todo \in [Schedulers -> SUBSET Copy]
    /\ stamp \in [Schedulers -> SUBSET [zone : Zones, to : Int]]
    /\ tasks \subseteq Task
    /\ windows \subseteq Window
    /\ lost \subseteq Zones

Covered(z, i) == \E w \in windows : w.zone = z /\ w.from <= i /\ i < w.to

Reaches(z, t) ==
    \E w \in windows :
        /\ w.zone = z /\ w.first
        /\ \A i \in w.from .. (t - 1) : Covered(z, i)

(***************************************************************************)
(* Whatever crashes, failed stores, skipped rows and edits happen, and     *)
(* whether one or several schedulers run, last_pulled_at never stands      *)
(* beyond an instant that no task was enqueued for: everything between the *)
(* start of a first window of the zone and last_pulled_at lies in some     *)
(* enqueued window.                                                        *)
(***************************************************************************)
NoGap == \A z \in Zones : row[z].last # Never => Reaches(z, row[z].last)

(***************************************************************************)
(* With one scheduler last_pulled_at is never reset and never moves back,  *)
(* and the instants a step moves it over are all in enqueued windows.      *)
(***************************************************************************)
CursorNeverSkips ==
    [][\A z \in Zones : row[z].last # Never =>
          /\ row'[z].last # Never
          /\ row[z].last <= row'[z].last
          /\ \A i \in row[z].last .. (row'[z].last - 1) : Covered(z, i)']_vars

(***************************************************************************)
(* With one scheduler, the windows of a zone overlap only if a store of    *)
(* last_pulled_at was lost: in a run without failures no log line is       *)
(* pulled twice by scheduled tasks, even while the zone is edited.         *)
(***************************************************************************)
NoOverlap ==
    \A v, w \in windows :
        v # w /\ v.zone = w.zone /\ v.zone \notin lost
            => v.to <= w.from \/ w.to <= v.from

(***************************************************************************)
(* With one scheduler a row is passed over because its task exists already *)
(* only after a store of last_pulled_at was lost: what the identifiers are *)
(* there for, a repeated window, is the only thing they ever hold back,    *)
(* and never a window that was not enqueued yet.                           *)
(***************************************************************************)
ConflictNeedsLoss ==
    \A s \in Schedulers : \A c \in todo[s] :
        stamp[s] = {} /\ Conflict(IDOf(c)) => c.zone \in lost

(***************************************************************************)
(* With one scheduler the rows and the windows are a cursor that is        *)
(* committed after the work was handed on: a window starts where           *)
(* last_pulled_at stands, whatever happened between the reading of the row *)
(* and the enqueueing, and last_pulled_at moves to the end of such a       *)
(* window and nowhere else.                                                *)
(***************************************************************************)
Cursor == INSTANCE WindowCursor
          WITH cursor <- [z \in Zones |-> row[z].last], batches <- windows

CommitsWhatItOffered == Cursor!Spec

----------------------------------------------------------------------------
\* The identifier that the next pass would use for the row is held by a task
\* that used up its retries.
Stuck(z) ==
    \E t \in tasks :
        /\ t.state = "archived"
        /\ t.id = IDOf([zone |-> z, plan |-> row[z].plan,
                        interval |-> row[z].interval, last |-> row[z].last])

(***************************************************************************)
(* A zone that is due is scheduled, unless it is a Business zone, is       *)
(* paused or deleted first, or an archived task holds the very identifier  *)
(* that its next window gets: no interleaving of crashes, lost stores,     *)
(* edits and conflicts with live tasks leaves a zone waiting for ever.     *)
(***************************************************************************)
DueIsScheduled ==
    \A z \in Zones :
        ZoneDue(z) ~> (~ZoneDue(z) \/ row[z].plan = "business" \/ Stuck(z))

(***************************************************************************)
(* What the comment at the conflict branch promises: skipping a row whose  *)
(* task exists already is safe, a zone that was pulled before and is due   *)
(* is scheduled later all the same.  Only such zones are asked for: their  *)
(* window starts at the stored last_pulled_at.  A zone that was never      *)
(* pulled gets a new start, and a new identifier, from the clock of every  *)
(* pass, which the model's clock, stopped at MaxTime, does not show.       *)
(***************************************************************************)
ConflictIsSafe ==
    \A z \in Zones :
        (ZoneDue(z) /\ row[z].last # Never)
            ~> (~ZoneDue(z) \/ row[z].plan = "business")
============================================================================
