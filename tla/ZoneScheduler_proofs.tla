----------------------- MODULE ZoneScheduler_proofs -----------------------
(***************************************************************************)
(* Theorems about ZoneScheduler, for every set of zones and schedulers,    *)
(* every set of intervals and every clock.                                 *)
(***************************************************************************)
EXTENDS ZoneScheduler, TLAPS

----------------------------------------------------------------------------
(***************************************************************************)
(* Type correctness.                                                       *)
(***************************************************************************)
LEMMA IntervalIsNat == \A i \in Intervals : i \in Nat /\ i > 0
BY IntervalsPositive

LEMMA StartIsInt ==
    ASSUME TypeOK, NEW s \in Schedulers, NEW c \in todo[s]
    PROVE  /\ c \in Copy
           /\ WindowStart(c) \in Int
           /\ IDOf(c) \in TaskID
<1>1. c \in Copy
  BY DEF TypeOK
<1>2. c.interval \in Int
  <2>1. c.interval \in Intervals
    BY <1>1 DEF Copy
  <2>2. QED
    BY <2>1, IntervalIsNat
<1>3. WindowStart(c) \in Int
  BY <1>1, <1>2 DEF WindowStart, Copy, TypeOK
<1>4. IDOf(c) \in TaskID
  BY <1>1, <1>3 DEF IDOf, TaskID, Copy
<1>5. QED
  BY <1>1, <1>3, <1>4

LEMMA InitTypeOK == Init => TypeOK
<1>1. SUFFICES ASSUME Init PROVE TypeOK
  OBVIOUS
<1>2. row \in [Zones -> Row]
  BY <1>1, PlanTypes DEF Init, Row
<1>3. QED
  BY <1>1, <1>2, ClockBounds DEF Init, TypeOK

\* Every step keeps the values of the seven variables in their types.
LEMMA NextTypeOK == TypeOK /\ [Next]_vars => TypeOK'
<1>1. SUFFICES ASSUME TypeOK, [Next]_vars PROVE TypeOK'
  OBVIOUS
<1> USE <1>1
<1>2. CASE Tick
  BY <1>2, ClockBounds DEF Tick, TypeOK
<1>3. ASSUME NEW z \in Zones, NEW p \in Plans, NEW i \in Intervals,
             CreateZone(z, p, i)
      PROVE  TypeOK'
  <2>1. row' \in [Zones -> Row]
    <3>1. [status |-> "live", plan |-> p, active |-> TRUE, interval |-> i,
           last |-> Never] \in Row
      BY DEF Row
    <3>2. row' = [row EXCEPT ![z] = [status |-> "live", plan |-> p,
                    active |-> TRUE, interval |-> i, last |-> Never]]
      BY <1>3 DEF CreateZone
    <3>3. QED
      BY <3>1, <3>2 DEF TypeOK
  <2>2. QED
    BY <2>1, <1>3 DEF CreateZone, TypeOK
<1>4. ASSUME NEW z \in Zones, NEW p \in Plans, NEW i \in Intervals,
             NEW a \in BOOLEAN, UpdateZone(z, p, i, a)
      PROVE  TypeOK'
  <2>1. row' \in [Zones -> Row]
    <3> DEFINE new == [row[z] EXCEPT !.plan = p, !.interval = i, !.active = a]
    <3>1. new \in Row
      BY DEF TypeOK, Row
    <3>2. row' = [row EXCEPT ![z] = new]
      BY <1>4 DEF UpdateZone, TypeOK
    <3>3. QED
      BY <3>1, <3>2 DEF TypeOK
  <2>2. QED
    BY <2>1, <1>4 DEF UpdateZone, TypeOK
<1>5. ASSUME NEW z \in Zones, DeleteZone(z) PROVE TypeOK'
  <2>1. row' \in [Zones -> Row]
    BY <1>5 DEF DeleteZone, TypeOK, Row
  <2>2. QED
    BY <2>1, <1>5 DEF DeleteZone, TypeOK
<1>6. ASSUME NEW t \in tasks, TaskSucceeds(t) PROVE TypeOK'
  BY <1>6 DEF TaskSucceeds, TypeOK
<1>7. ASSUME NEW t \in tasks, TaskArchived(t) PROVE TypeOK'
  BY <1>7 DEF TaskArchived, TypeOK, Task
<1>8. ASSUME NEW s \in Schedulers, PassBegins(s) PROVE TypeOK'
  <2>1. ListDue \subseteq Copy
    BY DEF ListDue, TypeOK, Row, Copy
  <2>2. QED
    BY <1>8, <2>1 DEF PassBegins, TypeOK
<1>9. ASSUME NEW s \in Schedulers, NEW c \in todo[s], Schedule(s, c)
      PROVE  TypeOK'
  <2>1. c \in Copy /\ WindowStart(c) \in Int /\ IDOf(c) \in TaskID
    BY StartIsInt
  <2>2. c.zone \in Zones /\ now \in Int
    BY <2>1 DEF Copy, TypeOK
  <2>3. tasks' \subseteq Task
    BY <1>9, <2>1, <2>2 DEF Schedule, Enqueue, Task, TypeOK
  <2>4. windows' \subseteq Window
    <3>1. [zone |-> c.zone, from |-> WindowStart(c), to |-> now,
           first |-> c.last = Never] \in Window
      BY <2>1, <2>2, (c.last = Never) \in BOOLEAN DEF Window
    <3>2. QED
      BY <1>9, <3>1 DEF Schedule, TypeOK
  <2>5. stamp' \in [Schedulers -> SUBSET [zone : Zones, to : Int]]
    BY <1>9, <2>2 DEF Schedule, TypeOK
  <2>6. todo' \in [Schedulers -> SUBSET Copy]
    BY <1>9 DEF Schedule, Drop, TypeOK
  <2>7. QED
    BY <1>9, <2>3, <2>4, <2>5, <2>6 DEF Schedule, TypeOK
<1>10. ASSUME NEW s \in Schedulers, NEW c \in todo[s],
              PassOver(s, c) \/ EnqueueFails(s, c)
       PROVE  TypeOK'
  BY <1>10 DEF PassOver, EnqueueFails, Drop, TypeOK
<1>11. ASSUME NEW s \in Schedulers, NEW u \in stamp[s], Store(s, u)
       PROVE  TypeOK'
  <2>1. u \in [zone : Zones, to : Int]
    BY DEF TypeOK
  <2>2. row' \in [Zones -> Row]
    BY <1>11, <2>1 DEF Store, UpdateLastPulled, TypeOK, Row
  <2>3. QED
    BY <1>11, <2>2 DEF Store, TypeOK
<1>12. ASSUME NEW s \in Schedulers, NEW u \in stamp[s], StoreFails(s, u)
       PROVE  TypeOK'
  BY <1>12 DEF StoreFails, TypeOK
<1>13. ASSUME NEW s \in Schedulers, Crash(s) PROVE TypeOK'
  BY <1>13 DEF Crash, TypeOK
<1>14. CASE UNCHANGED vars
  BY <1>14 DEF vars, TypeOK
<1>15. QED
  BY <1>2, <1>3, <1>4, <1>5, <1>6, <1>7, <1>8, <1>9, <1>10, <1>11, <1>12,
     <1>13, <1>14 DEF Next, API, Queue, Pass

(***************************************************************************)
(* TypeOK holds in every reachable state: the zones table, the copies a    *)
(* pass works on, and the queue always hold rows, copies and tasks.        *)
(***************************************************************************)
THEOREM TypeCorrect == Spec => []TypeOK
BY InitTypeOK, NextTypeOK, PTL DEF Spec

----------------------------------------------------------------------------
(***************************************************************************)
(* No gap.  NoGap speaks of the rows only; it is not inductive, because    *)
(* the end of a window reaches the row two steps after the start of the    *)
(* window left it.  The strengthening says the same of the values that     *)
(* travel in the copies of a pass and in the store to be done.             *)
(***************************************************************************)
NoGapInv ==
    /\ TypeOK
    /\ NoGap
    /\ \A s \in Schedulers : \A c \in todo[s] :
          c.last # Never => Reaches(c.zone, c.last)
    /\ \A s \in Schedulers : \A u \in stamp[s] : Reaches(u.zone, u.to)

\* Windows are only ever added, so what was reached stays reached.
LEMMA ReachesStays ==
    ASSUME NEW z, NEW t, windows \subseteq windows', Reaches(z, t)
    PROVE  Reaches(z, t)'
BY DEF Reaches, Covered

\* A first window reaches its own end.
LEMMA FirstReaches ==
    ASSUME NEW z, NEW a \in Int, NEW b \in Int,
           [zone |-> z, from |-> a, to |-> b, first |-> TRUE] \in windows'
    PROVE  Reaches(z, b)'
<1> DEFINE w == [zone |-> z, from |-> a, to |-> b, first |-> TRUE]
<1>1. w.zone = z /\ w.first /\ w.from = a /\ w.to = b
  OBVIOUS
<1>2. \A i \in a .. (b - 1) : Covered(z, i)'
  BY <1>1 DEF Covered
<1>3. QED
  BY <1>1, <1>2 DEF Reaches

\* A window that starts where the zone was reached reaches its own end.
LEMMA WindowExtends ==
    ASSUME NEW z, NEW a \in Int, NEW b \in Int, NEW f,
           windows \subseteq Window, windows \subseteq windows',
           Reaches(z, a),
           [zone |-> z, from |-> a, to |-> b, first |-> f] \in windows'
    PROVE  Reaches(z, b)'
<1> DEFINE v == [zone |-> z, from |-> a, to |-> b, first |-> f]
<1>1. PICK w \in windows : /\ w.zone = z /\ w.first
                           /\ \A i \in w.from .. (a - 1) : Covered(z, i)
  BY DEF Reaches
<1>2. w.from \in Int
  BY DEF Window
<1>3. ASSUME NEW i \in w.from .. (b - 1)
      PROVE  Covered(z, i)'
  <2>1. CASE i < a
    <3>1. Covered(z, i)
      BY <1>1, <1>2, <2>1
    <3>2. QED
      BY <3>1 DEF Covered
  <2>2. CASE ~(i < a)
    <3>1. i \in Int /\ a <= i /\ i < b
      BY <1>2, <2>2
    <3>2. v.zone = z /\ v.from <= i /\ i < v.to
      BY <3>1
    <3>3. QED
      BY <3>2 DEF Covered
  <2>3. QED
    BY <2>1, <2>2
<1>4. QED
  BY <1>1, <1>3 DEF Reaches

LEMMA InitNoGapInv == Init => NoGapInv
<1>1. SUFFICES ASSUME Init PROVE NoGapInv
  OBVIOUS
<1>2. \A z \in Zones : row[z].last = Never
  <2>1. PICK i \in Intervals, p \in Plans :
          row = [z \in Zones |-> [status |-> "absent", plan |-> p,
                   active |-> TRUE, interval |-> i, last |-> Never]]
    BY <1>1 DEF Init
  <2>2. QED
    BY <2>1
<1>3. \A s \in Schedulers : todo[s] = {} /\ stamp[s] = {}
  BY <1>1 DEF Init
<1>4. QED
  BY <1>1, <1>2, <1>3, InitTypeOK DEF NoGapInv, NoGap

\* A step that adds no window, and leaves in every row, copy and store a
\* value that one of them held before, keeps the invariant.
LEMMA MovesKeepNoGap ==
    ASSUME NoGapInv, TypeOK', windows' = windows,
           \A z \in Zones : \/ row'[z].last = Never
                            \/ row'[z].last = row[z].last
                            \/ \E s \in Schedulers : \E u \in stamp[s] :
                                  u.zone = z /\ u.to = row'[z].last,
           \A s \in Schedulers : \A c \in todo'[s] :
              \/ c \in todo[s]
              \/ c.zone \in Zones /\ c.last = row[c.zone].last,
           \A s \in Schedulers : stamp'[s] \subseteq stamp[s]
    PROVE  NoGapInv'
<1>1. \A z, t : Reaches(z, t) => Reaches(z, t)'
  BY DEF Reaches, Covered
<1>2. NoGap'
  BY <1>1 DEF NoGapInv, NoGap
<1>3. \A s \in Schedulers : \A c \in todo'[s] :
        c.last # Never => Reaches(c.zone, c.last)'
  BY <1>1 DEF NoGapInv, NoGap
<1>4. \A s \in Schedulers : \A u \in stamp'[s] : Reaches(u.zone, u.to)'
  BY <1>1 DEF NoGapInv
<1>5. QED
  BY <1>2, <1>3, <1>4 DEF NoGapInv

LEMMA NextNoGapInv == NoGapInv /\ [Next]_vars => NoGapInv'
<1>1. SUFFICES ASSUME NoGapInv, [Next]_vars PROVE NoGapInv'
  OBVIOUS
<1>2. TypeOK /\ TypeOK'
  BY <1>1, NextTypeOK DEF NoGapInv
<1>3. CASE Tick
  BY <1>1, <1>2, <1>3, MovesKeepNoGap DEF Tick
<1>4. ASSUME NEW z \in Zones, NEW p \in Plans, NEW i \in Intervals,
             CreateZone(z, p, i)
      PROVE  NoGapInv'
  <2>1. \A y \in Zones : row'[y].last = Never \/ row'[y].last = row[y].last
    BY <1>2, <1>4 DEF CreateZone, TypeOK
  <2>2. QED
    BY <1>1, <1>2, <1>4, <2>1, MovesKeepNoGap DEF CreateZone
<1>5. ASSUME NEW z \in Zones, NEW p \in Plans, NEW i \in Intervals,
             NEW a \in BOOLEAN, UpdateZone(z, p, i, a)
      PROVE  NoGapInv'
  <2>1. \A y \in Zones : row'[y].last = row[y].last
    BY <1>2, <1>5 DEF UpdateZone, TypeOK, Row
  <2>2. QED
    BY <1>1, <1>2, <1>5, <2>1, MovesKeepNoGap DEF UpdateZone
<1>6. ASSUME NEW z \in Zones, DeleteZone(z) PROVE NoGapInv'
  <2>1. \A y \in Zones : row'[y].last = row[y].last
    BY <1>2, <1>6 DEF DeleteZone, TypeOK, Row
  <2>2. QED
    BY <1>1, <1>2, <1>6, <2>1, MovesKeepNoGap DEF DeleteZone
<1>7. ASSUME NEW t \in tasks, TaskSucceeds(t) \/ TaskArchived(t)
      PROVE  NoGapInv'
  BY <1>1, <1>2, <1>7, MovesKeepNoGap DEF TaskSucceeds, TaskArchived
<1>8. ASSUME NEW s \in Schedulers, PassBegins(s) PROVE NoGapInv'
  <2>1. \A c \in ListDue : c.zone \in Zones /\ c.last = row[c.zone].last
    BY DEF ListDue
  <2>2. \A r \in Schedulers : \A c \in todo'[r] : c \in todo[r] \/ c \in ListDue
    BY <1>2, <1>8 DEF PassBegins, TypeOK
  <2>3. QED
    BY <1>1, <1>2, <1>8, <2>1, <2>2, MovesKeepNoGap DEF PassBegins
<1>9. ASSUME NEW s \in Schedulers, NEW c \in todo[s], Schedule(s, c)
      PROVE  NoGapInv'
  <2>1. /\ c \in Copy /\ WindowStart(c) \in Int /\ now \in Int
        /\ windows \subseteq Window
    BY <1>2, StartIsInt DEF TypeOK
  <2>2. windows \subseteq windows'
    BY <1>9 DEF Schedule
  <2>3. PICK a \in Int, b \in Int : a = WindowStart(c) /\ b = now
    BY <2>1
  <2>4. Reaches(c.zone, b)'
    <3>1. [zone |-> c.zone, from |-> a, to |-> b, first |-> c.last = Never]
             \in windows'
      BY <1>9, <2>3 DEF Schedule
    <3>2. CASE c.last = Never
      <4>1. [zone |-> c.zone, from |-> a, to |-> b, first |-> TRUE]
               \in windows'
        BY <3>1, <3>2
      <4>2. QED
        BY <4>1, FirstReaches
    <3>3. CASE c.last # Never
      <4>1. Reaches(c.zone, a)
        BY <1>1, <2>3, <3>3 DEF NoGapInv, WindowStart
      <4>2. QED
        BY <2>1, <2>2, <3>1, <4>1, WindowExtends
    <3>4. QED
      BY <3>2, <3>3
  <2>5. \A z, t : Reaches(z, t) => Reaches(z, t)'
    BY <2>2, ReachesStays
  <2>6. NoGap'
    BY <1>1, <1>9, <2>5 DEF NoGapInv, NoGap, Schedule
  <2>7. \A r \in Schedulers : todo'[r] \subseteq todo[r]
    BY <1>2, <1>9 DEF Schedule, Drop, TypeOK
  <2>8. \A r \in Schedulers : \A u \in stamp'[r] :
          u \in stamp[r] \/ (u.zone = c.zone /\ u.to = b)
    BY <1>2, <1>9, <2>3 DEF Schedule, TypeOK
  <2>9. \A r \in Schedulers : \A u \in stamp'[r] : Reaches(u.zone, u.to)'
    BY <1>1, <2>4, <2>5, <2>8 DEF NoGapInv
  <2>10. \A r \in Schedulers : \A d \in todo'[r] :
           d.last # Never => Reaches(d.zone, d.last)'
    BY <1>1, <2>5, <2>7 DEF NoGapInv
  <2>11. QED
    BY <1>2, <2>6, <2>9, <2>10 DEF NoGapInv
<1>10. ASSUME NEW s \in Schedulers, NEW c \in todo[s],
              PassOver(s, c) \/ EnqueueFails(s, c)
       PROVE  NoGapInv'
  <2>1. \A r \in Schedulers : todo'[r] \subseteq todo[r]
    BY <1>2, <1>10 DEF PassOver, EnqueueFails, Drop, TypeOK
  <2>2. QED
    BY <1>1, <1>2, <1>10, <2>1, MovesKeepNoGap DEF PassOver, EnqueueFails
<1>11. ASSUME NEW s \in Schedulers, NEW u \in stamp[s], Store(s, u)
       PROVE  NoGapInv'
  <2>1. \A y \in Zones : \/ row'[y].last = row[y].last
                         \/ y = u.zone /\ row'[y].last = u.to
    BY <1>2, <1>11 DEF Store, UpdateLastPulled, TypeOK, Row
  <2>2. \A r \in Schedulers : stamp'[r] \subseteq stamp[r]
    BY <1>2, <1>11 DEF Store, TypeOK
  <2>3. QED
    BY <1>1, <1>2, <1>11, <2>1, <2>2, MovesKeepNoGap DEF Store
<1>12. ASSUME NEW s \in Schedulers, NEW u \in stamp[s], StoreFails(s, u)
       PROVE  NoGapInv'
  <2>1. \A r \in Schedulers : stamp'[r] \subseteq stamp[r]
    BY <1>2, <1>12 DEF StoreFails, TypeOK
  <2>2. QED
    BY <1>1, <1>2, <1>12, <2>1, MovesKeepNoGap DEF StoreFails
<1>13. ASSUME NEW s \in Schedulers, Crash(s) PROVE NoGapInv'
  <2>1. \A r \in Schedulers : /\ stamp'[r] \subseteq stamp[r]
                              /\ todo'[r] \subseteq todo[r]
    BY <1>2, <1>13 DEF Crash, TypeOK
  <2>2. QED
    BY <1>1, <1>2, <1>13, <2>1, MovesKeepNoGap DEF Crash
<1>14. CASE UNCHANGED vars
  BY <1>1, <1>2, <1>14, MovesKeepNoGap DEF vars
<1>15. QED
  BY <1>1, <1>3, <1>4, <1>5, <1>6, <1>7, <1>8, <1>9, <1>10, <1>11, <1>12,
     <1>13, <1>14 DEF Next, API, Queue, Pass

(***************************************************************************)
(* NoGap holds for any number of zones and schedulers: last_pulled_at      *)
(* never stands beyond an instant no task was enqueued for.                *)
(***************************************************************************)
THEOREM NoGapHolds == Spec => []NoGap
<1>1. NoGapInv => NoGap
  BY DEF NoGapInv
<1>2. QED
  BY <1>1, InitNoGapInv, NextNoGapInv, PTL DEF Spec

----------------------------------------------------------------------------
(***************************************************************************)
(* One scheduler.  Nobody else stores last_pulled_at, so the copies of a   *)
(* pass stay fresh in that column whatever edits the rows see, and the     *)
(* store to be done moves the row over a window that is in the queue.      *)
(***************************************************************************)
OneScheduler == \A r, s \in Schedulers : r = s

FreshCopies ==
    \A s \in Schedulers : \A c \in todo[s] :
        /\ row[c.zone].status # "absent"
        /\ c.last = row[c.zone].last
        /\ \A d \in todo[s] : d.zone = c.zone => d = c

Forward(u) ==
    row[u.zone].last # Never =>
        /\ row[u.zone].last <= u.to
        /\ \A i \in row[u.zone].last .. (u.to - 1) : Covered(u.zone, i)

StoreMovesForward ==
    \A s \in Schedulers : \A u \in stamp[s] :
        /\ row[u.zone].status # "absent"
        /\ u.to <= now
        /\ Forward(u)
        /\ \A c \in todo[s] : c.zone # u.zone
        /\ \A v \in stamp[s] : v = u

CursorInv ==
    /\ TypeOK
    /\ \A z \in Zones : /\ row[z].status = "absent" => row[z].last = Never
                        /\ row[z].last # Never => row[z].last <= now
    /\ FreshCopies
    /\ StoreMovesForward

LEMMA InitCursorInv == Init => CursorInv
<1>1. SUFFICES ASSUME Init PROVE CursorInv
  OBVIOUS
<1>2. \A z \in Zones : row[z].last = Never
  <2>1. PICK i \in Intervals, p \in Plans :
          row = [z \in Zones |-> [status |-> "absent", plan |-> p,
                   active |-> TRUE, interval |-> i, last |-> Never]]
    BY <1>1 DEF Init
  <2>2. QED
    BY <2>1
<1>3. \A s \in Schedulers : todo[s] = {} /\ stamp[s] = {}
  BY <1>1 DEF Init
<1>4. QED
  BY <1>1, <1>2, <1>3, InitTypeOK
     DEF CursorInv, FreshCopies, StoreMovesForward

\* A step that leaves last_pulled_at alone, creates no row a copy or a store
\* speaks of, and adds neither a copy that is not fresh nor a store.
LEMMA QuietKeepsCursor ==
    ASSUME CursorInv, TypeOK', windows' = windows, now' \in Int, now <= now',
           \A z \in Zones :
              /\ row'[z].last = row[z].last
              /\ row'[z].status = "absent" => row[z].status = "absent",
           \A s \in Schedulers : \/ todo'[s] \subseteq todo[s]
                                 \/ todo'[s] = ListDue /\ stamp'[s] = {},
           \A s \in Schedulers : stamp'[s] \subseteq stamp[s]
    PROVE  CursorInv'
<1>1. \A s \in Schedulers :
        /\ \A c \in todo[s] : c.zone \in Zones
        /\ \A u \in stamp[s] : u.zone \in Zones /\ u.to \in Int
  BY DEF CursorInv, TypeOK, Copy
<1>2. \A c \in ListDue :
        /\ c.zone \in Zones
        /\ row[c.zone].status # "absent"
        /\ c.last = row[c.zone].last
        /\ \A d \in ListDue : d.zone = c.zone => d = c
  BY DEF ListDue, ZoneDue
<1>3. FreshCopies'
  BY <1>1, <1>2 DEF CursorInv, FreshCopies
<1>4. \A z \in Zones : row[z].last \in Int \cup {Never}
  BY DEF CursorInv, TypeOK, Row
<1>5. \A z, i : Covered(z, i) => Covered(z, i)'
  BY DEF Covered
<1>6. StoreMovesForward'
  <2>1. SUFFICES ASSUME NEW s \in Schedulers, NEW u \in stamp'[s]
                 PROVE  /\ row'[u.zone].status # "absent"
                        /\ u.to <= now'
                        /\ Forward(u)'
                        /\ \A c \in todo'[s] : c.zone # u.zone
                        /\ \A v \in stamp'[s] : v = u
    BY DEF StoreMovesForward
  <2>2. u \in stamp[s] /\ u.zone \in Zones /\ u.to \in Int
    BY <1>1
  <2>3. now \in Int
    BY DEF CursorInv, TypeOK
  <2>4. row'[u.zone].status # "absent" /\ u.to <= now'
    BY <2>2, <2>3 DEF CursorInv, StoreMovesForward
  <2>5. Forward(u)'
    BY <1>5, <2>2 DEF CursorInv, StoreMovesForward, Forward
  <2>6. todo'[s] \subseteq todo[s]
    BY <2>1
  <2>7. QED
    BY <2>2, <2>4, <2>5, <2>6 DEF CursorInv, StoreMovesForward
<1>7. \A z \in Zones : /\ row'[z].status = "absent" => row'[z].last = Never
                       /\ row'[z].last # Never => row'[z].last <= now'
  BY <1>4 DEF CursorInv, TypeOK
<1>8. QED
  BY <1>3, <1>6, <1>7 DEF CursorInv

LEMMA NextCursorInv ==
    ASSUME OneScheduler, CursorInv, [Next]_vars
    PROVE  CursorInv'
<1>1. TypeOK /\ TypeOK'
  BY NextTypeOK DEF CursorInv
<1>2. now \in Int
  BY <1>1 DEF TypeOK
<1>3. CASE Tick
  BY <1>1, <1>2, <1>3, QuietKeepsCursor DEF Tick
<1>4. ASSUME NEW z \in Zones, NEW p \in Plans, NEW i \in Intervals,
             CreateZone(z, p, i)
      PROVE  CursorInv'
  <2>1. row[z].last = Never
    BY <1>4 DEF CursorInv, CreateZone
  <2>2. \A y \in Zones : /\ row'[y].last = row[y].last
                         /\ row'[y].status = "absent" => row[y].status = "absent"
    BY <1>1, <1>4, <2>1 DEF CreateZone, TypeOK
  <2>3. /\ windows' = windows /\ now' = now
        /\ todo' = todo /\ stamp' = stamp
    BY <1>4 DEF CreateZone
  <2>4. QED
    BY <1>1, <1>2, <2>2, <2>3, QuietKeepsCursor
<1>5. ASSUME NEW z \in Zones, NEW p \in Plans, NEW i \in Intervals,
             NEW a \in BOOLEAN, UpdateZone(z, p, i, a)
      PROVE  CursorInv'
  <2>1. \A y \in Zones : /\ row'[y].last = row[y].last
                         /\ row'[y].status = "absent" => row[y].status = "absent"
    BY <1>1, <1>5 DEF UpdateZone, TypeOK, Row
  <2>2. /\ windows' = windows /\ now' = now
        /\ todo' = todo /\ stamp' = stamp
    BY <1>5 DEF UpdateZone
  <2>3. QED
    BY <1>1, <1>2, <2>1, <2>2, QuietKeepsCursor
<1>6. ASSUME NEW z \in Zones, DeleteZone(z) PROVE CursorInv'
  <2>1. \A y \in Zones : /\ row'[y].last = row[y].last
                         /\ row'[y].status = "absent" => row[y].status = "absent"
    BY <1>1, <1>6 DEF DeleteZone, TypeOK, Row
  <2>2. QED
    BY <1>1, <1>2, <1>6, <2>1, QuietKeepsCursor DEF DeleteZone
<1>7. ASSUME NEW t \in tasks, TaskSucceeds(t) \/ TaskArchived(t)
      PROVE  CursorInv'
  BY <1>1, <1>2, <1>7, QuietKeepsCursor DEF TaskSucceeds, TaskArchived
<1>8. ASSUME NEW s \in Schedulers, PassBegins(s) PROVE CursorInv'
  <2>1. todo'[s] = ListDue /\ stamp'[s] = {} /\ \A r \in Schedulers : r = s
    BY <1>1, <1>8, OneScheduler DEF PassBegins, Idle, TypeOK, OneScheduler
  <2>2. QED
    BY <1>1, <1>2, <1>8, <2>1, QuietKeepsCursor DEF PassBegins
<1>9. ASSUME NEW s \in Schedulers, NEW c \in todo[s], Schedule(s, c)
      PROVE  CursorInv'
  <2>1. /\ c.zone \in Zones /\ windows \subseteq windows'
        /\ now' = now /\ row' = row /\ \A r \in Schedulers : r = s
    BY <1>1, <1>9, OneScheduler, StartIsInt
       DEF Schedule, Copy, OneScheduler
  <2>2. todo'[s] = todo[s] \ {c} /\ stamp'[s] = {[zone |-> c.zone, to |-> now]}
    BY <1>1, <1>9 DEF Schedule, Drop, TypeOK
  <2>3. FreshCopies'
    BY <2>1, <2>2 DEF CursorInv, FreshCopies
  <2>4. ASSUME NEW u \in stamp'[s]
        PROVE  /\ row'[u.zone].status # "absent" /\ u.to <= now'
               /\ Forward(u)'
               /\ \A d \in todo'[s] : d.zone # u.zone
               /\ \A v \in stamp'[s] : v = u
    <3>1. u = [zone |-> c.zone, to |-> now]
      BY <2>2
    <3>2. /\ row[c.zone].status # "absent" /\ c.last = row[c.zone].last
          /\ \A d \in todo[s] : d.zone = c.zone => d = c
      BY DEF CursorInv, FreshCopies
    <3>3. Forward(u)'
      <4>1. SUFFICES ASSUME row[c.zone].last # Never
                     PROVE  /\ row[c.zone].last <= now
                            /\ \A i \in row[c.zone].last .. (now - 1) :
                                  Covered(c.zone, i)'
        BY <2>1, <3>1 DEF Forward
      <4>2. row[c.zone].last \in Int /\ row[c.zone].last <= now
        BY <1>1, <2>1, <4>1 DEF CursorInv, TypeOK, Row
      <4>3. WindowStart(c) = row[c.zone].last
        BY <3>2, <4>1 DEF WindowStart
      <4>4. [zone |-> c.zone, from |-> row[c.zone].last, to |-> now,
             first |-> c.last = Never] \in windows'
        BY <1>9, <4>3 DEF Schedule
      <4>5. QED
        BY <1>2, <4>2, <4>4 DEF Covered
    <3>4. QED
      BY <1>2, <2>1, <2>2, <3>1, <3>2, <3>3
  <2>5. StoreMovesForward'
    BY <2>1, <2>4 DEF StoreMovesForward
  <2>6. QED
    BY <1>1, <2>1, <2>3, <2>5 DEF CursorInv
<1>10. ASSUME NEW s \in Schedulers, NEW c \in todo[s],
              PassOver(s, c) \/ EnqueueFails(s, c)
       PROVE  CursorInv'
  <2>1. \A r \in Schedulers : todo'[r] \subseteq todo[r]
    BY <1>1, <1>10 DEF PassOver, EnqueueFails, Drop, TypeOK
  <2>2. QED
    BY <1>1, <1>2, <1>10, <2>1, QuietKeepsCursor DEF PassOver, EnqueueFails
<1>11. ASSUME NEW s \in Schedulers, NEW u \in stamp[s], Store(s, u)
       PROVE  CursorInv'
  <2>1. u.zone \in Zones /\ u.to \in Int
    BY <1>1 DEF TypeOK
  <2>2. \A y \in Zones : /\ row'[y].status = row[y].status
                         /\ y # u.zone => row'[y].last = row[y].last
    BY <1>1, <1>11 DEF Store, UpdateLastPulled, TypeOK, Row
  <2>3. row'[u.zone].last = u.to
    BY <1>1, <1>11, <2>1 DEF Store, UpdateLastPulled, TypeOK, Row
  <2>4. /\ row[u.zone].status # "absent" /\ u.to <= now
        /\ \A c \in todo[s] : c.zone # u.zone
    BY DEF CursorInv, StoreMovesForward
  <2>5. \A r \in Schedulers : r = s
    BY OneScheduler DEF OneScheduler
  <2>6. stamp'[s] = {} /\ todo' = todo /\ now' = now
    BY <1>1, <1>11 DEF Store, TypeOK
  <2>7. FreshCopies'
    <3>1. \A c \in todo[s] : c.zone \in Zones
      BY <1>1 DEF TypeOK, Copy
    <3>2. QED
      BY <2>2, <2>4, <2>5, <2>6, <3>1 DEF CursorInv, FreshCopies
  <2>8. StoreMovesForward'
    BY <2>5, <2>6 DEF StoreMovesForward
  <2>9. \A z \in Zones : /\ row'[z].status = "absent" => row'[z].last = Never
                         /\ row'[z].last # Never => row'[z].last <= now'
    BY <2>2, <2>3, <2>4, <2>6 DEF CursorInv
  <2>10. QED
    BY <1>1, <2>7, <2>8, <2>9 DEF CursorInv
<1>12. ASSUME NEW s \in Schedulers, NEW u \in stamp[s], StoreFails(s, u)
       PROVE  CursorInv'
  <2>1. \A r \in Schedulers : stamp'[r] \subseteq stamp[r]
    BY <1>1, <1>12 DEF StoreFails, TypeOK
  <2>2. QED
    BY <1>1, <1>2, <1>12, <2>1, QuietKeepsCursor DEF StoreFails
<1>13. ASSUME NEW s \in Schedulers, Crash(s) PROVE CursorInv'
  <2>1. \A r \in Schedulers : /\ stamp'[r] \subseteq stamp[r]
                              /\ todo'[r] \subseteq todo[r]
    BY <1>1, <1>13 DEF Crash, TypeOK
  <2>2. QED
    BY <1>1, <1>2, <1>13, <2>1, QuietKeepsCursor DEF Crash
<1>14. CASE UNCHANGED vars
  BY <1>1, <1>2, <1>14, QuietKeepsCursor DEF vars
<1>15. QED
  BY <1>3, <1>4, <1>5, <1>6, <1>7, <1>8, <1>9, <1>10, <1>11, <1>12,
     <1>13, <1>14 DEF Next, API, Queue, Pass

\* What one step does to the rows, the body of CursorNeverSkips.
LEMMA StepNeverSkips ==
    ASSUME OneScheduler, CursorInv, [Next]_vars,
           NEW z \in Zones, row[z].last # Never
    PROVE  /\ row'[z].last # Never
           /\ row[z].last <= row'[z].last
           /\ \A i \in row[z].last .. (row'[z].last - 1) : Covered(z, i)'
<1>1. TypeOK /\ row[z].last \in Int
  BY DEF CursorInv, TypeOK, Row
<1>2. CASE row'[z].last = row[z].last
  BY <1>1, <1>2
<1>3. CASE row'[z].last # row[z].last
  <2>1. PICK s \in Schedulers :
          \E u \in stamp[s] : Store(s, u) /\ u.zone = z
    <3>1. row' # row /\ row # row'
      BY <1>3
    <3>2. ASSUME NEW y \in Zones, NEW p \in Plans, NEW i \in Intervals,
                 CreateZone(y, p, i)
          PROVE  FALSE
      <4>1. row[y].status = "absent" /\ row[y].last = Never
        BY <3>2 DEF CreateZone, CursorInv
      <4>2. y # z
        BY <4>1
      <4>3. QED
        BY <1>1, <1>3, <3>2, <4>2 DEF CreateZone, TypeOK
    <3>3. ASSUME NEW y \in Zones, NEW p \in Plans, NEW i \in Intervals,
                 NEW a \in BOOLEAN, UpdateZone(y, p, i, a)
          PROVE  FALSE
      BY <1>1, <1>3, <3>3 DEF UpdateZone, TypeOK, Row
    <3>4. ASSUME NEW y \in Zones, DeleteZone(y) PROVE FALSE
      BY <1>1, <1>3, <3>4 DEF DeleteZone, TypeOK, Row
    <3>5. PICK s \in Schedulers : \E u \in stamp[s] : Store(s, u)
      BY <3>1, <3>2, <3>3, <3>4
         DEF Next, API, Queue, Pass, Tick, TaskSucceeds, TaskArchived,
             PassBegins, Schedule, PassOver, EnqueueFails, StoreFails, Crash,
             vars
    <3>6. PICK u \in stamp[s] : Store(s, u)
      BY <3>5
    <3>7. u.zone = z
      BY <1>1, <1>3, <3>6 DEF Store, UpdateLastPulled, TypeOK, Row
    <3>8. QED
      BY <3>6, <3>7
  <2> PICK u \in stamp[s] : Store(s, u) /\ u.zone = z
    BY <2>1
  <2>2. u.to \in Int /\ row'[z].last = u.to
    BY <1>1, <2>1 DEF Store, UpdateLastPulled, TypeOK, Row
  <2>3. Forward(u) /\ windows' = windows
    BY <2>1 DEF CursorInv, StoreMovesForward, Store
  <2>4. QED
    BY <2>1, <2>2, <2>3, NeverIsNoTime DEF Forward, Covered
<1>4. QED
  BY <1>2, <1>3

(***************************************************************************)
(* With one scheduler CursorNeverSkips holds for any number of zones:      *)
(* last_pulled_at only moves forward, over instants that are in the queue. *)
(***************************************************************************)
THEOREM CursorNeverSkipsHolds ==
    ASSUME OneScheduler
    PROVE  Spec => CursorNeverSkips
<1>1. CursorInv /\ [Next]_vars => CursorInv'
  BY NextCursorInv, OneScheduler
<1>2. CursorInv /\ [Next]_vars =>
        [\A z \in Zones : row[z].last # Never =>
           /\ row'[z].last # Never
           /\ row[z].last <= row'[z].last
           /\ \A i \in row[z].last .. (row'[z].last - 1) : Covered(z, i)']_vars
  BY StepNeverSkips, OneScheduler
<1>3. QED
  BY <1>1, <1>2, InitCursorInv, PTL DEF Spec, CursorNeverSkips

----------------------------------------------------------------------------
(***************************************************************************)
(* Windows of a zone with no lost store end before last_pulled_at, or      *)
(* before the end that is about to be stored.                              *)
(***************************************************************************)
Ended(w) ==
    \/ w.zone \in lost
    \/ row[w.zone].last # Never /\ w.to <= row[w.zone].last
    \/ \E s \in Schedulers : \E u \in stamp[s] : u.zone = w.zone /\ w.to <= u.to

OverlapInv == CursorInv /\ (\A w \in windows : Ended(w)) /\ NoOverlap

\* A step that enqueues nothing, takes no end that is to be stored away and
\* leaves last_pulled_at alone.
LEMMA QuietKeepsApart ==
    ASSUME OverlapInv, windows' = windows, lost \subseteq lost',
           \A z \in Zones : row'[z].last = row[z].last,
           \A s \in Schedulers : stamp[s] \subseteq stamp'[s]
    PROVE  (\A w \in windows' : Ended(w)') /\ NoOverlap'
<1>1. \A w \in windows : w.zone \in Zones
  BY DEF OverlapInv, CursorInv, TypeOK, Window
<1>2. \A w \in windows : Ended(w)'
  BY <1>1 DEF OverlapInv, Ended
<1>3. NoOverlap'
  BY DEF OverlapInv, NoOverlap
<1>4. QED
  BY <1>2, <1>3

\* Before a window is added every older one of the zone has ended.
LEMMA NewWindowIsApart ==
    ASSUME OneScheduler, OverlapInv, TypeOK',
           NEW s \in Schedulers, NEW c \in todo[s], Schedule(s, c)
    PROVE  (\A w \in windows' : Ended(w)') /\ NoOverlap'
<1> DEFINE new == [zone |-> c.zone, from |-> WindowStart(c), to |-> now,
                   first |-> c.last = Never]
<1>1. /\ TypeOK /\ now \in Int /\ c \in Copy /\ c.zone \in Zones
      /\ \A w \in windows : w \in Window
  BY DEF OverlapInv, CursorInv, TypeOK, Copy
<1>2. /\ windows' = windows \cup {new} /\ row' = row /\ lost' = lost
      /\ stamp[s] = {} /\ \A r \in Schedulers : r = s
  BY OneScheduler DEF Schedule, OneScheduler
<1>3. stamp'[s] = {[zone |-> c.zone, to |-> now]}
  BY <1>1 DEF Schedule, TypeOK
<1>4. WindowStart(c) \in Int /\ new.zone = c.zone /\ new.from = WindowStart(c) /\ new.to = now
  BY <1>1, StartIsInt DEF Schedule
<1> HIDE DEF new
<1>5. ASSUME NEW w \in windows, w.zone = c.zone, w.zone \notin lost
      PROVE  w.to <= new.from
  <2>1. row[c.zone].last # Never /\ w.to <= row[c.zone].last
    BY <1>2, <1>5 DEF OverlapInv, Ended
  <2>2. c.last = row[c.zone].last
    BY DEF OverlapInv, CursorInv, FreshCopies
  <2>3. QED
    BY <1>4, <2>1, <2>2 DEF WindowStart
<1>6. NoOverlap'
  <2>1. SUFFICES ASSUME NEW v \in windows', NEW w \in windows', v # w,
                        v.zone = w.zone, v.zone \notin lost
                 PROVE  v.to <= w.from \/ w.to <= v.from
    BY <1>2 DEF NoOverlap
  <2>2. CASE v \in windows /\ w \in windows
    BY <2>1, <2>2 DEF OverlapInv, NoOverlap
  <2>3. CASE v = new
    BY <1>2, <1>4, <1>5, <2>1, <2>3
  <2>4. CASE w = new
    BY <1>2, <1>4, <1>5, <2>1, <2>4
  <2>5. QED
    BY <1>2, <2>2, <2>3, <2>4
<1>7. ASSUME NEW w \in windows' PROVE Ended(w)'
  <2>1. CASE w = new
    <3>1. [zone |-> c.zone, to |-> now] \in stamp'[s]
      BY <1>3
    <3>2. w.zone = c.zone /\ w.to = now
      BY <1>4, <2>1
    <3>3. \E u \in stamp'[s] : u.zone = w.zone /\ w.to <= u.to
      BY <1>1, <3>1, <3>2
    <3>4. QED
      BY <3>3 DEF Ended
  <2>2. CASE w \in windows
    BY <1>2, <2>2 DEF OverlapInv, Ended
  <2>3. QED
    BY <1>2, <2>1, <2>2
<1>8. QED
  BY <1>6, <1>7

LEMMA NextOverlapInv ==
    ASSUME OneScheduler, OverlapInv, [Next]_vars
    PROVE  OverlapInv'
<1>1. CursorInv' /\ TypeOK /\ TypeOK'
  BY NextCursorInv, OneScheduler DEF OverlapInv, CursorInv
<1>2. SUFFICES (\A w \in windows' : Ended(w)') /\ NoOverlap'
  BY <1>1 DEF OverlapInv
<1>3. \A w \in windows : w.zone \in Zones /\ w.to \in Int
  BY <1>1 DEF TypeOK, Window
<1>4. ASSUME NEW z \in Zones,
             \/ \E p \in Plans, i \in Intervals :
                   \/ CreateZone(z, p, i)
                   \/ \E a \in BOOLEAN : UpdateZone(z, p, i, a)
             \/ DeleteZone(z)
      PROVE  (\A w \in windows' : Ended(w)') /\ NoOverlap'
  <2>1. /\ windows' = windows /\ lost' = lost /\ stamp' = stamp
        /\ \A y \in Zones : row'[y].last = row[y].last
    <3>1. CASE \E p \in Plans, i \in Intervals : CreateZone(z, p, i)
      BY <1>1, <3>1 DEF CreateZone, OverlapInv, CursorInv, TypeOK
    <3>2. CASE \E p \in Plans, i \in Intervals, a \in BOOLEAN : UpdateZone(z, p, i, a)
      BY <1>1, <3>2 DEF UpdateZone, TypeOK, Row
    <3>3. CASE DeleteZone(z)
      BY <1>1, <3>3 DEF DeleteZone, TypeOK, Row
    <3>4. QED
      BY <1>4, <3>1, <3>2, <3>3
  <2>2. QED
    BY <2>1, QuietKeepsApart
<1>5. CASE Tick \/ Queue \/ UNCHANGED vars
  BY <1>5, QuietKeepsApart DEF Tick, Queue, TaskSucceeds, TaskArchived, vars
<1>6. ASSUME NEW s \in Schedulers,
             \/ PassBegins(s)
             \/ \E c \in todo[s] : PassOver(s, c) \/ EnqueueFails(s, c)
      PROVE  (\A w \in windows' : Ended(w)') /\ NoOverlap'
  BY <1>6, QuietKeepsApart DEF PassBegins, PassOver, EnqueueFails
<1>7. ASSUME NEW s \in Schedulers, NEW c \in todo[s], Schedule(s, c)
      PROVE  (\A w \in windows' : Ended(w)') /\ NoOverlap'
  BY <1>1, <1>7, NewWindowIsApart, OneScheduler
<1>8. ASSUME NEW s \in Schedulers, NEW u \in stamp[s], Store(s, u)
      PROVE  (\A w \in windows' : Ended(w)') /\ NoOverlap'
  <2>1. u.zone \in Zones /\ u.to \in Int /\ windows' = windows /\ lost' = lost
    BY <1>1, <1>8 DEF TypeOK, Store
  <2>2. /\ row'[u.zone].last = u.to
        /\ \A y \in Zones \ {u.zone} : row'[y].last = row[y].last
    BY <1>1, <1>8, <2>1 DEF Store, UpdateLastPulled, TypeOK, Row
  <2>3. /\ Forward(u) /\ (\A v \in stamp[s] : v = u) /\ (\A r \in Schedulers : r = s)
    BY OneScheduler DEF OverlapInv, CursorInv, StoreMovesForward, OneScheduler
  <2>4. ASSUME NEW w \in windows PROVE Ended(w)'
    <3>1. CASE w.zone \in lost
      BY <2>1, <3>1 DEF Ended
    <3>2. CASE w.zone # u.zone /\ w.zone \notin lost
      BY <1>3, <2>1, <2>2, <2>3, <3>2 DEF OverlapInv, Ended
    <3>3. CASE w.zone = u.zone /\ w.zone \notin lost
      <4>1. CASE row[w.zone].last # Never /\ w.to <= row[w.zone].last
        <5>1. row[w.zone].last \in Int /\ row[w.zone].last <= u.to
          BY <1>1, <1>3, <2>3, <3>3, <4>1 DEF Forward, TypeOK, Row
        <5>2. QED
          BY <1>3, <2>1, <2>2, <3>3, <4>1, <5>1, NeverIsNoTime DEF Ended
      <4>2. CASE \E r \in Schedulers : \E v \in stamp[r] : v.zone = w.zone /\ w.to <= v.to
        <5>1. w.to <= u.to
          BY <2>3, <4>2
        <5>2. QED
          BY <2>1, <2>2, <3>3, <5>1, NeverIsNoTime DEF Ended
      <4>3. QED
        BY <3>3, <4>1, <4>2 DEF OverlapInv, Ended
    <3>4. QED
      BY <3>1, <3>2, <3>3
  <2>5. NoOverlap'
    BY <2>1 DEF OverlapInv, NoOverlap
  <2>6. QED
    BY <2>1, <2>4, <2>5
\* A store that is lost takes the zone out of what is claimed.
<1>9. ASSUME NEW s \in Schedulers, NEW U \in SUBSET stamp[s],
             \A u \in stamp[s] : u \in U,
             windows' = windows, row' = row, lost' = lost \cup {u.zone : u \in U}
      PROVE  (\A w \in windows' : Ended(w)') /\ NoOverlap'
  <2>1. \A r \in Schedulers : r = s
    BY OneScheduler DEF OneScheduler
  <2>2. ASSUME NEW w \in windows PROVE Ended(w)'
    BY <1>9, <2>1 DEF OverlapInv, Ended
  <2>3. NoOverlap'
    BY <1>9 DEF OverlapInv, NoOverlap
  <2>4. QED
    BY <1>9, <2>2, <2>3
<1>10. ASSUME NEW s \in Schedulers, NEW u \in stamp[s], StoreFails(s, u)
       PROVE  (\A w \in windows' : Ended(w)') /\ NoOverlap'
  <2>1. \A v \in stamp[s] : v \in {u}
    BY DEF OverlapInv, CursorInv, StoreMovesForward
  <2>2. /\ windows' = windows /\ row' = row
        /\ lost' = lost \cup {v.zone : v \in {u}}
    BY <1>10 DEF StoreFails
  <2>3. QED
    BY <1>9, <2>1, <2>2
<1>11. ASSUME NEW s \in Schedulers, Crash(s)
       PROVE  (\A w \in windows' : Ended(w)') /\ NoOverlap'
  <2>1. windows' = windows /\ row' = row /\ lost' = lost \cup {u.zone : u \in stamp[s]}
    BY <1>11 DEF Crash
  <2>2. QED
    BY <1>9, <2>1
<1>12. QED
  BY <1>4, <1>5, <1>6, <1>7, <1>8, <1>10, <1>11 DEF Next, API, Pass

(***************************************************************************)
(* With one scheduler the windows of a zone overlap only after a store of  *)
(* last_pulled_at was lost.                                                *)
(***************************************************************************)
THEOREM NoOverlapHolds ==
    ASSUME OneScheduler
    PROVE  Spec => []NoOverlap
<1>1. Init => OverlapInv
  BY InitCursorInv DEF Init, OverlapInv, NoOverlap
<1>2. OverlapInv /\ [Next]_vars => OverlapInv'
  BY NextOverlapInv, OneScheduler
<1>3. OverlapInv => NoOverlap
  BY DEF OverlapInv
<1>4. QED
  BY <1>1, <1>2, <1>3, PTL DEF Spec

----------------------------------------------------------------------------
(***************************************************************************)
(* A task is named after the start of a window that is in the history, no  *)
(* window is empty, a copied row is older than the clock, and the end that *)
(* is to be stored belongs to a window that starts where the row stands.   *)
(***************************************************************************)
NamedAfterWindow(id) == \E w \in windows : w.zone = id.zone /\ w.from = id.start

EndsWindow(u) ==
    \E w \in windows : /\ w.zone = u.zone /\ w.to = u.to
                       /\ row[u.zone].last \in {Never, w.from}

HandInv ==
    /\ OverlapInv
    /\ \A t \in tasks : NamedAfterWindow(t.id)
    /\ \A w \in windows : w.from < w.to
    /\ \A s \in Schedulers : \A c \in todo[s] : c.last # Never => c.last < now
    /\ \A s \in Schedulers : \A u \in stamp[s] : EndsWindow(u)

\* A copy of a row that is due is older than the clock.
LEMMA DueIsOlder ==
    ASSUME TypeOK, NEW c \in ListDue, c.last # Never
    PROVE  c.last < now
<1>1. PICK z \in Zones : ZoneDue(z) /\ c.last = row[z].last
  BY DEF ListDue
<1>2. row[z].last \in Int /\ now \in Int /\ row[z].interval \in Nat
  BY <1>1, IntervalIsNat DEF TypeOK, Row
<1>3. QED
  BY <1>1, <1>2 DEF ZoneDue

\* A window is not empty, and starts at last_pulled_at if there is one.
LEMMA NewWindow ==
    ASSUME HandInv, NEW s \in Schedulers, NEW c \in todo[s]
    PROVE  /\ WindowStart(c) < now
           /\ row[c.zone].last \in {Never, WindowStart(c)}
<1>1. c \in Copy /\ now \in Int
  BY DEF HandInv, OverlapInv, CursorInv, TypeOK
<1>2. c.last = row[c.zone].last
  BY DEF HandInv, OverlapInv, CursorInv, FreshCopies
<1>3. c.interval \in Nat /\ c.interval > 0
  BY <1>1, IntervalIsNat DEF Copy
<1>4. c.last # Never => c.last < now
  BY DEF HandInv
<1>5. QED
  BY <1>1, <1>2, <1>3, <1>4 DEF WindowStart

\* A step that enqueues nothing, leaves last_pulled_at alone and adds only
\* copies that are older than the clock.
LEMMA QuietKeepsHand ==
    ASSUME HandInv, OverlapInv', windows' = windows, now <= now',
           \A t \in tasks' : \E r \in tasks : r.id = t.id,
           \A z \in Zones : row'[z].last = row[z].last,
           \A s \in Schedulers : \A c \in todo'[s] :
              c \in todo[s] \/ (c.last # Never => c.last < now'),
           \A s \in Schedulers : stamp'[s] \subseteq stamp[s]
    PROVE  HandInv'
<1>1. now \in Int /\ now' \in Int
  BY DEF HandInv, OverlapInv, CursorInv, TypeOK
<1>2. \A t \in tasks' : NamedAfterWindow(t.id)'
  BY DEF HandInv, NamedAfterWindow
<1>3. ASSUME NEW s \in Schedulers, NEW c \in todo'[s], c.last # Never
      PROVE  c.last < now'
  <2>1. CASE c \in todo[s]
    <3>1. c.last \in Int /\ c.last < now
      BY <1>3, <2>1 DEF HandInv, OverlapInv, CursorInv, TypeOK, Copy
    <3>2. QED
      BY <1>1, <3>1
  <2>2. QED
    BY <1>3, <2>1
<1>4. ASSUME NEW s \in Schedulers, NEW u \in stamp'[s] PROVE EndsWindow(u)'
  <2>1. u \in stamp[s] /\ u.zone \in Zones
    BY DEF HandInv, OverlapInv, CursorInv, TypeOK
  <2>2. QED
    BY <2>1 DEF HandInv, EndsWindow
<1>5. QED
  BY <1>2, <1>3, <1>4 DEF HandInv

LEMMA NextHandInv ==
    ASSUME OneScheduler, HandInv, [Next]_vars
    PROVE  HandInv'
<1>1. OverlapInv' /\ TypeOK /\ TypeOK'
  BY NextOverlapInv, OneScheduler DEF HandInv, OverlapInv, CursorInv
<1>2. now \in Int
  BY <1>1 DEF TypeOK
<1>3. CASE Tick
  BY <1>1, <1>2, <1>3, QuietKeepsHand DEF Tick
<1>4. ASSUME NEW z \in Zones,
             \/ \E p \in Plans, i \in Intervals :
                   \/ CreateZone(z, p, i)
                   \/ \E a \in BOOLEAN : UpdateZone(z, p, i, a)
             \/ DeleteZone(z)
      PROVE  HandInv'
  <2>1. /\ UNCHANGED <<now, todo, stamp, tasks, windows>>
        /\ \A y \in Zones : row'[y].last = row[y].last
    <3>1. CASE \E p \in Plans, i \in Intervals : CreateZone(z, p, i)
      BY <1>1, <3>1 DEF CreateZone, HandInv, OverlapInv, CursorInv, TypeOK
    <3>2. CASE \E p \in Plans, i \in Intervals, a \in BOOLEAN : UpdateZone(z, p, i, a)
      BY <1>1, <3>2 DEF UpdateZone, TypeOK, Row
    <3>3. CASE DeleteZone(z)
      BY <1>1, <3>3 DEF DeleteZone, TypeOK, Row
    <3>4. QED
      BY <1>4, <3>1, <3>2, <3>3
  <2>2. QED
    BY <1>1, <1>2, <2>1, QuietKeepsHand
<1>5. ASSUME NEW t \in tasks, TaskSucceeds(t) \/ TaskArchived(t)
      PROVE  HandInv'
  <2>1. \A r \in tasks' : \E q \in tasks : q.id = r.id
    BY <1>1, <1>5 DEF TaskSucceeds, TaskArchived, TypeOK, Task
  <2>2. QED
    BY <1>1, <1>2, <1>5, <2>1, QuietKeepsHand DEF TaskSucceeds, TaskArchived
<1>6. ASSUME NEW s \in Schedulers, PassBegins(s) PROVE HandInv'
  <2>1. \A r \in Schedulers : \A c \in todo'[r] : c \in todo[r] \/ c \in ListDue
    BY <1>1, <1>6 DEF PassBegins, TypeOK
  <2>2. \A c \in ListDue : c.last # Never => c.last < now
    BY <1>1, DueIsOlder
  <2>3. QED
    BY <1>1, <1>2, <1>6, <2>1, <2>2, QuietKeepsHand DEF PassBegins
<1>7. ASSUME NEW s \in Schedulers, NEW c \in todo[s], Schedule(s, c)
      PROVE  HandInv'
  <2> DEFINE new == [zone |-> c.zone, from |-> WindowStart(c), to |-> now,
                     first |-> c.last = Never]
  <2>1. /\ windows' = windows \cup {new} /\ row' = row /\ now' = now
        /\ tasks' = tasks \cup {[id |-> IDOf(c), from |-> WindowStart(c), to |-> now,
                                 state |-> "queued"]}
    BY <1>7 DEF Schedule, Enqueue
  <2>2. /\ new.zone = c.zone /\ new.from = WindowStart(c) /\ new.to = now
        /\ IDOf(c).zone = c.zone /\ IDOf(c).start = WindowStart(c)
    BY DEF IDOf
  <2>3. new.from < new.to /\ row[c.zone].last \in {Never, new.from}
    BY <2>2, NewWindow
  <2> HIDE DEF new
  <2>4. \A t \in tasks' : NamedAfterWindow(t.id)'
    <3>1. SUFFICES ASSUME NEW t \in tasks' PROVE NamedAfterWindow(t.id)'
      OBVIOUS
    <3>2. CASE t \in tasks
      BY <2>1, <3>2 DEF HandInv, NamedAfterWindow
    <3>3. CASE t.id = IDOf(c)
      BY <2>1, <2>2, <3>3 DEF NamedAfterWindow
    <3>4. QED
      BY <2>1, <3>2, <3>3
  <2>5. \A w \in windows' : w.from < w.to
    BY <2>1, <2>3 DEF HandInv
  <2>6. \A r \in Schedulers : todo'[r] \subseteq todo[r]
    BY <1>1, <1>7 DEF Schedule, Drop, TypeOK
  <2>7. ASSUME NEW r \in Schedulers, NEW u \in stamp'[r] PROVE EndsWindow(u)'
    <3>1. u.zone = c.zone /\ u.to = now
      <4>1. r = s
        BY OneScheduler DEF OneScheduler
      <4>2. stamp'[s] = {[zone |-> c.zone, to |-> now]}
        BY <1>1, <1>7 DEF Schedule, TypeOK
      <4>3. QED
        BY <4>1, <4>2
    <3>2. QED
      BY <2>1, <2>2, <2>3, <3>1 DEF EndsWindow
  <2>8. QED
    BY <1>1, <2>1, <2>4, <2>5, <2>6, <2>7 DEF HandInv
<1>8. ASSUME NEW s \in Schedulers, NEW c \in todo[s],
             PassOver(s, c) \/ EnqueueFails(s, c)
      PROVE  HandInv'
  <2>1. \A r \in Schedulers : todo'[r] \subseteq todo[r]
    BY <1>1, <1>8 DEF PassOver, EnqueueFails, Drop, TypeOK
  <2>2. QED
    BY <1>1, <1>2, <1>8, <2>1, QuietKeepsHand DEF PassOver, EnqueueFails
<1>9. ASSUME NEW s \in Schedulers, NEW u \in stamp[s], Store(s, u)
      PROVE  HandInv'
  <2>1. \A r \in Schedulers : stamp'[r] = {}
    BY <1>1, <1>9, OneScheduler DEF Store, TypeOK, OneScheduler
  <2>2. UNCHANGED <<now, todo, tasks, windows>>
    BY <1>9 DEF Store
  <2>3. QED
    BY <1>1, <2>1, <2>2 DEF HandInv, NamedAfterWindow
<1>10. ASSUME NEW s \in Schedulers, NEW u \in stamp[s], StoreFails(s, u)
       PROVE  HandInv'
  <2>1. \A r \in Schedulers : stamp'[r] \subseteq stamp[r]
    BY <1>1, <1>10 DEF StoreFails, TypeOK
  <2>2. QED
    BY <1>1, <1>2, <1>10, <2>1, QuietKeepsHand DEF StoreFails
<1>11. ASSUME NEW s \in Schedulers, Crash(s) PROVE HandInv'
  <2>1. \A r \in Schedulers : /\ stamp'[r] \subseteq stamp[r]
                              /\ todo'[r] \subseteq todo[r]
    BY <1>1, <1>11 DEF Crash, TypeOK
  <2>2. QED
    BY <1>1, <1>2, <1>11, <2>1, QuietKeepsHand DEF Crash
<1>12. CASE UNCHANGED vars
  BY <1>1, <1>2, <1>12, QuietKeepsHand DEF vars
<1>13. QED
  BY <1>3, <1>4, <1>5, <1>6, <1>7, <1>8, <1>9, <1>10, <1>11, <1>12
     DEF Next, API, Queue, Pass

LEMMA HandHolds == ASSUME OneScheduler PROVE Spec => []HandInv
<1>1. Init => HandInv
  BY InitCursorInv DEF Init, HandInv, OverlapInv, NoOverlap
<1>2. HandInv /\ [Next]_vars => HandInv'
  BY NextHandInv, OneScheduler
<1>3. QED
  BY <1>1, <1>2, PTL DEF Spec

\* The window of the task that exists has ended; a row that stands beyond it
\* asks for a later start.
LEMMA LossIsNeeded ==
    ASSUME OneScheduler, HandInv, NEW s \in Schedulers, NEW c \in todo[s],
           stamp[s] = {}, Conflict(IDOf(c)), c.zone \notin lost
    PROVE  FALSE
<1>1. PICK w \in windows : w.zone = c.zone /\ w.from = WindowStart(c)
  <2>1. PICK t \in tasks : t.id = IDOf(c)
    BY DEF Conflict
  <2>2. NamedAfterWindow(IDOf(c))
    BY <2>1 DEF HandInv
  <2>3. QED
    BY <2>2 DEF NamedAfterWindow, IDOf
<1>2. w.from \in Int /\ w.to \in Int /\ w.from < w.to
  BY DEF HandInv, OverlapInv, CursorInv, TypeOK, Window
<1>3. row[c.zone].last # Never /\ w.to <= row[c.zone].last
  <2>1. \A r \in Schedulers : stamp[r] = {}
    BY OneScheduler DEF OneScheduler
  <2>2. Ended(w)
    BY DEF HandInv, OverlapInv
  <2>3. QED
    BY <1>1, <2>1, <2>2 DEF Ended
<1>4. c.last = row[c.zone].last
  BY DEF HandInv, OverlapInv, CursorInv, FreshCopies
<1>5. w.from = c.last /\ c.last \in Int
  BY <1>1, <1>2, <1>3, <1>4 DEF WindowStart
<1>6. QED
  BY <1>2, <1>3, <1>4, <1>5

(***************************************************************************)
(* With one scheduler the identifier of a task holds back only a window    *)
(* that was enqueued already, and whose end was lost.                      *)
(***************************************************************************)
THEOREM ConflictNeedsLossHolds ==
    ASSUME OneScheduler
    PROVE  Spec => []ConflictNeedsLoss
<1>1. HandInv => ConflictNeedsLoss
  BY LossIsNeeded, OneScheduler DEF ConflictNeedsLoss
<1>2. QED
  BY <1>1, HandHolds, OneScheduler, PTL

----------------------------------------------------------------------------
(***************************************************************************)
(* The refinement.  Schedule is Offer, Store is Commit, and no other step  *)
(* is seen by the cursor.                                                  *)
(***************************************************************************)
LEMMA InitCommits == Init => Cursor!Init
<1>1. SUFFICES ASSUME Init PROVE Cursor!Init
  OBVIOUS
<1>2. PICK i \in Intervals, p \in Plans :
        row = [z \in Zones |-> [status |-> "absent", plan |-> p,
                 active |-> TRUE, interval |-> i, last |-> Never]]
  BY <1>1 DEF Init
<1>3. QED
  BY <1>1, <1>2 DEF Init, Cursor!Init

LEMMA StepCommits ==
    ASSUME OneScheduler, HandInv, [Next]_vars
    PROVE  [Cursor!Next]_(Cursor!vars)
<1> DEFINE last == [z \in Zones |-> row[z].last]
<1>1. TypeOK
  BY DEF HandInv, OverlapInv, CursorInv
<1>2. ASSUME windows' = windows, \A z \in Zones : row'[z].last = row[z].last
      PROVE  UNCHANGED Cursor!vars
  BY <1>2 DEF Cursor!vars
<1>3. ASSUME NEW z \in Zones,
             \/ \E p \in Plans, i \in Intervals :
                   \/ CreateZone(z, p, i)
                   \/ \E a \in BOOLEAN : UpdateZone(z, p, i, a)
             \/ DeleteZone(z)
      PROVE  UNCHANGED Cursor!vars
  <2>1. windows' = windows
    BY <1>3 DEF CreateZone, UpdateZone, DeleteZone
  <2>2. \A y \in Zones : row'[y].last = row[y].last
    <3>1. CASE \E p \in Plans, i \in Intervals : CreateZone(z, p, i)
      BY <1>1, <3>1 DEF CreateZone, HandInv, OverlapInv, CursorInv, TypeOK
    <3>2. CASE \E p \in Plans, i \in Intervals, a \in BOOLEAN : UpdateZone(z, p, i, a)
      BY <1>1, <3>2 DEF UpdateZone, TypeOK, Row
    <3>3. CASE DeleteZone(z)
      BY <1>1, <3>3 DEF DeleteZone, TypeOK, Row
    <3>4. QED
      BY <1>3, <3>1, <3>2, <3>3
  <2>3. QED
    BY <1>2, <2>1, <2>2
<1>4. CASE Tick \/ Queue \/ UNCHANGED vars
  BY <1>2, <1>4 DEF Tick, Queue, TaskSucceeds, TaskArchived, vars
<1>5. ASSUME NEW s \in Schedulers,
             \/ PassBegins(s)
             \/ \E c \in todo[s] : PassOver(s, c) \/ EnqueueFails(s, c)
             \/ \E u \in stamp[s] : StoreFails(s, u)
             \/ Crash(s)
      PROVE  UNCHANGED Cursor!vars
  BY <1>2, <1>5 DEF PassBegins, PassOver, EnqueueFails, StoreFails, Crash
<1>6. ASSUME NEW s \in Schedulers, NEW c \in todo[s], Schedule(s, c)
      PROVE  Cursor!Next
  <2> DEFINE new == [zone |-> c.zone, from |-> WindowStart(c), to |-> now,
                     first |-> c.last = Never]
  <2>1. windows' = windows \cup {new} /\ row' = row /\ c.zone \in Zones
    BY <1>1, <1>6 DEF Schedule, TypeOK, Copy
  <2>2. new.zone = c.zone /\ new.from = WindowStart(c) /\ new.to = now
    OBVIOUS
  <2> HIDE DEF new
  <2>3. new.from < new.to /\ row[c.zone].last \in {Never, new.from}
    BY <2>2, NewWindow
  <2>4. Cursor!Continues(c.zone, new)
    BY <2>1, <2>2, <2>3 DEF Cursor!Continues
  <2>5. Cursor!Offer(c.zone)
    BY <2>1, <2>3, <2>4 DEF Cursor!Offer
  <2>6. QED
    BY <2>1, <2>5 DEF Cursor!Next
<1>7. ASSUME NEW s \in Schedulers, NEW u \in stamp[s], Store(s, u)
      PROVE  Cursor!Next
  <2>1. u.zone \in Zones /\ windows' = windows
    BY <1>1, <1>7 DEF TypeOK, Store
  <2>2. PICK w \in windows : /\ w.zone = u.zone /\ w.to = u.to
                             /\ row[u.zone].last \in {Never, w.from}
    BY DEF HandInv, EndsWindow
  <2>3. Cursor!Continues(u.zone, w)
    BY <2>1, <2>2 DEF Cursor!Continues
  <2>4. \A y \in Zones : row'[y].last = IF y = u.zone THEN w.to ELSE row[y].last
    BY <1>1, <1>7, <2>1, <2>2 DEF Store, UpdateLastPulled, TypeOK, Row
  <2>5. [y \in Zones |-> row'[y].last] = [last EXCEPT ![u.zone] = w.to]
    BY <2>1, <2>4
  <2>6. Cursor!Commit(u.zone)
    BY <2>1, <2>3, <2>5 DEF Cursor!Commit
  <2>7. QED
    BY <2>1, <2>6 DEF Cursor!Next
<1>8. QED
  BY <1>3, <1>4, <1>5, <1>6, <1>7 DEF Next, API, Pass

(***************************************************************************)
(* With one scheduler the rows and the windows implement a cursor that is  *)
(* committed after the work was handed on, for any number of zones.        *)
(***************************************************************************)
THEOREM CommitsHolds ==
    ASSUME OneScheduler
    PROVE  Spec => CommitsWhatItOffered
<1>1. HandInv /\ [Next]_vars => [Cursor!Next]_(Cursor!vars)
  BY StepCommits, OneScheduler
<1>2. QED
  BY <1>1, InitCommits, HandHolds, OneScheduler, PTL
     DEF Spec, CommitsWhatItOffered, Cursor!Spec
===========================================================================
