------------------------- MODULE InstantLogs_proofs -------------------------
(***************************************************************************)
(* Theorems about the instant-log daemon, for any zones, any number of     *)
(* streams of a zone at a time, and any sizes of channel and batch.        *)
(***************************************************************************)
EXTENDS InstantLogs, TLAPS

USE NoneIsNoStream, Sizes

----------------------------------------------------------------------------
(***************************************************************************)
(* The inductive invariant.                                                *)
(***************************************************************************)
\* A stream without a session has nothing in hand, and neither has one whose
\* last upload leads to the next connection, once that upload has ended.
Tidy(r) ==
    /\ r.pc = "stream" => r.buffer < Batch
    /\ r.pc \in {"connect", "backoff"} =>
          r.reader = "closed" /\ r.channel = 0 /\ r.buffer = 0
    /\ r.pc = "upload" /\ r.next = "backoff" => r.reader = "closed" /\ r.channel = 0

DaemonInv == TypeOK /\ (\A s \in Streams : Tidy(st[s])) /\ OneStream

LEMMA OffTyped == Off \in Stream /\ Tidy(Off)
  BY DEF Off, Stream, Tidy

LEMMA InvInit == Init => DaemonInv
  <1> SUFFICES ASSUME Init PROVE DaemonInv
    OBVIOUS
  <1>1. \A s \in Streams : st[s] = Off
    BY DEF Init
  <1>2. TypeOK
    BY OffTyped DEF Init, TypeOK
  <1>3. \A s \in Streams : Tidy(st[s])
    BY <1>1, OffTyped
  <1>4. OneStream
    BY <1>1 DEF OneStream, Off
  <1> QED
    BY <1>2, <1>3, <1>4 DEF DaemonInv

----------------------------------------------------------------------------
(***************************************************************************)
(* The steps of one stream and its reader.                                 *)
(***************************************************************************)
\* A stream that goes on, cancelled or not as before, or ends.
LEMMA OneMoves ==
  ASSUME DaemonInv, NEW s \in Streams, NEW r \in Stream, Tidy(r),
         st' = [st EXCEPT ![s] = r], UNCHANGED Others,
         r.pc # "off" => st[s].pc # "off" /\ r.cancel = st[s].cancel
  PROVE  DaemonInv'
  <1>1. UNCHANGED <<wanted, process, manager, listed, locked, streams>>
    BY DEF Others
  <1>2. /\ st' \in [Streams -> Stream] /\ st'[s] = r
        /\ \A o \in Streams \ {s} : st'[o] = st[o]
    BY DEF DaemonInv, TypeOK
  <1>3. TypeOK'
    BY <1>1, <1>2 DEF DaemonInv, TypeOK
  <1>4. \A o \in Streams : Tidy(st'[o])
    BY <1>2 DEF DaemonInv
  <1>5. OneStream'
    BY <1>1, <1>2 DEF DaemonInv, OneStream
  <1> QED
    BY <1>3, <1>4, <1>5 DEF DaemonInv, Tidy

\* What is known of the stream that moves.
LEMMA Before ==
  ASSUME DaemonInv, NEW s \in Streams
  PROVE  st \in [Streams -> Stream] /\ st[s] \in Stream /\ Tidy(st[s])
  BY DEF DaemonInv, TypeOK

LEMMA GoesInv ==
  ASSUME DaemonInv, NEW s \in Streams, NEW pc \in {"connect", "stream", "backoff", "cleanup"},
         Goes(s, pc), UNCHANGED Others, st[s].pc # "off",
         pc = "stream" => st[s].buffer < Batch,
         pc \in {"connect", "backoff"} =>
            st[s].reader = "closed" /\ st[s].channel = 0 /\ st[s].buffer = 0
  PROVE  DaemonInv'
  <1> DEFINE r == [st[s] EXCEPT !.pc = pc]
  <1>1. /\ r \in Stream /\ Tidy(r) /\ r.cancel = st[s].cancel
    BY Before DEF Stream, Tidy
  <1>2. st' = [st EXCEPT ![s] = r]
    BY Before DEF Goes
  <1> HIDE DEF r
  <1> QED
    BY <1>1, <1>2, OneMoves

LEMMA FlushInv ==
  ASSUME DaemonInv, NEW s \in Streams, NEW next \in {"stream", "backoff", "cleanup"},
         Flush(s, next), UNCHANGED Others, st[s].pc = "stream",
         next = "backoff" => st[s].reader = "closed" /\ st[s].channel = 0
  PROVE  DaemonInv'
  <1>1. CASE st[s].buffer = 0
    <2>1. Goes(s, next)
      BY <1>1 DEF Flush
    <2> QED
      BY <1>1, <2>1, GoesInv
  <1>2. CASE st[s].buffer # 0
    <2> DEFINE r == [st[s] EXCEPT !.pc = "upload", !.next = next]
    <2>1. /\ r \in Stream /\ Tidy(r) /\ r.cancel = st[s].cancel
      BY Before DEF Stream, Tidy
    <2>2. st' = [st EXCEPT ![s] = r]
      BY <1>2, Before DEF Flush
    <2> HIDE DEF r
    <2> QED
      BY <2>1, <2>2, OneMoves
  <1> QED
    BY <1>1, <1>2

\* The row of a stream whose upload has ended.
LEMMA UploadedTyped ==
  ASSUME NEW t \in Stream, Tidy(t), t.pc = "upload"
  PROVE  LET r == [t EXCEPT !.pc = t.next, !.next = "stream", !.buffer = 0]
         IN  r \in Stream /\ Tidy(r) /\ r.cancel = t.cancel
  <1> DEFINE a == [t EXCEPT !.buffer = 0]
             b == [a EXCEPT !.pc = t.next]
             r == [b EXCEPT !.next = "stream"]
  <1>1. 0 \in 0 .. Batch /\ 0 < Batch
    OBVIOUS
  <1>2. a \in Stream /\ a.buffer = 0 /\ a.reader = t.reader /\ a.channel = t.channel
    BY <1>1 DEF Stream
  <1>3. a.cancel = t.cancel /\ t.next \in {"stream", "backoff", "cleanup"}
    BY DEF Stream
  <1> HIDE DEF a
  <1>4. /\ b \in Stream /\ b.pc = t.next /\ b.buffer = 0
        /\ b.reader = t.reader /\ b.channel = t.channel /\ b.cancel = t.cancel
    BY <1>2, <1>3 DEF Stream
  <1> HIDE DEF b
  <1>5. /\ r \in Stream /\ r.pc = t.next /\ r.buffer = 0
        /\ r.reader = t.reader /\ r.channel = t.channel /\ r.cancel = t.cancel
    BY <1>4 DEF Stream
  <1>6. r = [t EXCEPT !.pc = t.next, !.next = "stream", !.buffer = 0]
    BY DEF a, b
  <1> HIDE DEF r
  <1>7. Tidy(r)
    BY <1>1, <1>3, <1>5 DEF Tidy
  <1> QED
    BY <1>5, <1>6, <1>7

LEMMA StreamInv ==
  ASSUME DaemonInv, NEW s \in Streams, StreamStep(s)
  PROVE  DaemonInv'
  <1>0. st \in [Streams -> Stream] /\ st[s] \in Stream /\ Tidy(st[s])
    BY Before
  <1>1. CASE Connect(s)
    <2>1. CASE Goes(s, "backoff")
      BY <1>0, <1>1, <2>1, GoesInv DEF Connect, Tidy
    <2>2. CASE st' = [st EXCEPT ![s].pc = "stream", ![s].reader = "top"]
      <3> DEFINE r == [st[s] EXCEPT !.pc = "stream", !.reader = "top"]
      <3>1. r \in Stream /\ Tidy(r) /\ r.cancel = st[s].cancel /\ st[s].pc # "off"
        <4>1. st[s].pc = "connect" /\ st[s].buffer = 0 /\ 0 < Batch
          BY <1>0, <1>1 DEF Connect, Tidy
        <4>2. r \in Stream /\ r.pc = "stream" /\ r.buffer = 0 /\ r.cancel = st[s].cancel
          BY <1>0, <4>1 DEF Stream
        <4> QED
          BY <4>1, <4>2 DEF Tidy
      <3>2. st' = [st EXCEPT ![s] = r]
        BY <1>0, <2>2
      <3> HIDE DEF r
      <3> QED
        BY <1>1, <3>1, <3>2, OneMoves DEF Connect
    <2> QED
      BY <1>1, <2>1, <2>2 DEF Connect
  <1>2. CASE Retry(s)
    BY <1>0, <1>2, GoesInv DEF Retry, Tidy
  <1>3. CASE GivesUp(s)
    BY <1>0, <1>3, GoesInv DEF GivesUp
  <1>4. CASE Take(s)
    <2> DEFINE n == st[s].buffer + 1
               r == [st[s] EXCEPT !.channel = st[s].channel - 1, !.buffer = n,
                        !.pc = IF n >= Batch THEN "upload" ELSE st[s].pc,
                        !.next = "stream"]
    <2>1. r \in Stream /\ Tidy(r) /\ r.cancel = st[s].cancel /\ st[s].pc # "off"
      BY <1>0, <1>4 DEF Take, Stream, Tidy
    <2>2. st' = [st EXCEPT ![s] = r]
      BY <1>0, <1>4 DEF Take
    <2> HIDE DEF r
    <2> QED
      BY <1>4, <2>1, <2>2, OneMoves DEF Take
  <1>5. CASE UploadTick(s)
    BY <1>5, FlushInv DEF UploadTick
  <1>6. CASE Closed(s)
    BY <1>6, FlushInv DEF Closed
  <1>7. CASE SessionCancelled(s)
    BY <1>7, FlushInv DEF SessionCancelled
  <1>8. CASE UploadEnds(s)
    <2> DEFINE r == [st[s] EXCEPT !.pc = st[s].next, !.next = "stream", !.buffer = 0]
    <2>1. r \in Stream /\ Tidy(r) /\ r.cancel = st[s].cancel /\ st[s].pc # "off"
      BY <1>0, <1>8, UploadedTyped DEF UploadEnds
    <2>2. st' = [st EXCEPT ![s] = r]
      BY <1>0, <1>8 DEF UploadEnds
    <2> HIDE DEF r
    <2> QED
      BY <1>8, <2>1, <2>2, OneMoves DEF UploadEnds
  <1>9. CASE Cleanup(s)
    <2>1. Off.pc = "off"
      BY DEF Off
    <2> QED
      BY <1>9, <2>1, OffTyped, OneMoves DEF Cleanup
  <1> QED
    BY <1>1, <1>2, <1>3, <1>4, <1>5, <1>6, <1>7, <1>8, <1>9 DEF StreamStep

\* A reader at work belongs to a session, and moves nothing else.
LEMMA ReaderInv ==
  ASSUME DaemonInv, NEW s \in Streams, ReaderStep(s)
  PROVE  DaemonInv'
  <1>0. st \in [Streams -> Stream] /\ st[s] \in Stream /\ Tidy(st[s])
    BY Before
  <1>1. ASSUME NEW at \in {"top", "read", "send", "closed"}, NEW n \in 0 .. Capacity,
               st[s].reader # "closed", UNCHANGED Others,
               st' = [st EXCEPT ![s] = [st[s] EXCEPT !.reader = at, !.channel = n]]
        PROVE  DaemonInv'
    <2> DEFINE r == [st[s] EXCEPT !.reader = at, !.channel = n]
    <2>1. r \in Stream /\ Tidy(r) /\ r.cancel = st[s].cancel /\ r.pc = st[s].pc
      BY <1>0, <1>1 DEF Stream, Tidy
    <2> HIDE DEF r
    <2>2. st' = [st EXCEPT ![s] = r]
      BY <1>1 DEF r
    <2> QED
      BY <1>1, <2>1, <2>2, OneMoves
  <1>2. st[s].channel \in 0 .. Capacity
    BY <1>0 DEF Stream
  <1>3. ASSUME NEW at \in {"top", "read", "send", "closed"},
               st[s].reader # "closed", UNCHANGED Others,
               st' = [st EXCEPT ![s].reader = at]
        PROVE  DaemonInv'
    <2>1. st' = [st EXCEPT ![s] = [st[s] EXCEPT !.reader = at, !.channel = st[s].channel]]
      BY <1>0, <1>3 DEF Stream
    <2> QED
      BY <1>1, <1>2, <1>3, <2>1
  <1>4. CASE ReaderLooks(s)
    BY <1>3, <1>4 DEF ReaderLooks
  <1>5. CASE ReaderReceives(s)
    BY <1>3, <1>5 DEF ReaderReceives
  <1>6. CASE ReaderFails(s)
    BY <1>3, <1>6 DEF ReaderFails
  <1>7. CASE ReaderSends(s)
    <2>1. st[s].channel + 1 \in 0 .. Capacity
      BY <1>2, <1>7 DEF ReaderSends
    <2>2. st' = [st EXCEPT ![s] = [st[s] EXCEPT !.reader = "top",
                                                !.channel = st[s].channel + 1]]
      BY <1>0, <1>7 DEF ReaderSends
    <2> QED
      BY <1>1, <1>7, <2>1, <2>2 DEF ReaderSends
  <1> QED
    BY <1>4, <1>5, <1>6, <1>7 DEF ReaderStep

----------------------------------------------------------------------------
(***************************************************************************)
(* The manager.                                                            *)
(***************************************************************************)
\* Streams that are only cancelled keep all they have.
LEMMA CancelTyped ==
  ASSUME DaemonInv, NEW s \in Streams, NEW c \in BOOLEAN
  PROVE  LET r == [st[s] EXCEPT !.cancel = c]
         IN  r \in Stream /\ Tidy(r) /\ r.pc = st[s].pc /\ r.cancel = c
  BY Before DEF Stream, Tidy

LEMMA ZoneOf ==
  ASSUME NEW z \in Zones, NEW s \in {z} \X Runs
  PROVE  s \in Streams /\ s[1] = z /\ s # None
  BY DEF Streams

LEMMA SyncInv ==
  ASSUME DaemonInv, SyncStreams
  PROVE  DaemonInv'
  <1> DEFINE started == {NextRun(z) : z \in Added}
             stopped == {streams[z] : z \in Removed}
  <1>0. Added \subseteq Zones /\ Removed \subseteq Zones
    BY DEF Added, Removed, DaemonInv, TypeOK
  <1>1. ASSUME NEW z \in Added
        PROVE  NextRun(z) \in {z} \X Runs /\ NextRun(z) \in Streams /\ NextRun(z)[1] = z
    <2>1. NextRun(z) \in {z} \X Runs
      BY <1>1 DEF SyncStreams, NextRun
    <2> QED
      BY <1>0, <2>1, ZoneOf
  <1>2. streams' \in [Zones -> Streams \cup {None}]
    BY <1>0, <1>1 DEF SyncStreams, DaemonInv, TypeOK
  <1>3. ASSUME NEW s \in Streams, s \in started
        PROVE  st'[s] = [Off EXCEPT !.pc = "connect"] /\ streams'[s[1]] = s
    <2>1. PICK z \in Added : s = NextRun(z)
      BY <1>3
    <2>2. s[1] = z /\ z \in Zones
      BY <1>0, <1>1, <2>1
    <2>3. streams'[z] = NextRun(z)
      BY <2>1, <2>2 DEF SyncStreams
    <2> QED
      BY <1>3, <2>1, <2>2, <2>3 DEF SyncStreams
  <1>4. ASSUME NEW s \in Streams, s \notin started
        PROVE  st'[s] = [st[s] EXCEPT !.cancel = st[s].cancel \/ s \in stopped]
    BY <1>4 DEF SyncStreams
  <1> DEFINE New == [Off EXCEPT !.pc = "connect"]
  <1>5. New \in Stream /\ Tidy(New)
    BY OffTyped DEF Off, Stream, Tidy
  <1> HIDE DEF started, stopped, New
  <1>6. ASSUME NEW s \in Streams PROVE st'[s] \in Stream /\ Tidy(st'[s])
    <2>1. CASE s \in started
      BY <1>3, <1>5, <2>1 DEF New
    <2>2. CASE s \notin started
      <3>1. (st[s].cancel \/ s \in stopped) \in BOOLEAN
        BY DEF DaemonInv, TypeOK, Stream
      <3> QED
        BY <1>4, <2>2, <3>1, CancelTyped, ZenonT(60)
    <2> QED
      BY <2>1, <2>2
  <1>7. st' \in [Streams -> Stream]
    <2>1. st' = [s \in Streams |-> st'[s]]
      BY DEF SyncStreams
    <2> QED
      BY <1>6, <2>1
  <1>8. TypeOK'
    BY <1>2, <1>7 DEF SyncStreams, DaemonInv, TypeOK
  <1>9. ASSUME NEW s \in Streams, st'[s].pc # "off", ~st'[s].cancel
        PROVE  streams'[s[1]] = s
    <2>1. CASE s \in started
      BY <1>3, <2>1
    <2>2. CASE s \notin started
      <3>1. (st[s].cancel \/ s \in stopped) \in BOOLEAN
        BY DEF DaemonInv, TypeOK, Stream
      <3>2. st[s].pc # "off" /\ ~st[s].cancel /\ s \notin stopped
        BY <1>4, <1>9, <2>2, <3>1, CancelTyped
      <3>3. streams[s[1]] = s /\ s[1] \in Zones /\ s # None
        BY <3>2 DEF DaemonInv, OneStream, Streams
      <3>4. s[1] \notin Removed /\ s[1] \notin Added
        BY <3>2, <3>3 DEF stopped, Added
      <3> QED
        BY <3>3, <3>4 DEF SyncStreams
    <2> QED
      BY <2>1, <2>2
  <1> QED
    BY <1>6, <1>8, <1>9 DEF DaemonInv, OneStream, Tidy

LEMMA StopInv ==
  ASSUME DaemonInv, StopAll
  PROVE  DaemonInv'
  <1> DEFINE held(s) == \E z \in Zones : streams[z] = s
  <1>1. ASSUME NEW s \in Streams
        PROVE  /\ st'[s] = [st[s] EXCEPT !.cancel = st[s].cancel \/ held(s)]
               /\ (st[s].cancel \/ held(s)) \in BOOLEAN
    BY DEF StopAll, DaemonInv, TypeOK, Stream
  <1> HIDE DEF held
  <1>2. ASSUME NEW s \in Streams
        PROVE  /\ st'[s] \in Stream /\ Tidy(st'[s])
               /\ st'[s].pc = st[s].pc /\ st'[s].cancel = (st[s].cancel \/ held(s))
    BY <1>1, CancelTyped, ZenonT(60)
  <1>3. st' \in [Streams -> Stream]
    <2>1. st' = [s \in Streams |-> st'[s]]
      BY DEF StopAll
    <2> QED
      BY <1>2, <2>1
  <1>4. TypeOK'
    BY <1>3 DEF StopAll, DaemonInv, TypeOK
  <1>5. ASSUME NEW s \in Streams, st'[s].pc # "off" PROVE st'[s].cancel
    <2>1. CASE st[s].cancel
      BY <1>2, <2>1
    <2>2. CASE ~st[s].cancel
      <3>1. streams[s[1]] = s /\ s[1] \in Zones
        BY <1>2, <1>5, <2>2 DEF DaemonInv, OneStream, Streams
      <3>2. held(s)
        BY <3>1 DEF held
      <3> QED
        BY <1>2, <3>2
    <2> QED
      BY <2>1, <2>2
  <1> QED
    BY <1>2, <1>4, <1>5 DEF DaemonInv, OneStream, Tidy

LEMMA InvNext == DaemonInv /\ [Next]_vars => DaemonInv'
  <1> SUFFICES ASSUME DaemonInv, [Next]_vars PROVE DaemonInv'
    OBVIOUS
  <1>1. ASSUME UNCHANGED <<streams, st>>, TypeOK' PROVE DaemonInv'
    BY <1>1 DEF DaemonInv, OneStream, Tidy
  <1>2. CASE UNCHANGED vars
    BY <1>1, <1>2 DEF vars, DaemonInv, TypeOK
  <1>3. CASE Terminate \/ Exit \/ (\E z \in Zones : ZoneChanges(z))
    BY <1>1, <1>3 DEF Terminate, Exit, ZoneChanges, DaemonInv, TypeOK
  <1>4. CASE SyncLists \/ StopAllReturns
    BY <1>1, <1>4 DEF SyncLists, StopAllReturns, DaemonInv, TypeOK
  <1> QED
    BY <1>2, <1>3, <1>4, SyncInv, StopInv, StreamInv, ReaderInv DEF Next

LEMMA InvAlways == Spec => []DaemonInv
  BY InvInit, InvNext, PTL DEF Spec

----------------------------------------------------------------------------
(***************************************************************************)
(* The theorems.                                                           *)
(***************************************************************************)
\* The state of the daemon keeps its type; a buffer never outgrows a batch
\* and the channel never its capacity.
THEOREM DaemonTypeCorrect == Spec => []TypeOK
  <1>1. DaemonInv => TypeOK
    BY DEF DaemonInv
  <1> QED
    BY <1>1, InvAlways, PTL

\* Of the streams of a zone only the one in the map is not cancelled.
THEOREM OneStreamHolds == Spec => []OneStream
  <1>1. DaemonInv => OneStream
    BY DEF DaemonInv
  <1> QED
    BY <1>1, InvAlways, PTL

\* A session that ends with its connection leaves no line behind.
THEOREM SessionDrainedHolds == Spec => []SessionDrained
  <1>1. DaemonInv => SessionDrained
    BY DEF DaemonInv, TypeOK, Stream, Tidy, SessionDrained, Unsaved
  <1> QED
    BY <1>1, InvAlways, PTL

----------------------------------------------------------------------------
(***************************************************************************)
(* The wait of stopAll.  It holds the mutex as long as it waits, so no     *)
(* stream takes its last step.                                             *)
(***************************************************************************)
WaitInv == DaemonInv /\ (manager = "stop" => locked)

LEMMA WaitInit == Init => WaitInv
  BY InvInit DEF Init, WaitInv

LEMMA WaitNext == WaitInv /\ [Next]_vars => WaitInv'
  <1> SUFFICES ASSUME WaitInv, [Next]_vars PROVE manager' = "stop" => locked'
    BY InvNext DEF WaitInv
  <1>1. ASSUME NEW s \in Streams, StreamStep(s) \/ ReaderStep(s)
        PROVE  UNCHANGED <<manager, locked>>
    BY <1>1 DEF StreamStep, ReaderStep, Others, Connect, Retry, GivesUp, Take, UploadTick,
                Closed, SessionCancelled, UploadEnds, Cleanup,
                ReaderLooks, ReaderReceives, ReaderFails, ReaderSends
  <1> QED
    BY <1>1 DEF WaitInv, Next, vars, ZoneChanges, Terminate, Exit, SyncLists, SyncStreams,
                StopAll, StopAllReturns

\* A stream other than the one that ends stays at work.
LEMMA StaysAtWork ==
  ASSUME DaemonInv, locked, NEW o \in Streams, StreamStep(o) \/ ReaderStep(o),
         NEW s \in Streams, st[s].pc # "off"
  PROVE  st'[s].pc # "off"
  <1>0. st \in [Streams -> Stream] /\ st[o] \in Stream
    BY Before
  <1>1. ASSUME NEW r, r.pc # "off", st' = [st EXCEPT ![o] = r] PROVE st'[s].pc # "off"
    BY <1>0, <1>1
  <1>2. ASSUME NEW pc, pc # "off", Goes(o, pc) PROVE st'[s].pc # "off"
    BY <1>0, <1>2 DEF Goes
  <1>3. ASSUME NEW next \in {"stream", "backoff", "cleanup"}, Flush(o, next)
        PROVE  st'[s].pc # "off"
    <2>1. CASE st[o].buffer = 0
      BY <1>2, <1>3, <2>1 DEF Flush
    <2>2. CASE st[o].buffer # 0
      <3> DEFINE r == [st[o] EXCEPT !.pc = "upload", !.next = next]
      <3>1. st' = [st EXCEPT ![o] = r] /\ r.pc = "upload"
        BY <1>0, <1>3, <2>2 DEF Flush, Stream
      <3> HIDE DEF r
      <3> QED
        BY <1>1, <3>1
    <2> QED
      BY <2>1, <2>2
  <1>4. CASE Connect(o)
    <2>1. CASE Goes(o, "backoff")
      BY <1>2, <2>1
    <2>2. CASE st' = [st EXCEPT ![o].pc = "stream", ![o].reader = "top"]
      <3> DEFINE r == [st[o] EXCEPT !.pc = "stream", !.reader = "top"]
      <3>1. st' = [st EXCEPT ![o] = r] /\ r.pc = "stream"
        BY <1>0, <2>2 DEF Stream
      <3> QED
        BY <1>1, <3>1
    <2> QED
      BY <1>4, <2>1, <2>2 DEF Connect
  <1>5. CASE Retry(o) \/ GivesUp(o)
    BY <1>2, <1>5 DEF Retry, GivesUp
  <1>6. CASE Take(o)
    <2> DEFINE n == st[o].buffer + 1
               r == [st[o] EXCEPT !.channel = st[o].channel - 1, !.buffer = n,
                        !.pc = IF n >= Batch THEN "upload" ELSE st[o].pc,
                        !.next = "stream"]
    <2>1. st' = [st EXCEPT ![o] = r] /\ st[o].pc = "stream"
      BY <1>0, <1>6 DEF Take
    <2>2. r.pc \in {"upload", "stream"}
      BY <1>0, <2>1 DEF Stream
    <2> HIDE DEF r
    <2> QED
      BY <1>1, <2>1, <2>2
  <1>7. CASE UploadTick(o) \/ Closed(o) \/ SessionCancelled(o)
    BY <1>3, <1>7 DEF UploadTick, Closed, SessionCancelled
  <1>8. CASE UploadEnds(o)
    <2>1. st[o].next # "off"
      BY <1>0 DEF Stream
    <2> QED
      BY <1>0, <1>8, <2>1 DEF UploadEnds
  <1>9. CASE Cleanup(o)
    BY <1>9 DEF Cleanup
  <1>10. CASE ReaderStep(o)
    <2>1. st[o].pc # "off" => st'[o].pc # "off"
      <3>1. ASSUME NEW at, st' = [st EXCEPT ![o].reader = at] PROVE st'[o].pc = st[o].pc
        BY <1>0, <3>1 DEF Stream
      <3>2. CASE ReaderLooks(o) \/ ReaderReceives(o) \/ ReaderFails(o)
        BY <3>1, <3>2 DEF ReaderLooks, ReaderReceives, ReaderFails
      <3>3. CASE ReaderSends(o)
        <4> DEFINE r == [st[o] EXCEPT !.reader = "top", !.channel = st[o].channel + 1]
        <4>1. st' = [st EXCEPT ![o] = r] /\ r.pc = st[o].pc
          BY <1>0, <3>3 DEF ReaderSends, Stream
        <4> HIDE DEF r
        <4> QED
          BY <1>0, <4>1
      <3> QED
        BY <1>10, <3>2, <3>3 DEF ReaderStep
    <2>2. s # o => st'[s] = st[s]
      BY <1>0, <1>10 DEF ReaderStep, ReaderLooks, ReaderReceives, ReaderFails, ReaderSends
    <2> QED
      BY <2>1, <2>2
  <1> QED
    BY <1>4, <1>5, <1>6, <1>7, <1>8, <1>9, <1>10 DEF StreamStep

\* stopAll with a stream at work never returns, and the stream never ends.
THEOREM StopAllHangsHolds == Spec => StopAllHangs
  <1>1. WaitInv /\ [Next]_vars =>
          [\A s \in Streams :
              manager = "stop" /\ st[s].pc # "off" =>
                 manager' = "stop" /\ st'[s].pc # "off"]_vars
    <2> SUFFICES ASSUME WaitInv, Next, NEW s \in Streams,
                        manager = "stop", st[s].pc # "off"
                 PROVE  manager' = "stop" /\ st'[s].pc # "off"
      OBVIOUS
    <2>1. DaemonInv /\ locked
      BY DEF WaitInv
    <2>2. ASSUME NEW o \in Streams, StreamStep(o) \/ ReaderStep(o)
          PROVE  manager' = manager
      BY <2>2 DEF StreamStep, ReaderStep, Others, Connect, Retry, GivesUp, Take, UploadTick,
                  Closed, SessionCancelled, UploadEnds, Cleanup,
                  ReaderLooks, ReaderReceives, ReaderFails, ReaderSends
    <2>3. CASE \E o \in Streams : StreamStep(o) \/ ReaderStep(o)
      BY <2>1, <2>2, <2>3, StaysAtWork
    <2>4. CASE \/ \E z \in Zones : ZoneChanges(z)
               \/ Terminate \/ Exit \/ SyncLists \/ SyncStreams \/ StopAll \/ StopAllReturns
      BY <2>4 DEF ZoneChanges, Terminate, Exit, SyncLists, SyncStreams, StopAll, StopAllReturns
    <2> QED
      BY <2>3, <2>4 DEF Next
  <1> QED
    BY <1>1, WaitInit, WaitNext, PTL DEF Spec, StopAllHangs
=============================================================================
