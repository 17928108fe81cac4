---------------------------- MODULE InstantLogs ----------------------------
(***************************************************************************)
(* The instant-log daemon of the worker (internal/worker/instant_logs.go:  *)
(* InstantLogsManager; internal/cloudflare/instant_logs.go: Stream).       *)
(*                                                                         *)
(* One goroutine, the manager, compares the active Business zones with the *)
(* streams it has started, cancels and starts streams under a mutex, and   *)
(* at the end stops them all under the same mutex.  Every stream is a      *)
(* goroutine that connects, collects lines and uploads them in batches,    *)
(* and the connection is read by another goroutine that passes the lines   *)
(* on through a channel of bounded capacity.                               *)
(*                                                                         *)
(* Lines are counted, not named: they keep their order in the channel and  *)
(* in the buffer.  A stream is known by its zone and a number, because a   *)
(* cancelled stream of a zone may still be at work when the next one of    *)
(* the zone is started.                                                    *)
(***************************************************************************)
EXTENDS Naturals

CONSTANTS
    Zones,     \* rows of the zones table
    Runs,      \* bound: streams of one zone that are at work at a time
    None,      \* no stream
    Capacity,  \* lines the channel holds (100)
    Batch      \* lines in the buffer that cause an upload (2000)

ASSUME NoneIsNoStream == None \notin Zones \X Runs
ASSUME Sizes == Capacity \in Nat \ {0} /\ Batch \in Nat \ {0}

Streams == Zones \X Runs

VARIABLES
    wanted,   \* the active Business zones of the zones table
    process,  \* the worker: running, told to stop, or gone
    manager,  \* where the manager stands
    listed,   \* the zones it has read
    locked,   \* stopAll holds the mutex
    streams,  \* the map from zones to streams
    st        \* the streams

vars == <<wanted, process, manager, listed, locked, streams, st>>

Stream == [pc : {"off", "connect", "stream", "upload", "backoff", "cleanup"},
           next : {"stream", "backoff", "cleanup"}, \* where an upload leads
           cancel : BOOLEAN,                \* its own context is cancelled
           reader : {"top", "read", "send", "closed"},
           channel : 0 .. Capacity,
           buffer : 0 .. Batch]

Off == [pc |-> "off", next |-> "stream", cancel |-> FALSE, reader |-> "closed",
        channel |-> 0, buffer |-> 0]

Cancelled(s) == st[s].cancel \/ process # "running"

Free(s) == st[s].pc = "off"

\* Lines that were received and are not yet uploaded.
Unsaved(s) == \/ st[s].buffer > 0 \/ st[s].channel > 0
              \/ st[s].reader = "send"

----------------------------------------------------------------------------
(***************************************************************************)
(* The zones table and the process around the daemon.                      *)
(***************************************************************************)
ZoneChanges(z) ==
    /\ wanted' = IF z \in wanted THEN wanted \ {z} ELSE wanted \cup {z}
    /\ UNCHANGED <<process, manager, listed, locked, streams, st>>

Terminate ==
    /\ process = "running"
    /\ process' = "stopping"
    /\ UNCHANGED <<wanted, manager, listed, locked, streams, st>>

\* run() returns without waiting for the daemon.
Exit ==
    /\ process = "stopping"
    /\ process' = "gone"
    /\ UNCHANGED <<wanted, manager, listed, locked, streams, st>>

----------------------------------------------------------------------------
(***************************************************************************)
(* The manager.  The zones are read before the mutex is taken.             *)
(***************************************************************************)
SyncLists ==
    /\ manager = "wait"
    /\ process = "running"
    /\ listed' = wanted
    /\ manager' = "sync"
    /\ UNCHANGED <<wanted, process, locked, streams, st>>

Removed == {z \in Zones : streams[z] # None /\ z \notin listed}

\* Mutant: the map is not looked up before a stream is started.
AddedAgain == listed

Added == {z \in listed : streams[z] = None}

NextRun(z) == CHOOSE s \in {z} \X Runs : Free(s)

\* Mutant: a stream that is cancelled stays in the map.
SyncStreamsKeeps ==
    /\ manager = "sync"
    /\ ~locked
    /\ \A z \in Added : \E s \in {z} \X Runs : Free(s)
    /\ streams' = [z \in Zones |-> IF z \in Added THEN NextRun(z) ELSE streams[z]]
    /\ LET started == {NextRun(z) : z \in Added}
           stopped == {streams[z] : z \in Removed}
       IN st' = [s \in Streams |->
                    IF s \in started THEN [Off EXCEPT !.pc = "connect"]
                    ELSE [st[s] EXCEPT !.cancel = @ \/ s \in stopped]]
    /\ manager' = "wait"
    /\ UNCHANGED <<wanted, process, listed, locked>>

SyncStreams ==
    /\ manager = "sync"
    /\ ~locked
    /\ \A z \in Added : \E s \in {z} \X Runs : Free(s)
    /\ streams' = [z \in Zones |-> IF z \in Added THEN NextRun(z)
                                   ELSE IF z \in Removed THEN None
                                   ELSE streams[z]]
    /\ LET started == {NextRun(z) : z \in Added}
           stopped == {streams[z] : z \in Removed}
       IN st' = [s \in Streams |->
                    IF s \in started THEN [Off EXCEPT !.pc = "connect"]
                    ELSE [st[s] EXCEPT !.cancel = @ \/ s \in stopped]]
    /\ manager' = "wait"
    /\ UNCHANGED <<wanted, process, listed, locked>>

\* The mutex is taken, every stream is cancelled, and the manager waits for
\* the streams to end before it gives the mutex back.
StopAll ==
    /\ manager = "wait"
    /\ process # "running"
    /\ ~locked
    /\ locked' = TRUE
    /\ streams' = [z \in Zones |-> None]
    /\ st' = [s \in Streams |->
                [st[s] EXCEPT !.cancel = @ \/ \E z \in Zones : streams[z] = s]]
    /\ manager' = "stop"
    /\ UNCHANGED <<wanted, process, listed>>

StopAllReturns ==
    /\ manager = "stop"
    /\ \A s \in Streams : st[s].pc = "off"
    /\ locked' = FALSE
    /\ manager' = "ended"
    /\ UNCHANGED <<wanted, process, listed, streams, st>>

----------------------------------------------------------------------------
(***************************************************************************)
(* A stream: runZoneStream around streamSession.                           *)
(***************************************************************************)
Others == <<wanted, process, manager, listed, locked, streams>>

Goes(s, pc) == st' = [st EXCEPT ![s].pc = pc]

\* An upload of an empty buffer is no upload.
Flush(s, next) ==
    IF st[s].buffer = 0
    THEN Goes(s, next)
    ELSE st' = [st EXCEPT ![s].pc = "upload", ![s].next = next]

Connect(s) ==
    /\ st[s].pc = "connect"
    /\ ~Cancelled(s)
    /\ \/ st' = [st EXCEPT ![s].pc = "stream", ![s].reader = "top"]
       \/ Goes(s, "backoff")
    /\ UNCHANGED Others

Retry(s) ==
    /\ st[s].pc = "backoff"
    /\ Goes(s, "connect")
    /\ UNCHANGED Others

\* Mutant: the stream is run under the context of the process.
GivesUpAtExit(s) ==
    /\ st[s].pc \in {"connect", "backoff"}
    /\ process # "running"
    /\ Goes(s, "cleanup")
    /\ UNCHANGED Others

GivesUp(s) ==
    /\ st[s].pc \in {"connect", "backoff"}
    /\ Cancelled(s)
    /\ Goes(s, "cleanup")
    /\ UNCHANGED Others

\* A line is taken from the channel; a full batch is uploaded.
Take(s) ==
    /\ st[s].pc = "stream"
    /\ st[s].channel > 0
    /\ LET n == st[s].buffer + 1 IN
       st' = [st EXCEPT ![s].channel = @ - 1, ![s].buffer = n,
                        ![s].pc = IF n >= Batch THEN "upload" ELSE @,
                        ![s].next = "stream"]
    /\ UNCHANGED Others

UploadTick(s) ==
    /\ st[s].pc = "stream"
    /\ Flush(s, "stream")
    /\ UNCHANGED Others

\* Mutant: the session ends although the channel still holds lines.
ClosedEarly(s) ==
    /\ st[s].pc = "stream"
    /\ st[s].reader = "closed"
    /\ Flush(s, "backoff")
    /\ UNCHANGED Others

\* The channel is closed, and empty.
Closed(s) ==
    /\ st[s].pc = "stream"
    /\ st[s].reader = "closed" /\ st[s].channel = 0
    /\ Flush(s, "backoff")
    /\ UNCHANGED Others

SessionCancelled(s) ==
    /\ st[s].pc = "stream"
    /\ Cancelled(s)
    /\ Flush(s, "cleanup")
    /\ UNCHANGED Others

\* The buffer is emptied whether or not the upload succeeded.
UploadEnds(s) ==
    /\ st[s].pc = "upload"
    /\ st' = [st EXCEPT ![s].pc = st[s].next, ![s].next = "stream",
                        ![s].buffer = 0]
    /\ UNCHANGED Others

\* The mutex is taken and given back before the goroutine ends.  What its
\* reader still holds has no receiver any more.
Cleanup(s) ==
    /\ st[s].pc = "cleanup"
    /\ ~locked
    /\ st' = [st EXCEPT ![s] = Off]
    /\ UNCHANGED Others

----------------------------------------------------------------------------
(***************************************************************************)
(* The reader of a connection.  It looks at the context between two lines, *)
(* not while it waits for a line or for room in the channel.               *)
(***************************************************************************)
ReaderLooks(s) ==
    /\ st[s].reader = "top"
    /\ st' = [st EXCEPT ![s].reader = IF Cancelled(s) THEN "closed" ELSE "read"]
    /\ UNCHANGED Others

ReaderReceives(s) ==
    /\ st[s].reader = "read"
    /\ st' = [st EXCEPT ![s].reader = "send"]
    /\ UNCHANGED Others

ReaderFails(s) ==
    /\ st[s].reader = "read"
    /\ st' = [st EXCEPT ![s].reader = "closed"]
    /\ UNCHANGED Others

\* Mutant: the channel has room for one line more.
ReaderSendsBeyond(s) ==
    /\ st[s].reader = "send"
    /\ st[s].channel <= Capacity
    /\ st' = [st EXCEPT ![s].reader = "top", ![s].channel = @ + 1]
    /\ UNCHANGED Others

ReaderSends(s) ==
    /\ st[s].reader = "send"
    /\ st[s].channel < Capacity
    /\ st' = [st EXCEPT ![s].reader = "top", ![s].channel = @ + 1]
    /\ UNCHANGED Others

----------------------------------------------------------------------------
Init ==
    /\ wanted = {}
    /\ process = "running"
    /\ manager = "wait"
    /\ listed = {}
    /\ locked = FALSE
    /\ streams = [z \in Zones |-> None]
    /\ st = [s \in Streams |-> Off]

StreamStep(s) ==
    \/ Connect(s) \/ Retry(s) \/ GivesUp(s)
    \/ Take(s) \/ UploadTick(s) \/ Closed(s) \/ SessionCancelled(s)
    \/ UploadEnds(s) \/ Cleanup(s)

ReaderStep(s) ==
    ReaderLooks(s) \/ ReaderReceives(s) \/ ReaderFails(s) \/ ReaderSends(s)

Next ==
    /\ process # "gone"
    /\ \/ \E z \in Zones : ZoneChanges(z)
       \/ Terminate \/ Exit
       \/ SyncLists \/ SyncStreams \/ StopAll \/ StopAllReturns
       \/ \E s \in Streams : StreamStep(s) \/ ReaderStep(s)

Spec == Init /\ [][Next]_vars

\* The ticker of the manager fires, goroutines run, calls end, and a select
\* that finds its context cancelled again and again takes that branch.
Fairness ==
    /\ WF_vars(SyncLists) /\ WF_vars(SyncStreams)
    /\ \A s \in Streams :
          /\ WF_vars(GivesUp(s)) /\ WF_vars(UploadEnds(s)) /\ WF_vars(Cleanup(s))
          /\ SF_vars(SessionCancelled(s))

FairSpec == Spec /\ Fairness

----------------------------------------------------------------------------
(***************************************************************************)
(* Properties.                                                             *)
(***************************************************************************)
TypeOK ==
    /\ wanted \subseteq Zones
    /\ process \in {"running", "stopping", "gone"}
    /\ manager \in {"wait", "sync", "stop", "ended"}
    /\ listed \subseteq Zones
    /\ locked \in BOOLEAN
    /\ streams \in [Zones -> Streams \cup {None}]
    /\ st \in [Streams -> Stream]

(***************************************************************************)
(* A stream that is at work and was not cancelled is the one the map holds *)
(* for its zone, however often a zone is removed and added while an upload *)
(* is under way: a zone has at most one such stream, and the manager can   *)
(* still cancel every stream it has started.  Nothing is said of a stream  *)
(* that was cancelled: it may still take lines and upload them beside the  *)
(* next stream of its zone.                                                *)
(***************************************************************************)
OneStream ==
    \A s \in Streams :
        st[s].pc # "off" /\ ~st[s].cancel => streams[s[1]] = s

(***************************************************************************)
(* A session that ends because its connection was closed leaves no line    *)
(* behind: every line received was uploaded, or was in an upload that      *)
(* failed, before the next connection is tried.                            *)
(***************************************************************************)
SessionDrained ==
    \A s \in Streams :
        st[s].pc \in {"backoff", "connect"} => ~Unsaved(s)

(***************************************************************************)
(* A defect, stated as what the code does: the manager that stops with a   *)
(* stream at work never comes back.  It holds the mutex while it waits,    *)
(* and the stream, which needs the mutex for its last step, never ends.    *)
(* Only the exit of the process ends the two.                              *)
(***************************************************************************)
StopAllHangs ==
    [][\A s \in Streams :
          manager = "stop" /\ st[s].pc # "off" =>
              manager' = "stop" /\ st'[s].pc # "off"]_vars

Live(z) == /\ streams[z] # None
           /\ st[streams[z]].pc # "off" /\ ~st[streams[z]].cancel

(***************************************************************************)
(* A Business zone gets a stream that is at work, also when the zone was   *)
(* removed and added again while its stream before was still on its way to *)
(* the end.                                                                *)
(***************************************************************************)
ZoneIsStreamed ==
    \A z \in Zones :
        z \in wanted ~> Live(z) \/ z \notin wanted \/ process # "running"

(***************************************************************************)
(* The stream of a zone that was removed or moved to another plan ends,    *)
(* wherever the cancellation finds it.                                     *)
(***************************************************************************)
CancelledEnds ==
    \A s \in Streams :
        st[s].cancel ~> st[s].pc = "off" \/ process # "running"

(***************************************************************************)
(* "SIGTERM drains connections cleanly, preventing data loss during        *)
(* rolling updates": when the process is gone every line that was received *)
(* was uploaded, or was in an upload that failed.                          *)
(***************************************************************************)
ShutdownLosesNothing ==
    process = "gone" => \A s \in Streams : ~Unsaved(s)
============================================================================
