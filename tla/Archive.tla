------------------------------ MODULE Archive ------------------------------
(***************************************************************************)
(* What the archive promises its readers: it is written once.  It only     *)
(* grows, one entry at a time.  An entry has a position of its own, names  *)
(* content that can be read from the moment it is there, and is linked     *)
(* back to an entry of the same zone that was there before it, or to the   *)
(* start of a chain.  No entry is ever changed or taken away.              *)
(***************************************************************************)
CONSTANTS
    Positions,  \* where an entry may stand
    Windows,    \* what is archived
    ZoneOf,     \* the zone of a window
    Contents,   \* what can be read for a window
    Starts      \* where a chain may start

VARIABLE archive

Entry(p, w, c, prev) == [at |-> p, window |-> w, content |-> c, prev |-> prev]

Of(zone) == {e.at : e \in {f \in archive : ZoneOf[f.window] = zone}}

Init == archive = {}

Append(p, w, c, prev) ==
    /\ \A e \in archive : e.at # p
    /\ prev \in Starts \cup Of(ZoneOf[w])
    /\ archive' = archive \cup {Entry(p, w, c, prev)}

Next ==
    \E p \in Positions, w \in Windows, c \in Contents :
        \E prev \in Starts \cup Positions : Append(p, w, c, prev)

Spec == Init /\ [][Next]_archive
============================================================================
