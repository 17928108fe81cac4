----------------------------- MODULE MCLogPull -----------------------------
(***************************************************************************)
(* Instances of LogPull for TLC.                                           *)
(***************************************************************************)
EXTENDS LogPull

CONSTANTS t1, t2, t3, z1

Two == {t1, t2}
Three == {t1, t2, t3}

SameZone == [t \in Tasks |-> z1]

AllPull == [t \in Tasks |-> "pull"]
BothKinds == [t \in Tasks |-> IF t = t2 THEN "sec" ELSE "pull"]

Unlimited == {-1}
LimitOrNone == {1, -1}
============================================================================
