---------------------------- MODULE MCRetention ----------------------------
(***************************************************************************)
(* Instances of Retention for TLC.                                         *)
(***************************************************************************)
EXTENDS Retention, TLC

CONSTANTS r1, r2, r3, w1, w2, t1, t2, t3, primary, secondary

Two == {r1, r2}
Three == {r1, r2, r3}

\* The first two rows are attempts of one window.
Shared == [j \in Rows |-> IF j = r3 THEN w2 ELSE w1]
Distinct == [j \in Rows |-> IF j = r1 THEN w1 ELSE w2]

OneProvider == {primary}
TwoProviders == {primary, secondary}
Single == <<primary>>
Failover == <<primary, secondary>>

\* No property names a task.
Symmetric == Permutations({t1, t2, t3})
=============================================================================
