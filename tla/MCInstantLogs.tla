--------------------------- MODULE MCInstantLogs ---------------------------
(***************************************************************************)
(* Instances of InstantLogs for TLC.                                       *)
(***************************************************************************)
EXTENDS InstantLogs
============================================================================
