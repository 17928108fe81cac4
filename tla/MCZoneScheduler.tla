-------------------------- MODULE MCZoneScheduler --------------------------
(***************************************************************************)
(* Instances of ZoneScheduler for TLC.                                     *)
(***************************************************************************)
EXTENDS ZoneScheduler
============================================================================
