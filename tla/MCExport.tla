------------------------------ MODULE MCExport ------------------------------
(***************************************************************************)
(* Instances of Export for TLC.                                            *)
(***************************************************************************)
EXTENDS Export

CONSTANTS e1, l1, l2

\* A request for the whole archive.
AllLogs == [e \in Exports |-> Logs]
=============================================================================
