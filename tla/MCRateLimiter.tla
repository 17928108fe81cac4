--------------------------- MODULE MCRateLimiter ---------------------------
(***************************************************************************)
(* Instance of the API process for TLC: its rate limiter and its requests. *)
(* The two share no variable, so a behaviour moves one of them only, and   *)
(* the other stays as it was at the start.                                 *)
(***************************************************************************)
EXTENDS MeteredLimiter, ApiRequests

CONSTANTS c1, c2, a1, a2, b1, interval, active, new

Owners == [a \in APIKeys |-> IF a = b1 THEN c2 ELSE c1]

EachField == {[field |-> interval, value |-> new], [field |-> active, value |-> new]}

AFew == [read |-> 1, change |-> 2]

MCInit == MeteredInit /\ ApiInit

\* A process without a request waits for one.
Wait == (\A q \in Slots : req[q].pc = "idle") /\ UNCHANGED <<meteredVars, apiVars>>

MCNext ==
    \/ ApiInit /\ MeteredNext /\ UNCHANGED apiVars
    \/ MeteredInit /\ ApiNext /\ UNCHANGED meteredVars
    \/ Wait

MCSpec == MCInit /\ [][MCNext]_<<meteredVars, apiVars>> /\ Fairness
============================================================================
