--------------------------- MODULE MeteredLimiter ---------------------------
(***************************************************************************)
(* A rate limiter with a meter: history that counts, from any moment on,   *)
(* how many more requests of one key may pass if in any n ticks no more    *)
(* than Burst + n do.  The meter may be started anew at any time, so what  *)
(* holds of it holds of every stretch of time.                             *)
(***************************************************************************)
EXTENDS RateLimiter

CONSTANTS
    Metered,   \* the key the meter is attached to
    MaxCredit  \* bound: the most the meter shows

ASSUME MeterAssumption == Metered \in Keys /\ MaxCredit \in Nat

VARIABLE credit

meteredVars == <<vars, credit>>

MeterStarts == credit' = Burst /\ UNCHANGED vars

MeteredTick ==
    /\ Tick
    /\ credit < MaxCredit
    /\ credit' = credit + 1

MeteredAllow(q) ==
    /\ Allow(q)
    /\ credit' = IF asks[q] = Metered THEN credit - 1 ELSE credit

Unmetered ==
    /\ \/ EvictBegins \/ Evict
       \/ \E q \in Requests : Refuse(q) \/ \E k \in Keys : Get(q, k)
    /\ UNCHANGED credit

MeteredInit == Init /\ credit = Burst

MeteredNext ==
    \/ MeterStarts
    \/ MeteredTick
    \/ \E q \in Requests : MeteredAllow(q)
    \/ Unmetered

MeteredSpec == MeteredInit /\ [][MeteredNext]_meteredVars

(***************************************************************************)
(* In any stretch of n ticks at most Burst + n requests of a key pass,     *)
(* although the entry of the key may be dropped and made anew meanwhile,   *)
(* with a full bucket each time.                                           *)
(***************************************************************************)
RateBound == credit >= 0
=============================================================================
