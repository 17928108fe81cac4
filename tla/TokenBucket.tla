---------------------------- MODULE TokenBucket ----------------------------
(***************************************************************************)
(* What a rate limiter promises: one token bucket per key that is there    *)
(* from the beginning and is never dropped.  A request of a key passes if  *)
(* the bucket of the key holds a token, which it takes, and is limited     *)
(* otherwise.  A tick is the time in which a bucket gains one token.       *)
(***************************************************************************)
EXTENDS Integers

CONSTANTS
    Keys,      \* client addresses, or customers
    Requests,  \* requests that may be under way beside each other
    Burst,     \* what a bucket holds at most
    None

VARIABLES tokens, asks, verdict

vars == <<tokens, asks, verdict>>

Init ==
    /\ tokens = [k \in Keys |-> Burst]
    /\ asks = [q \in Requests |-> None]
    /\ verdict = [q \in Requests |-> "none"]

Refill ==
    /\ tokens' = [k \in Keys |-> IF tokens[k] < Burst THEN tokens[k] + 1 ELSE Burst]
    /\ UNCHANGED <<asks, verdict>>

Ask(q, k) ==
    /\ asks[q] = None
    /\ asks' = [asks EXCEPT ![q] = k]
    /\ verdict' = [verdict EXCEPT ![q] = "none"]
    /\ UNCHANGED tokens

Pass(q) ==
    /\ asks[q] # None /\ tokens[asks[q]] > 0
    /\ tokens' = [tokens EXCEPT ![asks[q]] = @ - 1]
    /\ verdict' = [verdict EXCEPT ![q] = "pass"]
    /\ asks' = [asks EXCEPT ![q] = None]

Limit(q) ==
    /\ asks[q] # None /\ tokens[asks[q]] = 0
    /\ verdict' = [verdict EXCEPT ![q] = "limit"]
    /\ asks' = [asks EXCEPT ![q] = None]
    /\ UNCHANGED tokens

Next ==
    \/ Refill
    \/ \E q \in Requests : Pass(q) \/ Limit(q) \/ \E k \in Keys : Ask(q, k)

Spec == Init /\ [][Next]_vars
============================================================================
