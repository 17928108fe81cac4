---------------------------- MODULE RateLimiter ----------------------------
(***************************************************************************)
(* One ipLimiter of the API process (internal/api/middleware: ratelimit),  *)
(* with the requests that use it and its clean-up goroutine.  The process  *)
(* has three of them: one keyed by client address, and one keyed by        *)
(* customer for each of the groups /api/v1 and /dashboard.                 *)
(*                                                                         *)
(* A request looks its limiter up under the mutex and takes a token after  *)
(* the mutex was released; the clean-up reads the clock before it takes    *)
(* the mutex and then drops every entry that was not looked up for the     *)
(* time to live.  A limiter that was dropped may still be in the hands of  *)
(* a request, and the next request of its key gets a new, full one.        *)
(*                                                                         *)
(* A tick is the time in which a limiter gains one token; times are ages,  *)
(* counted in ticks, and fractions of a token are left out.                *)
(***************************************************************************)
EXTENDS Integers

CONSTANTS
    Keys,      \* client addresses, or customers
    Requests,  \* requests that may be under way beside each other
    Limiters,  \* identities of rate.Limiter values, as many as are needed
    Burst,     \* burst
    TTL,       \* ipLimiterTTL
    Stall,     \* bound: ticks between two statements of one goroutine
    None

ASSUME NoneIsNew == None \notin Keys /\ None \notin Limiters /\ None \notin Int
ASSUME Numbers == Burst \in Nat \ {0} /\ TTL \in Nat /\ Stall \in Nat

\* The clean-up only drops limiters that had the time to fill up again.
ASSUME RefillsBeforeDropped == Burst + Stall <= TTL + 1

VARIABLES
    entry,    \* entries: the limiter of a key
    idle,     \* ticks since lastSeen
    bucket,   \* the tokens of a limiter
    asks,     \* the key of a request
    held,     \* the limiter a request looked up
    age,      \* ticks since it did
    sweep,    \* ticks since the clean-up read the clock, None if it sleeps
    verdict   \* what became of a request

vars == <<entry, idle, bucket, asks, held, age, sweep, verdict>>

\* Ages beyond this one are not told apart.
Oldest == TTL + Stall + 1

Older(i) == IF i < Oldest THEN i + 1 ELSE Oldest

Refilled(n) == IF n < Burst THEN n + 1 ELSE Burst

Busy == {q \in Requests : asks[q] # None}

Init ==
    /\ entry = [k \in Keys |-> None]
    /\ idle = [k \in Keys |-> 0]
    /\ bucket = [l \in Limiters |-> Burst]
    /\ asks = [q \in Requests |-> None]
    /\ held = [q \in Requests |-> None]
    /\ age = [q \in Requests |-> 0]
    /\ sweep = None
    /\ verdict = [q \in Requests |-> "none"]

----------------------------------------------------------------------------
(***************************************************************************)
(* Requests.                                                               *)
(***************************************************************************)
Unused ==
    {l \in Limiters : /\ \A k \in Keys : entry[k] # l
                      /\ \A q \in Requests : held[q] # l}

\* The limiter of the key, a new and full one if it has no entry.
Get(q, k) ==
    /\ asks[q] = None
    /\ \/ entry[k] # None /\ UNCHANGED <<entry, bucket>>
       \/ /\ entry[k] = None
          /\ \E l \in Unused :
                /\ entry' = [entry EXCEPT ![k] = l]
                /\ bucket' = [bucket EXCEPT ![l] = Burst]
    /\ idle' = [idle EXCEPT ![k] = 0]
    /\ held' = [held EXCEPT ![q] = entry'[k]]
    /\ asks' = [asks EXCEPT ![q] = k]
    /\ age' = [age EXCEPT ![q] = 0]
    /\ verdict' = [verdict EXCEPT ![q] = "none"]
    /\ UNCHANGED sweep

Answers(q, v) ==
    /\ verdict' = [verdict EXCEPT ![q] = v]
    /\ asks' = [asks EXCEPT ![q] = None]
    /\ held' = [held EXCEPT ![q] = None]
    /\ age' = [age EXCEPT ![q] = 0]
    /\ UNCHANGED <<entry, idle, sweep>>

\* Mutant: a token is taken without a look at how many there are.
AllowAlways(q) ==
    /\ asks[q] # None
    /\ bucket' = [bucket EXCEPT ![held[q]] = @ - 1]
    /\ Answers(q, "pass")

Allow(q) ==
    /\ asks[q] # None
    /\ bucket[held[q]] > 0
    /\ bucket' = [bucket EXCEPT ![held[q]] = @ - 1]
    /\ Answers(q, "pass")

Refuse(q) ==
    /\ asks[q] # None
    /\ bucket[held[q]] = 0
    /\ Answers(q, "limit")
    /\ UNCHANGED bucket

----------------------------------------------------------------------------
(***************************************************************************)
(* The clean-up goroutine.                                                 *)
(***************************************************************************)
EvictBegins ==
    /\ sweep = None
    /\ sweep' = 0
    /\ UNCHANGED <<entry, idle, bucket, asks, held, age, verdict>>

\* Mutant: the clock is compared without the time to live.
StaleAtOnce(k) == idle[k] > sweep

\* lastSeen lies before the cutoff, which is as old as the clean-up's clock.
Stale(k) == idle[k] > TTL + sweep

\* Mutant: an entry is dropped only while its limiter is empty.
EvictEmpty ==
    /\ sweep # None
    /\ entry' = [k \in Keys |-> IF entry[k] # None /\ Stale(k)
                                   /\ bucket[entry[k]] = 0
                                THEN None ELSE entry[k]]
    /\ sweep' = None
    /\ UNCHANGED <<idle, bucket, asks, held, age, verdict>>

Evict ==
    /\ sweep # None
    /\ entry' = [k \in Keys |-> IF Stale(k) THEN None ELSE entry[k]]
    /\ sweep' = None
    /\ UNCHANGED <<idle, bucket, asks, held, age, verdict>>

----------------------------------------------------------------------------
(***************************************************************************)
(* Time.  No goroutine stays for more than Stall ticks between its two     *)
(* statements.                                                             *)
(***************************************************************************)
Tick ==
    /\ \A q \in Busy : age[q] < Stall
    /\ sweep # None => sweep < Stall
    /\ idle' = [k \in Keys |-> Older(idle[k])]
    /\ bucket' = [l \in Limiters |-> Refilled(bucket[l])]
    /\ age' = [q \in Requests |-> IF q \in Busy THEN age[q] + 1 ELSE age[q]]
    /\ sweep' = IF sweep = None THEN None ELSE sweep + 1
    /\ UNCHANGED <<entry, asks, held, verdict>>

Next ==
    \/ Tick
    \/ EvictBegins
    \/ Evict
    \/ \E q \in Requests : Allow(q) \/ Refuse(q) \/ \E k \in Keys : Get(q, k)

Spec == Init /\ [][Next]_vars

\* Time goes on, a request that looked its limiter up takes its token, and
\* the ticker of the clean-up fires again and again.
Fairness ==
    /\ WF_vars(Tick)
    /\ WF_vars(EvictBegins \/ Evict)
    /\ \A q \in Requests : WF_vars(Allow(q) \/ Refuse(q))

FairSpec == Spec /\ Fairness

----------------------------------------------------------------------------
(***************************************************************************)
(* Properties.                                                             *)
(***************************************************************************)
TypeOK ==
    /\ entry \in [Keys -> Limiters \cup {None}]
    /\ idle \in [Keys -> 0 .. Oldest]
    /\ bucket \in [Limiters -> 0 .. Burst]
    /\ asks \in [Requests -> Keys \cup {None}]
    /\ held \in [Requests -> Limiters \cup {None}]
    /\ age \in [Requests -> 0 .. Stall]
    /\ sweep \in 0 .. Stall \cup {None}
    /\ verdict \in [Requests -> {"none", "pass", "limit"}]

(***************************************************************************)
(* The limiter a request holds is the one its key has in the map: two      *)
(* requests of a key never take their tokens from different limiters,      *)
(* although the clean-up may run between the lookup and the taking.        *)
(***************************************************************************)
HeldIsCurrent ==
    \A q \in Busy : held[q] = entry[asks[q]]

(***************************************************************************)
(* Seen from outside, a bucket per key is never dropped: a request passes  *)
(* or is limited exactly as it would be if the map kept every limiter for  *)
(* ever, so forgetting a key neither gives nor takes a token.              *)
(***************************************************************************)
Tokens == [k \in Keys |-> IF entry[k] = None THEN Burst ELSE bucket[entry[k]]]

Ideal == INSTANCE TokenBucket WITH tokens <- Tokens

NeverForgets == Ideal!Spec

(***************************************************************************)
(* An entry that is not looked up is dropped one day: the map does not     *)
(* grow with every address that ever sent a request.                       *)
(***************************************************************************)
IdleIsDropped ==
    \A k \in Keys :
        (entry[k] # None /\ idle[k] > 0) ~> (entry[k] = None \/ idle[k] = 0)
============================================================================
