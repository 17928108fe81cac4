------------------------ MODULE RateLimiter_proofs ------------------------
(***************************************************************************)
(* Theorems about RateLimiter, for every set of keys and requests, every   *)
(* burst and every time to live in which a limiter fills up again.         *)
(***************************************************************************)
EXTENDS MeteredLimiter, FiniteSetTheorems, TLAPS

----------------------------------------------------------------------------
(***************************************************************************)
(* Type correctness.                                                       *)
(***************************************************************************)
LEMMA OlderTyped ==
    \A i \in 0 .. Oldest : /\ Older(i) \in 0 .. Oldest
                           /\ Older(i) <= i + 1
                           /\ i <= Older(i)
BY Numbers DEF Older, Oldest

LEMMA RefilledTyped ==
    \A n \in 0 .. Burst : /\ Refilled(n) \in 0 .. Burst
                          /\ n = Burst => Refilled(n) = Burst
                          /\ n < Burst => Refilled(n) = n + 1
BY Numbers DEF Refilled

LEMMA InitTypeOK == Init => TypeOK
BY Numbers DEF Init, TypeOK, Oldest

\* A busy request holds a limiter.
HeldIsLimiter == \A q \in Busy : held[q] \in Limiters

LEMMA NextTypeOK ==
    ASSUME TypeOK, HeldIsLimiter, [Next]_vars
    PROVE  TypeOK' /\ HeldIsLimiter'
<1> USE DEF HeldIsLimiter, Busy
<1>1. CASE Tick
  <2>1. idle' \in [Keys -> 0 .. Oldest]
    BY <1>1, OlderTyped DEF Tick, TypeOK
  <2>2. bucket' \in [Limiters -> 0 .. Burst]
    BY <1>1, RefilledTyped DEF Tick, TypeOK
  <2>3. age' \in [Requests -> 0 .. Stall]
    BY <1>1, Numbers DEF Tick, TypeOK
  <2>4. sweep' \in 0 .. Stall \cup {None}
    BY <1>1, Numbers, NoneIsNew DEF Tick, TypeOK
  <2>5. QED
    BY <1>1, <2>1, <2>2, <2>3, <2>4 DEF Tick, TypeOK
<1>2. CASE EvictBegins
  BY <1>2, Numbers DEF EvictBegins, TypeOK
<1>3. CASE Evict
  BY <1>3 DEF Evict, TypeOK
<1>4. ASSUME NEW q \in Requests, Allow(q) PROVE TypeOK' /\ HeldIsLimiter'
  <2>1. held[q] \in Limiters /\ bucket[held[q]] \in 0 .. Burst
    BY <1>4 DEF Allow, TypeOK
  <2>2. bucket' \in [Limiters -> 0 .. Burst]
    BY <1>4, <2>1, Numbers DEF Allow, TypeOK
  <2>3. QED
    BY <1>4, <2>2, Numbers DEF Allow, Answers, TypeOK
<1>5. ASSUME NEW q \in Requests, Refuse(q) PROVE TypeOK' /\ HeldIsLimiter'
  BY <1>5, Numbers DEF Refuse, Answers, TypeOK
<1>6. ASSUME NEW q \in Requests, NEW k \in Keys, Get(q, k)
      PROVE  TypeOK' /\ HeldIsLimiter'
  <2>1. entry' \in [Keys -> Limiters \cup {None}] /\ entry'[k] \in Limiters
    BY <1>6 DEF Get, Unused, TypeOK
  <2>2. bucket' \in [Limiters -> 0 .. Burst]
    BY <1>6, Numbers DEF Get, Unused, TypeOK
  <2>3. idle' \in [Keys -> 0 .. Oldest]
    BY <1>6, Numbers DEF Get, TypeOK, Oldest
  <2>4. held' = [held EXCEPT ![q] = entry'[k]]
    BY <1>6 DEF Get
  <2>5. HeldIsLimiter'
    BY <1>6, <2>1, <2>4 DEF Get, TypeOK
  <2>6. QED
    BY <1>6, <2>1, <2>2, <2>3, <2>4, <2>5, Numbers DEF Get, TypeOK
<1>7. CASE UNCHANGED vars
  BY <1>7 DEF vars, TypeOK
<1>8. QED
  BY <1>1, <1>2, <1>3, <1>4, <1>5, <1>6, <1>7 DEF Next

----------------------------------------------------------------------------
(***************************************************************************)
(* The inductive invariant.  A limiter belongs to one key; a request that  *)
(* is busy holds the limiter of its key, which was looked up no longer ago *)
(* than the request waits; and a limiter has gained a token for every tick *)
(* since the last moment a request that looked it up may have used it.     *)
(***************************************************************************)
OwnLimiter ==
    \A j, k \in Keys : entry[j] # None /\ entry[j] = entry[k] => j = k

HeldInv ==
    \A q \in Busy :
        /\ held[q] \in Limiters
        /\ held[q] = entry[asks[q]]
        /\ idle[asks[q]] <= age[q]

FillsUp ==
    \A k \in Keys :
        entry[k] # None =>
            bucket[entry[k]] = Burst \/ bucket[entry[k]] >= idle[k] - Stall

IdleHolds == \A q \in Requests : asks[q] = None => held[q] = None

Inv == TypeOK /\ OwnLimiter /\ HeldInv /\ FillsUp /\ IdleHolds

LEMMA InitInv == Init => Inv
BY InitTypeOK DEF Init, Inv, OwnLimiter, HeldInv, FillsUp, IdleHolds, Busy

\* The clean-up drops no limiter a request holds, and only full ones.
LEMMA DroppedIsFree ==
    ASSUME Inv, sweep # None, NEW k \in Keys, Stale(k), entry[k] # None
    PROVE  /\ bucket[entry[k]] = Burst
           /\ \A q \in Busy : asks[q] # k
<1>1. /\ sweep \in 0 .. Stall /\ idle[k] \in 0 .. Oldest
      /\ entry[k] \in Limiters /\ bucket[entry[k]] \in 0 .. Burst
  BY DEF Inv, TypeOK
<1>2. idle[k] > TTL
  BY <1>1, Numbers DEF Stale, Oldest
<1>3. bucket[entry[k]] = Burst
  <2>1. bucket[entry[k]] = Burst \/ bucket[entry[k]] >= idle[k] - Stall
    BY DEF Inv, FillsUp
  <2>2. QED
    BY <1>1, <1>2, <2>1, Numbers, RefillsBeforeDropped DEF Oldest
<1>4. ASSUME NEW q \in Busy, asks[q] = k PROVE FALSE
  <2>1. idle[k] <= age[q] /\ age[q] \in 0 .. Stall
    BY <1>4 DEF Inv, TypeOK, HeldInv, Busy
  <2>2. QED
    BY <1>1, <1>2, <2>1, Numbers, RefillsBeforeDropped DEF Oldest
<1>5. QED
  BY <1>3, <1>4

LEMMA NextInv == Inv /\ [Next]_vars => Inv'
<1> SUFFICES ASSUME Inv, [Next]_vars PROVE Inv'
  OBVIOUS
<1>a. TypeOK /\ TypeOK'
  BY NextTypeOK DEF Inv, HeldInv, HeldIsLimiter
<1>b. Numbers
  BY Numbers
<1>1. CASE Tick
  <2>1. OwnLimiter' /\ IdleHolds'
    BY <1>1 DEF Tick, Inv, OwnLimiter, IdleHolds
  <2>2. HeldInv'
    <3>1. SUFFICES ASSUME NEW q \in Busy
                   PROVE  /\ held[q] \in Limiters
                          /\ held[q] = entry[asks[q]]
                          /\ idle'[asks[q]] <= age'[q]
      BY <1>1 DEF Tick, HeldInv, Busy
    <3>2. asks[q] \in Keys /\ q \in Requests
      BY <1>a DEF TypeOK, Busy
    <3>3. idle'[asks[q]] = Older(idle[asks[q]]) /\ age'[q] = age[q] + 1
      BY <1>1, <1>a, <3>2 DEF Tick, TypeOK
    <3>4. idle[asks[q]] \in 0 .. Oldest /\ age[q] \in 0 .. Stall
      BY <1>a, <3>2 DEF TypeOK
    <3>5. idle[asks[q]] <= age[q]
      BY DEF Inv, HeldInv
    <3>6. Older(idle[asks[q]]) <= idle[asks[q]] + 1
          /\ Older(idle[asks[q]]) \in 0 .. Oldest
      BY <3>4, OlderTyped
    <3>7. idle'[asks[q]] <= age'[q]
      BY <3>3, <3>4, <3>5, <3>6, Numbers DEF Oldest
    <3>8. QED
      BY <3>7 DEF Inv, HeldInv
  <2>3. FillsUp'
    <3>1. SUFFICES ASSUME NEW k \in Keys, entry[k] # None
                   PROVE  bucket'[entry[k]] = Burst
                          \/ bucket'[entry[k]] >= idle'[k] - Stall
      BY <1>1 DEF Tick, FillsUp
    <3> DEFINE n == bucket[entry[k]]
               i == idle[k]
    <3>2. entry[k] \in Limiters /\ n \in 0 .. Burst /\ i \in 0 .. Oldest
      BY <1>a, <3>1 DEF TypeOK
    <3>3. bucket'[entry[k]] = Refilled(n) /\ idle'[k] = Older(i)
      BY <1>1, <1>a, <3>2 DEF Tick, TypeOK
    <3>4. n = Burst \/ n >= i - Stall
      BY <3>1 DEF Inv, FillsUp
    <3>5. Older(i) <= i + 1 /\ Older(i) \in 0 .. Oldest
      BY <3>2, OlderTyped
    <3>6. CASE n = Burst
      BY <3>2, <3>3, <3>6, RefilledTyped
    <3>7. CASE n < Burst
      <4>1. Refilled(n) = n + 1
        BY <3>2, <3>7, RefilledTyped
      <4>2. n + 1 >= Older(i) - Stall
        BY <3>2, <3>4, <3>5, <3>7, Numbers DEF Oldest
      <4>3. QED
        BY <3>3, <4>1, <4>2
    <3>8. QED
      BY <3>2, <3>6, <3>7, Numbers
  <2>4. QED
    BY <1>a, <2>1, <2>2, <2>3 DEF Inv
<1>2. CASE EvictBegins
  BY <1>a, <1>2 DEF EvictBegins, Inv, OwnLimiter, HeldInv, FillsUp, IdleHolds, Busy
<1>3. CASE Evict
  <2>1. \A k \in Keys : entry'[k] # None => entry'[k] = entry[k]
    BY <1>3, <1>a DEF Evict, TypeOK
  <2>2. \A q \in Busy : entry'[asks[q]] = entry[asks[q]]
    <3>1. SUFFICES ASSUME NEW q \in Busy, Stale(asks[q]) PROVE FALSE
      BY <1>3, <1>a DEF Evict, TypeOK, Busy
    <3>2. asks[q] \in Keys /\ entry[asks[q]] # None
      BY <1>a, NoneIsNew DEF TypeOK, Busy, Inv, HeldInv
    <3>3. QED
      BY <1>3, <3>1, <3>2, DroppedIsFree DEF Evict
  <2>3. QED
    BY <1>3, <1>a, <2>1, <2>2
    DEF Evict, Inv, OwnLimiter, HeldInv, FillsUp, IdleHolds, Busy
<1>4. ASSUME NEW q \in Requests, Allow(q) PROVE Inv'
  <2> DEFINE m == asks[q]
  <2>1. /\ q \in Busy /\ m \in Keys /\ held[q] = entry[m]
        /\ entry[m] \in Limiters /\ bucket[entry[m]] \in 0 .. Burst
    BY <1>4, <1>a DEF Allow, Busy, TypeOK, Inv, HeldInv
  <2>2. \A p \in Busy' : p \in Busy /\ p # q
    BY <1>4, <1>a DEF Allow, Answers, Busy, TypeOK
  <2>3. OwnLimiter' /\ HeldInv' /\ IdleHolds'
    BY <1>4, <1>a, <2>2
    DEF Allow, Answers, Inv, OwnLimiter, HeldInv, IdleHolds, Busy, TypeOK
  <2>4. FillsUp'
    <3>1. SUFFICES ASSUME NEW k \in Keys, entry[k] # None
                   PROVE  bucket'[entry[k]] = Burst
                          \/ bucket'[entry[k]] >= idle[k] - Stall
      BY <1>4 DEF Allow, Answers, FillsUp
    <3>2. CASE k = m
      <4>1. bucket[entry[m]] > 0 /\ bucket'[entry[m]] = bucket[entry[m]] - 1
        BY <1>4, <1>a, <2>1 DEF Allow, TypeOK
      <4>2. idle[m] <= age[q] /\ age[q] \in 0 .. Stall /\ idle[m] \in 0 .. Oldest
        BY <1>a, <2>1 DEF Inv, HeldInv, TypeOK
      <4>3. QED
        BY <2>1, <3>2, <4>1, <4>2, Numbers DEF Oldest
    <3>3. CASE k # m
      <4>1. entry[k] # entry[m]
        BY <2>1, <3>1, <3>3 DEF Inv, OwnLimiter
      <4>2. bucket'[entry[k]] = bucket[entry[k]]
        BY <1>4, <1>a, <2>1, <3>1, <4>1 DEF Allow, TypeOK
      <4>3. QED
        BY <3>1, <4>2 DEF Inv, FillsUp
    <3>4. QED
      BY <3>2, <3>3
  <2>5. QED
    BY <1>a, <2>3, <2>4 DEF Inv
<1>5. ASSUME NEW q \in Requests, Refuse(q) PROVE Inv'
  <2>1. \A p \in Busy' : p \in Busy /\ p # q
    BY <1>5, <1>a DEF Refuse, Answers, Busy, TypeOK
  <2>2. QED
    BY <1>5, <1>a, <2>1
    DEF Refuse, Answers, Inv, OwnLimiter, HeldInv, FillsUp, IdleHolds, Busy, TypeOK
<1>6. ASSUME NEW q \in Requests, NEW k \in Keys, Get(q, k) PROVE Inv'
  <2>1. /\ idle' = [idle EXCEPT ![k] = 0]
        /\ held' = [held EXCEPT ![q] = entry'[k]]
        /\ asks' = [asks EXCEPT ![q] = k]
        /\ age' = [age EXCEPT ![q] = 0]
        /\ asks[q] = None
    BY <1>6 DEF Get
  <2>2. /\ entry'[k] \in Limiters
        /\ \A j \in Keys \ {k} : entry'[j] = entry[j]
        /\ entry[k] # None => entry' = entry /\ bucket' = bucket
        /\ entry[k] = None =>
              /\ \A j \in Keys : entry[j] # entry'[k]
              /\ \A l \in Limiters \ {entry'[k]} : bucket'[l] = bucket[l]
              /\ bucket'[entry'[k]] = Burst
    BY <1>6, <1>a DEF Get, Unused, TypeOK
  <2>3. \A p \in Busy : entry[asks[p]] # None /\ asks[p] \in Keys
    BY <1>a, NoneIsNew DEF Inv, HeldInv, TypeOK, Busy
  <2>4. OwnLimiter'
    BY <2>2 DEF Inv, OwnLimiter
  <2>5. HeldInv'
    <3>1. SUFFICES ASSUME NEW p \in Requests, asks'[p] # None
                   PROVE  /\ held'[p] \in Limiters
                          /\ held'[p] = entry'[asks'[p]]
                          /\ idle'[asks'[p]] <= age'[p]
      BY DEF HeldInv, Busy
    <3>2. CASE p = q
      BY <1>a, <2>1, <2>2, <3>2 DEF TypeOK
    <3>3. CASE p # q
      <4>1. p \in Busy /\ asks'[p] = asks[p] /\ held'[p] = held[p] /\ age'[p] = age[p]
        BY <1>a, <2>1, <3>1, <3>3 DEF Busy, TypeOK
      <4>2. held[p] \in Limiters /\ held[p] = entry[asks[p]] /\ idle[asks[p]] <= age[p]
        BY <4>1 DEF Inv, HeldInv
      <4>3. entry'[asks[p]] = entry[asks[p]]
        BY <2>2, <2>3, <4>1
      <4>4. idle'[asks[p]] <= age[p]
        <5>1. age[p] \in 0 .. Stall
          BY <1>a DEF TypeOK
        <5>2. idle'[asks[p]] = 0 \/ idle'[asks[p]] = idle[asks[p]]
          BY <1>a, <2>1, <2>3, <4>1 DEF TypeOK
        <5>3. QED
          BY <4>2, <5>1, <5>2, Numbers
      <4>5. QED
        BY <4>1, <4>2, <4>3, <4>4
    <3>4. QED
      BY <3>2, <3>3
  <2>6. FillsUp'
    <3>1. SUFFICES ASSUME NEW j \in Keys, entry'[j] # None
                   PROVE  bucket'[entry'[j]] = Burst
                          \/ bucket'[entry'[j]] >= idle'[j] - Stall
      BY DEF FillsUp
    <3>2. CASE j = k
      <4>1. idle'[k] = 0 /\ bucket'[entry'[k]] \in 0 .. Burst
        BY <1>a, <2>1, <2>2 DEF TypeOK
      <4>2. QED
        BY <3>2, <4>1, Numbers
    <3>3. CASE j # k
      <4>1. entry'[j] = entry[j] /\ idle'[j] = idle[j] /\ entry[j] \in Limiters
        BY <1>a, <2>1, <2>2, <3>1, <3>3 DEF TypeOK
      <4>2. bucket'[entry[j]] = bucket[entry[j]]
        BY <2>2, <4>1
      <4>3. QED
        BY <3>1, <4>1, <4>2 DEF Inv, FillsUp
    <3>4. QED
      BY <3>2, <3>3
  <2>7. IdleHolds'
    BY <1>a, <2>1, NoneIsNew DEF Inv, IdleHolds, TypeOK
  <2>8. QED
    BY <1>a, <2>4, <2>5, <2>6, <2>7 DEF Inv
<1>7. CASE UNCHANGED vars
  BY <1>a, <1>7 DEF vars, Inv, OwnLimiter, HeldInv, FillsUp, IdleHolds, Busy
<1>8. QED
  BY <1>1, <1>2, <1>3, <1>4, <1>5, <1>6, <1>7 DEF Next

LEMMA InvHolds == Spec => []Inv
<1>1. QED
  BY InitInv, NextInv, PTL DEF Spec

(***************************************************************************)
(* The map, the ages and the tokens keep their types; no limiter ever has  *)
(* fewer than no tokens or more than the burst.                            *)
(***************************************************************************)
THEOREM TypeCorrect == Spec => []TypeOK
<1>1. Inv => TypeOK
  BY DEF Inv
<1>2. QED
  BY <1>1, InvHolds, PTL

(***************************************************************************)
(* The clean-up never takes a limiter out of the map while a request that  *)
(* looked it up has still to take its token.                               *)
(***************************************************************************)
THEOREM HeldHolds == Spec => []HeldIsCurrent
<1>1. Inv => HeldIsCurrent
  BY DEF Inv, HeldInv, HeldIsCurrent
<1>2. QED
  BY <1>1, InvHolds, PTL

----------------------------------------------------------------------------
(***************************************************************************)
(* How many limiters there are.  A request that is busy holds a limiter of *)
(* the map, so no limiter is alive outside of it, and a key without entry  *)
(* leaves one over when there are as many limiters as keys.                *)
(***************************************************************************)
Mapped == {k \in Keys : entry[k] # None}

LEMMA AliveIsMapped ==
    ASSUME Inv, NEW l \in Limiters \ Unused
    PROVE  \E k \in Mapped : entry[k] = l
<1>1. CASE \E k \in Keys : entry[k] = l
  BY <1>1, NoneIsNew DEF Mapped
<1>2. ASSUME NEW q \in Requests, held[q] = l
      PROVE  \E k \in Mapped : entry[k] = l
  <2>1. q \in Busy
    BY <1>2, NoneIsNew DEF Inv, IdleHolds, Busy
  <2>2. asks[q] \in Keys /\ entry[asks[q]] = l
    BY <1>2, <2>1 DEF Inv, HeldInv, TypeOK, Busy
  <2>3. QED
    BY <2>2, NoneIsNew DEF Mapped
<1>3. QED
  BY <1>1, <1>2 DEF Unused

LEMMA OneIsLeft ==
    ASSUME Inv, NEW k \in Keys, entry[k] = None,
           IsFiniteSet(Keys), IsFiniteSet(Limiters),
           Cardinality(Limiters) >= Cardinality(Keys)
    PROVE  Unused # {}
<1> SUFFICES ASSUME Unused = {} PROVE FALSE
  OBVIOUS
<1> DEFINE own == [m \in Mapped |-> entry[m]]
<1>1. own \in Surjection(Mapped, Limiters)
  <2>1. own \in [Mapped -> Limiters]
    BY DEF Mapped, Inv, TypeOK
  <2>2. \A l \in Limiters : \E m \in Mapped : own[m] = l
    BY AliveIsMapped
  <2>3. QED
    BY <2>1, <2>2 DEF Surjection
<1>2. Mapped \in SUBSET (Keys \ {k})
  BY DEF Mapped
<1>3. /\ IsFiniteSet(Keys \ {k})
      /\ Cardinality(Keys \ {k}) = Cardinality(Keys) - 1
  BY FS_RemoveElement
<1>4. IsFiniteSet(Mapped) /\ Cardinality(Mapped) <= Cardinality(Keys) - 1
  BY <1>2, <1>3, FS_Subset
<1>5. Cardinality(Limiters) <= Cardinality(Mapped)
  BY <1>1, <1>4, FS_Surjection
<1>6. /\ Cardinality(Limiters) \in Nat /\ Cardinality(Mapped) \in Nat
      /\ Cardinality(Keys) \in Nat
  BY <1>4, FS_CardinalityType
<1>7. QED
  BY <1>4, <1>5, <1>6

(***************************************************************************)
(* The process keeps no more limiters alive than there are keys, requests  *)
(* under way or not: with as many, get always finds one that is new.       *)
(***************************************************************************)
THEOREM LimitersSuffice ==
    ASSUME IsFiniteSet(Keys), IsFiniteSet(Limiters),
           Cardinality(Limiters) >= Cardinality(Keys)
    PROVE  Spec => [](\A k \in Keys : entry[k] = None => Unused # {})
<1>1. Inv => \A k \in Keys : entry[k] = None => Unused # {}
  BY OneIsLeft, IsFiniteSet(Keys), IsFiniteSet(Limiters),
     Cardinality(Limiters) >= Cardinality(Keys)
<1>2. QED
  BY <1>1, InvHolds, PTL

----------------------------------------------------------------------------
(***************************************************************************)
(* The refinement.  Get is Ask, and finds in the map, or puts there, what  *)
(* the ideal bucket of the key holds; Allow and Refuse decide by the ideal *)
(* bucket; the clean-up changes nothing that is seen.                      *)
(***************************************************************************)
LEMMA InitRefines == Init => Ideal!Init
BY DEF Init, Ideal!Init, Tokens

LEMMA TickRefills ==
    ASSUME TypeOK, Tick
    PROVE  Tokens' = [k \in Keys |-> IF Tokens[k] < Burst THEN Tokens[k] + 1 ELSE Burst]
<1>1. SUFFICES ASSUME NEW k \in Keys
               PROVE  (IF entry[k] = None THEN Burst ELSE bucket'[entry[k]])
                      = IF Tokens[k] < Burst THEN Tokens[k] + 1 ELSE Burst
  BY DEF Tick, Tokens
<1>2. CASE entry[k] = None
  BY <1>2, Numbers DEF Tokens
<1>3. CASE entry[k] # None
  <2>1. bucket'[entry[k]] = Refilled(bucket[entry[k]])
    BY <1>3 DEF Tick, TypeOK
  <2>2. Tokens[k] = bucket[entry[k]]
    BY <1>3 DEF Tokens
  <2>3. QED
    BY <1>3, <2>1, <2>2 DEF Refilled
<1>4. QED
  BY <1>2, <1>3

LEMMA EvictIsUnseen ==
    ASSUME Inv, EvictBegins \/ Evict
    PROVE  Tokens' = Tokens
<1>1. CASE EvictBegins
  BY <1>1 DEF EvictBegins, Tokens
<1>2. CASE Evict
  <2>1. ASSUME NEW k \in Keys
        PROVE  (IF entry'[k] = None THEN Burst ELSE bucket'[entry'[k]])
               = (IF entry[k] = None THEN Burst ELSE bucket[entry[k]])
    <3>1. CASE Stale(k) /\ entry[k] # None
      BY <1>2, <3>1, DroppedIsFree DEF Evict
    <3>2. CASE ~(Stale(k) /\ entry[k] # None)
      BY <1>2, <3>2 DEF Evict
    <3>3. QED
      BY <3>1, <3>2
  <2>2. QED
    BY <2>1 DEF Tokens
<1>3. QED
  BY <1>1, <1>2

\* A request that decides holds the limiter of its key.
LEMMA HeldTokens ==
    ASSUME Inv, NEW q \in Requests, asks[q] # None
    PROVE  /\ asks[q] \in Keys /\ held[q] = entry[asks[q]]
           /\ entry[asks[q]] \in Limiters /\ entry[asks[q]] # None
           /\ Tokens[asks[q]] = bucket[held[q]]
<1>1. /\ asks[q] \in Keys /\ held[q] = entry[asks[q]]
      /\ entry[asks[q]] \in Limiters /\ entry[asks[q]] # None
  BY NoneIsNew DEF Busy, TypeOK, Inv, HeldInv
<1>2. QED
  BY <1>1 DEF Tokens

LEMMA AllowTakes ==
    ASSUME Inv, NEW q \in Requests, Allow(q)
    PROVE  Tokens' = [Tokens EXCEPT ![asks[q]] = @ - 1]
<1> DEFINE m == asks[q]
<1>1. /\ m \in Keys /\ held[q] = entry[m] /\ entry[m] \in Limiters
      /\ entry[m] # None /\ Tokens[m] = bucket[held[q]]
  BY HeldTokens DEF Allow
<1>2. ASSUME NEW k \in Keys \ {m} PROVE Tokens'[k] = Tokens[k]
  <2>1. entry[k] # None => entry[k] # entry[m] /\ entry[k] \in Limiters
    BY <1>1 DEF Inv, OwnLimiter, TypeOK
  <2>2. QED
    BY <1>1, <2>1 DEF Allow, Answers, Tokens, Inv, TypeOK
<1>3. Tokens'[m] = Tokens[m] - 1
  BY <1>1 DEF Allow, Answers, Tokens, Inv, TypeOK
<1>4. Tokens' = [k \in Keys |-> Tokens'[k]] /\ Tokens = [k \in Keys |-> Tokens[k]]
  BY DEF Tokens
<1>5. QED
  BY <1>2, <1>3, <1>4

LEMMA GetIsUnseen ==
    ASSUME Inv, NEW q \in Requests, NEW k \in Keys, Get(q, k)
    PROVE  Tokens' = Tokens
<1>1. ASSUME NEW j \in Keys
      PROVE  (IF entry'[j] = None THEN Burst ELSE bucket'[entry'[j]])
             = (IF entry[j] = None THEN Burst ELSE bucket[entry[j]])
  <2>1. CASE entry[k] # None
    BY <2>1 DEF Get
  <2>2. CASE entry[k] = None
    <3>1. PICK l \in Unused :
             /\ entry' = [entry EXCEPT ![k] = l]
             /\ bucket' = [bucket EXCEPT ![l] = Burst]
      BY <2>2 DEF Get
    <3>2. l \in Limiters /\ l # None /\ \A i \in Keys : entry[i] # l
      BY <3>1, NoneIsNew DEF Unused
    <3>3. CASE j = k
      BY <2>2, <3>1, <3>2, <3>3 DEF Inv, TypeOK
    <3>4. CASE j # k
      BY <3>1, <3>2, <3>4 DEF Inv, TypeOK
    <3>5. QED
      BY <3>3, <3>4
  <2>3. QED
    BY <2>1, <2>2
<1>2. QED
  BY <1>1 DEF Tokens

LEMMA StepRefines == Inv /\ [Next]_vars => [Ideal!Next]_(Ideal!vars)
<1> SUFFICES ASSUME Inv, [Next]_vars
             PROVE  Ideal!Next \/ UNCHANGED <<Tokens, asks, verdict>>
  BY DEF Ideal!vars
<1>1. CASE Tick
  <2>1. Ideal!Refill
    BY <1>1, TickRefills DEF Tick, Ideal!Refill, Inv
  <2>2. QED
    BY <2>1 DEF Ideal!Next
<1>2. CASE EvictBegins \/ Evict
  BY <1>2, EvictIsUnseen DEF EvictBegins, Evict
<1>3. ASSUME NEW q \in Requests, Allow(q) PROVE Ideal!Next
  <2>1. Ideal!Pass(q)
    BY <1>3, AllowTakes, HeldTokens DEF Allow, Answers, Ideal!Pass
  <2>2. QED
    BY <2>1 DEF Ideal!Next
<1>4. ASSUME NEW q \in Requests, Refuse(q) PROVE Ideal!Next
  <2>1. Tokens' = Tokens
    BY <1>4 DEF Refuse, Answers, Tokens
  <2>2. Ideal!Limit(q)
    BY <1>4, <2>1, HeldTokens DEF Refuse, Answers, Ideal!Limit
  <2>3. QED
    BY <2>2 DEF Ideal!Next
<1>5. ASSUME NEW q \in Requests, NEW k \in Keys, Get(q, k) PROVE Ideal!Next
  <2>1. Ideal!Ask(q, k)
    BY <1>5, GetIsUnseen DEF Get, Ideal!Ask
  <2>2. QED
    BY <2>1 DEF Ideal!Next
<1>6. CASE UNCHANGED vars
  BY <1>6 DEF vars, Tokens
<1>7. QED
  BY <1>1, <1>2, <1>3, <1>4, <1>5, <1>6 DEF Next

(***************************************************************************)
(* The limiter with its clean-up implements a bucket per key that is never *)
(* dropped, for every burst and time to live with room for the burst.      *)
(***************************************************************************)
THEOREM NeverForgetsHolds == Spec => NeverForgets
<1>1. QED
  BY InitRefines, StepRefines, InvHolds, PTL DEF Spec, NeverForgets, Ideal!Spec

----------------------------------------------------------------------------
(***************************************************************************)
(* The rate.  The bucket of the metered key never holds more tokens than   *)
(* the meter shows: both gain one with a tick, the bucket at most, and     *)
(* both lose one with a request that passes.                               *)
(***************************************************************************)
MeterInv ==
    /\ Inv
    /\ credit \in Int
    /\ Tokens[Metered] <= credit

LEMMA TokensTyped == TypeOK => \A k \in Keys : Tokens[k] \in 0 .. Burst
BY Numbers DEF TypeOK, Tokens

LEMMA InitMeterInv == MeteredInit => MeterInv
<1>1. SUFFICES ASSUME MeteredInit PROVE MeterInv
  OBVIOUS
<1>2. Inv
  BY <1>1, InitInv DEF MeteredInit
<1>3. Tokens[Metered] \in 0 .. Burst
  BY <1>2, MeterAssumption, TokensTyped DEF Inv
<1>4. QED
  BY <1>1, <1>2, <1>3, Numbers DEF MeteredInit, MeterInv

LEMMA NextMeterInv == MeterInv /\ [MeteredNext]_meteredVars => MeterInv'
<1> SUFFICES ASSUME MeterInv, [MeteredNext]_meteredVars PROVE MeterInv'
  OBVIOUS
<1>1. Inv /\ credit \in Int /\ Tokens[Metered] <= credit
  BY DEF MeterInv
<1>2. Inv'
  <2>1. [Next]_vars
    BY DEF MeteredNext, MeterStarts, MeteredTick, MeteredAllow, Unmetered,
           meteredVars, Next
  <2>2. QED
    BY <1>1, <2>1, NextInv
<1>3. Tokens[Metered] \in 0 .. Burst /\ Tokens'[Metered] \in 0 .. Burst
  <2>1. (\A k \in Keys : Tokens[k] \in 0 .. Burst)'
    BY <1>2, TokensTyped, PTL DEF Inv
  <2>2. QED
    BY <1>1, <2>1, MeterAssumption, TokensTyped DEF Inv
<1>4. CASE MeterStarts
  BY <1>2, <1>3, <1>4, Numbers DEF MeterStarts, MeterInv
<1>5. CASE MeteredTick
  <2>1. Tokens'[Metered] <= Tokens[Metered] + 1
    BY <1>1, <1>3, <1>5, TickRefills, MeterAssumption, Numbers DEF MeteredTick, Inv
  <2>2. QED
    BY <1>1, <1>2, <1>3, <1>5, <2>1 DEF MeteredTick, MeterInv
<1>6. ASSUME NEW q \in Requests, MeteredAllow(q) PROVE MeterInv'
  <2>1. Tokens' = [Tokens EXCEPT ![asks[q]] = @ - 1]
    BY <1>1, <1>6, AllowTakes DEF MeteredAllow
  <2>2. Tokens = [k \in Keys |-> Tokens[k]]
    BY DEF Tokens
  <2>3. CASE asks[q] = Metered
    <3>1. credit' = credit - 1
      BY <1>6, <2>3 DEF MeteredAllow
    <3>2. Tokens'[Metered] = Tokens[Metered] - 1
      BY <2>1, <2>2, <2>3, MeterAssumption
    <3>3. QED
      BY <1>1, <1>2, <1>3, <3>1, <3>2 DEF MeterInv
  <2>4. CASE asks[q] # Metered
    <3>1. credit' = credit /\ Tokens'[Metered] = Tokens[Metered]
      BY <1>6, <2>1, <2>2, <2>4, MeterAssumption DEF MeteredAllow
    <3>2. QED
      BY <1>1, <1>2, <3>1 DEF MeterInv
  <2>5. QED
    BY <2>3, <2>4
<1>7. CASE Unmetered
  <2>1. Tokens' = Tokens
    <3>1. ASSUME NEW q \in Requests, Refuse(q) PROVE Tokens' = Tokens
      BY <3>1 DEF Refuse, Answers, Tokens
    <3>2. QED
      BY <1>1, <1>7, <3>1, EvictIsUnseen, GetIsUnseen DEF Unmetered
  <2>2. QED
    BY <1>1, <1>2, <1>7, <2>1 DEF Unmetered, MeterInv
<1>8. CASE UNCHANGED meteredVars
  BY <1>1, <1>2, <1>8 DEF meteredVars, vars, Tokens, MeterInv
<1>9. QED
  BY <1>4, <1>5, <1>6, <1>7, <1>8 DEF MeteredNext

(***************************************************************************)
(* In any stretch of n ticks at most Burst + n requests of a key pass, for *)
(* every key, burst and time to live, and however often the entry of the   *)
(* key is dropped and made anew.                                           *)
(***************************************************************************)
THEOREM RateHolds == MeteredSpec => []RateBound
<1>1. MeterInv => RateBound
  <2>1. SUFFICES ASSUME MeterInv PROVE RateBound
    OBVIOUS
  <2>2. Tokens[Metered] \in 0 .. Burst
    BY <2>1, MeterAssumption, TokensTyped DEF MeterInv, Inv
  <2>3. QED
    BY <2>1, <2>2, Numbers DEF MeterInv, RateBound
<1>2. QED
  BY <1>1, InitMeterInv, NextMeterInv, PTL DEF MeteredSpec
=============================================================================
