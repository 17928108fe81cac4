------------------------- MODULE ApiRequests_proofs ------------------------
(***************************************************************************)
(* Theorems about the requests of the API, for any customers, keys, zones  *)
(* and requests beside each other.                                         *)
(***************************************************************************)
EXTENDS ApiRequests, TLAPS

USE OwnersAreCustomers, IssuedKeys, ZoneValues, SentBound

\* A request is where its kind of call can be, on rows of its own customer.
Placed ==
    \A q \in Slots :
        /\ req[q].pc # "idle" => req[q].key \in APIKeys
        /\ req[q].pc = "zone" =>
              req[q].call.op \in {"patch_zone", "delete_zone"} /\ req[q].call.on = Customer(q)
        /\ req[q].pc \in {"keys", "customer"} =>
              req[q].call.op = "erase" /\ req[q].call.on = Customer(q)
        /\ req[q].pc = "audit" => req[q].call.op # "read"

Typed == ApiTypeOK /\ Placed

Requests ==
    [pc : Places, key : APIKeys \cup {Nothing}, call : Calls, late : BOOLEAN,
     alone : BOOLEAN, copy : Settings, ok : BOOLEAN]

LEMMA NobodyTyped == Nobody \in Requests
  BY DEF Nobody, Requests, Places, Calls, Settings, NewZone

LEMMA TypedInit == ApiInit => Typed
  <1> SUFFICES ASSUME ApiInit PROVE Typed
    OBVIOUS
  <1>1. req \in [Slots -> Requests] /\ (\A q \in Slots : req[q] = Nobody)
    BY NobodyTyped DEF ApiInit
  <1>2. key \in [APIKeys -> KeyRow] /\ zone \in [Customers -> ZoneRow]
    BY DEF ApiInit, KeyRow, ZoneRow, Settings, NewZone
  <1>3. ApiTypeOK
    BY <1>1, <1>2 DEF ApiInit, ApiTypeOK, Requests
  <1> QED
    BY <1>1, <1>3 DEF Typed, Placed, Nobody

\* The calls a request may carry, by their operation.
LEMMA CallFacts ==
  ASSUME NEW call \in Calls
  PROVE  /\ call.op = "revoke_key" => call.on \in APIKeys
         /\ call.op \in {"delete_zone", "erase", "patch_zone"} => call.on \in Customers
         /\ call.op = "patch_zone" => call.patch \in Patches
         /\ call.op # "read" =>
               /\ call.op \in {"create_key", "create_zone", "delete_zone", "erase",
                               "revoke_key", "patch_zone"}
               /\ call.on \in APIKeys \cup Customers \cup {Nothing}
         /\ call.op \in {"create_key", "create_zone"} => call.on = Nothing
         /\ Kind(call) \in {"read", "change"}
  BY DEF Calls, Kind

\* What a step of one request leaves of the other requests.
Same(q) ==
    \A o \in Slots \ {q} :
        /\ req'[o].pc = req[o].pc /\ req'[o].key = req[o].key
        /\ req'[o].call = req[o].call /\ req'[o].late = req[o].late
        /\ req'[o].copy = req[o].copy /\ req'[o].ok = req[o].ok
        /\ req'[o].alone => req[o].alone

\* What a request carries from its arrival to its end.
Carries(q) ==
    req'[q].key = req[q].key /\ req'[q].call = req[q].call /\ req'[q].late = req[q].late

LEMMA MovesTyped ==
  ASSUME Typed, NEW q \in Slots, NEW pc \in Places, Moves(q, pc)
  PROVE  /\ req' \in [Slots -> Requests] /\ Same(q)
         /\ req'[q].pc = pc /\ Carries(q) /\ req'[q].alone = req[q].alone
  BY DEF Typed, ApiTypeOK, Requests, Moves, Same, Carries

LEMMA EndsTyped ==
  ASSUME Typed, NEW q \in Slots, Ends(q)
  PROVE  /\ req' \in [Slots -> Requests]
         /\ req'[q] = Nobody
         /\ Same(q)
  BY NobodyTyped DEF Typed, ApiTypeOK, Requests, Ends, Same

LEMMA AnsweredTyped ==
  ASSUME Typed, NEW q \in Slots, NEW ok \in BOOLEAN, Answered(q, ok)
  PROVE  /\ req' \in [Slots -> Requests] /\ Same(q)
         /\ req'[q].pc = "audit" /\ Carries(q) /\ req'[q].alone = req[q].alone
         /\ req'[q].ok => ok
  <1> DEFINE Row == [req[q] EXCEPT !.pc = "audit", !.ok = ok]
  <1>0. req[q] \in Requests
    BY DEF Typed, ApiTypeOK, Requests
  <1>1. Row \in Requests
    BY <1>0 DEF Requests, Places
  <1>2. /\ Row.pc = "audit" /\ Row.key = req[q].key /\ Row.call = req[q].call
        /\ Row.late = req[q].late /\ Row.alone = req[q].alone /\ Row.ok = ok
    BY <1>0 DEF Requests
  <1>3. req' = [req EXCEPT ![q] = Row]
    BY DEF Answered
  <1> HIDE DEF Row
  <1>4. req' \in [Slots -> Requests] /\ req'[q] = Row /\ Same(q)
    BY <1>1, <1>3 DEF Typed, ApiTypeOK, Requests, Same
  <1> QED
    BY <1>2, <1>4 DEF Carries

LEMMA EraseStepTyped ==
  ASSUME Typed, NEW q \in Slots, NEW pc \in Places, NEW ok \in BOOLEAN,
         EraseStep(q, pc, ok)
  PROVE  /\ req' \in [Slots -> Requests] /\ Same(q)
         /\ req'[q].pc = pc /\ Carries(q) /\ req'[q].alone = req[q].alone
         /\ req'[q].ok => req[q].ok /\ ok
  <1> DEFINE Row == [req[q] EXCEPT !.pc = pc, !.ok = req[q].ok /\ ok]
  <1>0. req[q] \in Requests
    BY DEF Typed, ApiTypeOK, Requests
  <1>1. Row \in Requests
    BY <1>0, ZenonT(60) DEF Requests, Places
  <1>2. /\ Row.pc = pc /\ Row.key = req[q].key /\ Row.call = req[q].call
        /\ Row.late = req[q].late /\ Row.alone = req[q].alone
        /\ Row.ok = (req[q].ok /\ ok)
    BY <1>0 DEF Requests
  <1>3. req' = [req EXCEPT ![q] = Row]
    BY DEF EraseStep
  <1> HIDE DEF Row
  <1>4. req' \in [Slots -> Requests] /\ req'[q] = Row /\ Same(q)
    BY <1>1, <1>3 DEF Typed, ApiTypeOK, Requests, Same
  <1> QED
    BY <1>2, <1>4 DEF Carries

LEMMA JoinsTyped ==
  ASSUME Typed, NEW q \in Slots, Joins(q)
  PROVE  /\ req' \in [Slots -> Requests] /\ Same(q)
         /\ req'[q].pc = "found" /\ Carries(q)
         /\ req'[q].alone => Beside(q) = {}
         /\ \A o \in Slots \ {q} : req'[o].alone => o \notin Beside(q)
  <1> DEFINE Row(o) == IF o = q THEN [req[q] EXCEPT !.pc = "found", !.alone = Beside(q) = {}]
                       ELSE [req[o] EXCEPT !.alone = @ /\ o \notin Beside(q)]
  <1>1. \A o \in Slots : req[o] \in Requests
    BY DEF Typed, ApiTypeOK, Requests
  <1>2. ASSUME NEW o \in Slots PROVE Row(o) \in Requests
    <2>1. CASE o = q
      <3>1. (Beside(q) = {}) \in BOOLEAN
        OBVIOUS
      <3> QED
        BY <1>1, <2>1, <3>1 DEF Requests, Places
    <2>2. CASE o # q
      <3>1. (req[o].alone /\ o \notin Beside(q)) \in BOOLEAN
        OBVIOUS
      <3> QED
        BY <1>1, <2>2, <3>1 DEF Requests
    <2> QED
      BY <2>1, <2>2
  <1>3. req' = [o \in Slots |-> Row(o)]
    BY DEF Joins
  <1>4. /\ Row(q).pc = "found" /\ Row(q).key = req[q].key /\ Row(q).call = req[q].call
        /\ Row(q).late = req[q].late
        /\ Row(q).alone => Beside(q) = {}
    BY <1>1 DEF Requests
  <1>5. \A o \in Slots \ {q} :
           /\ Row(o).pc = req[o].pc /\ Row(o).key = req[o].key
           /\ Row(o).call = req[o].call /\ Row(o).late = req[o].late
           /\ Row(o).copy = req[o].copy /\ Row(o).ok = req[o].ok
           /\ Row(o).alone => req[o].alone /\ o \notin Beside(q)
    BY <1>1 DEF Requests
  <1> HIDE DEF Row
  <1> QED
    BY <1>2, <1>3, <1>4, <1>5 DEF Same, Carries

LEMMA FoundTyped ==
  ASSUME Typed, NEW q \in Slots, req[q].call.on \in Customers, Found(q)
  PROVE  /\ req' \in [Slots -> Requests] /\ Same(q)
         /\ req'[q].pc = "zone" /\ Carries(q) /\ req'[q].alone = req[q].alone
         /\ req'[q].copy = zone[req[q].call.on].settings
  <1>1. zone[req[q].call.on].settings \in Settings
    BY DEF Typed, ApiTypeOK, ZoneRow
  <1> DEFINE Row == [req[q] EXCEPT !.pc = "zone", !.copy = zone[req[q].call.on].settings]
  <1>2. req[q] \in Requests
    BY DEF Typed, ApiTypeOK, Requests
  <1>3. Row \in Requests
    BY <1>1, <1>2 DEF Requests, Places
  <1>4. /\ Row.pc = "zone" /\ Row.key = req[q].key /\ Row.call = req[q].call
        /\ Row.late = req[q].late /\ Row.alone = req[q].alone
        /\ Row.copy = zone[req[q].call.on].settings
    BY <1>2 DEF Requests
  <1>5. req' = [req EXCEPT ![q] = Row]
    BY DEF Found
  <1> HIDE DEF Row
  <1>6. req' \in [Slots -> Requests] /\ req'[q] = Row /\ Same(q)
    BY <1>3, <1>5 DEF Typed, ApiTypeOK, Requests, Same
  <1> QED
    BY <1>4, <1>6 DEF Carries

\* Where the request that takes a step may stand afterwards.
PlacedAt(q) ==
    /\ req[q].pc # "idle" => req[q].key \in APIKeys
    /\ req[q].pc = "zone" =>
          req[q].call.op \in {"patch_zone", "delete_zone"} /\ req[q].call.on = Customer(q)
    /\ req[q].pc \in {"keys", "customer"} =>
          req[q].call.op = "erase" /\ req[q].call.on = Customer(q)
    /\ req[q].pc = "audit" => req[q].call.op # "read"

LEMMA PlacedNext ==
  ASSUME Typed, NEW q \in Slots, Same(q), PlacedAt(q)'
  PROVE  Placed'
  BY DEF Typed, Placed, PlacedAt, Same, Customer

\* The steps that change no table.
LEMMA QuietTyped ==
  ASSUME Typed, NEW q \in Slots,
         \/ GetByPrefix(q) \/ Authenticate(q) \/ Read(q) \/ Forbid(q)
         \/ ReadZone(q) \/ RefuseErasure(q)
  PROVE  /\ req' \in [Slots -> Requests] /\ Same(q) /\ PlacedAt(q)'
         /\ UNCHANGED <<tables, history>>
  <1> DEFINE Quiet == /\ req' \in [Slots -> Requests] /\ Same(q) /\ PlacedAt(q)'
                      /\ UNCHANGED <<tables, history>>
  <1>0. req[q] \in Requests /\ PlacedAt(q)
    BY DEF Typed, ApiTypeOK, Placed, PlacedAt, Requests
  <1>1. ASSUME Ends(q), UNCHANGED <<tables, history>> PROVE Quiet
    BY <1>1, EndsTyped DEF PlacedAt, Nobody
  <1>2. ASSUME Answered(q, FALSE), UNCHANGED <<tables, history>>,
               req[q].pc # "idle", req[q].call.op # "read"
        PROVE  Quiet
    BY <1>0, <1>2, AnsweredTyped DEF PlacedAt, Carries
  <1>3. CASE GetByPrefix(q)
    <2>1. CASE Joins(q)
      BY <1>0, <1>3, <2>1, JoinsTyped DEF GetByPrefix, PlacedAt, Carries
    <2> QED
      BY <1>1, <1>3, <2>1 DEF GetByPrefix
  <1>4. CASE Authenticate(q)
    <2>1. CASE Moves(q, "handle")
      <3>1. "handle" \in Places
        BY DEF Places
      <3>2. /\ req' \in [Slots -> Requests] /\ Same(q)
            /\ req'[q].pc = "handle" /\ Carries(q)
        BY <2>1, <3>1, MovesTyped
      <3> QED
        BY <1>0, <1>4, <3>2 DEF Authenticate, PlacedAt, Carries
    <2> QED
      BY <1>1, <1>4, <2>1 DEF Authenticate
  <1>5. CASE Read(q)
    BY <1>1, <1>5 DEF Read
  <1>6. CASE Forbid(q)
    BY <1>2, <1>6 DEF Forbid
  <1>7. CASE ReadZone(q)
    <2>1. /\ req[q].call \in Calls /\ req[q].call.op \in {"patch_zone", "delete_zone"}
          /\ req[q].pc = "handle" /\ UNCHANGED <<tables, history>>
      BY <1>0, <1>7 DEF ReadZone, Handles, Requests
    <2>2. CASE req[q].call.on = Customer(q) /\ Found(q)
      <3>1. req[q].call.on \in Customers
        BY <2>1, CallFacts
      <3> QED
        BY <1>0, <2>1, <2>2, <3>1, FoundTyped DEF PlacedAt, Carries, Customer
    <2>3. CASE Answered(q, FALSE)
      BY <1>2, <2>1, <2>3
    <2> QED
      BY <1>7, <2>2, <2>3 DEF ReadZone
  <1>8. CASE RefuseErasure(q)
    BY <1>2, <1>8 DEF RefuseErasure, Handles
  <1> QED
    BY <1>3, <1>4, <1>5, <1>6, <1>7, <1>8

LEMMA ArriveTyped ==
  ASSUME Typed, NEW q \in Slots, NEW a \in APIKeys, NEW call \in Calls, Arrive(q, a, call)
  PROVE  /\ req' \in [Slots -> Requests] /\ Same(q) /\ PlacedAt(q)'
         /\ req'[q].pc = "arrived" /\ req'[q].key = a
         /\ req'[q].late => Dead(a)
         /\ sent' \in [{"read", "change"} -> Nat]
         /\ \A kind \in {"read", "change"} : sent'[kind] <= MaxSent[kind]
  <1> DEFINE Row == [Nobody EXCEPT !.pc = "arrived", !.key = a, !.call = call,
                                   !.late = Dead(a)]
  <1>1. Row \in Requests
    BY NobodyTyped DEF Requests, Places, Dead
  <1>2. Row.pc = "arrived" /\ Row.key = a /\ (Row.late => Dead(a))
    BY NobodyTyped DEF Nobody
  <1>3. req' = [req EXCEPT ![q] = Row]
    BY DEF Arrive
  <1>4. Kind(call) \in {"read", "change"}
    BY CallFacts
  <1>5. /\ sent' \in [{"read", "change"} -> Nat]
        /\ \A kind \in {"read", "change"} : sent'[kind] <= MaxSent[kind]
    <2>1. sent[Kind(call)] \in Nat /\ MaxSent[Kind(call)] \in Nat
      BY <1>4 DEF Typed, ApiTypeOK
    <2> QED
      BY <1>4, <2>1 DEF Arrive, Typed, ApiTypeOK
  <1> HIDE DEF Row
  <1>6. req' \in [Slots -> Requests] /\ req'[q] = Row /\ Same(q)
    BY <1>1, <1>3 DEF Typed, ApiTypeOK, Requests, Same
  <1>7. PlacedAt(q)'
    BY <1>2, <1>6 DEF PlacedAt
  <1> QED
    BY <1>2, <1>5, <1>6, <1>7

\* The steps that answer.
LEMMA AnswerPlaced ==
  ASSUME Typed, NEW q \in Slots, NEW ok \in BOOLEAN, Answered(q, ok),
         req[q].pc # "idle", req[q].call.op # "read"
  PROVE  req' \in [Slots -> Requests] /\ Same(q) /\ PlacedAt(q)'
  BY AnsweredTyped DEF Typed, Placed, PlacedAt, Carries

LEMMA ErasePlaced ==
  ASSUME Typed, NEW q \in Slots, NEW pc \in {"keys", "customer"}, NEW ok \in BOOLEAN,
         EraseStep(q, pc, ok), req[q].pc # "idle",
         req[q].call.op = "erase", req[q].call.on = Customer(q)
  PROVE  req' \in [Slots -> Requests] /\ Same(q) /\ PlacedAt(q)'
  <1>1. pc \in Places
    BY DEF Places
  <1> QED
    BY <1>1, EraseStepTyped DEF Typed, Placed, PlacedAt, Carries, Customer

LEMMA WritesTyped ==
  ASSUME Typed, NEW q \in Slots, NEW stored \in BOOLEAN, NEW ok \in BOOLEAN,
         Writes(q, stored, ok)
  PROVE  /\ req' \in [Slots -> Requests] /\ Same(q) /\ PlacedAt(q)'
         /\ key' \in [APIKeys -> KeyRow] /\ zone' \in [Customers -> ZoneRow]
         /\ deleted' \subseteq Customers /\ erased' \subseteq Customers
         /\ UNCHANGED <<trail, lost, sent>>
  <1>0. /\ req[q] \in Requests /\ PlacedAt(q)
        /\ key \in [APIKeys -> KeyRow] /\ zone \in [Customers -> ZoneRow]
        /\ deleted \subseteq Customers /\ erased \subseteq Customers
    BY DEF Typed, ApiTypeOK, Placed, PlacedAt, Requests
  <1>c. ASSUME req[q].pc # "idle" PROVE Customer(q) \in Customers
    BY <1>0, <1>c DEF PlacedAt, Customer
  <1>1. CASE CreateAPIKey(q, stored, ok)
    <2>1. key' \in [APIKeys -> KeyRow]
      BY <1>0, <1>1 DEF CreateAPIKey, KeyRow
    <2> QED
      BY <1>0, <1>1, <2>1, AnswerPlaced DEF CreateAPIKey, Handles, history
  <1>2. CASE RevokeAPIKey(q, stored, ok)
    <2>1. \/ key' = key
          \/ key' = [key EXCEPT ![req[q].call.on].status = "revoked"]
      BY <1>2 DEF RevokeAPIKey
    <2>2. key' \in [APIKeys -> KeyRow]
      <3> DEFINE Row(a) == [key[a] EXCEPT !.status = "revoked"]
      <3>1. ASSUME NEW a \in APIKeys PROVE Row(a) \in KeyRow
        BY <1>0 DEF KeyRow
      <3>2. \/ key' = key
            \/ key' = [key EXCEPT ![req[q].call.on] = Row(req[q].call.on)]
        BY <2>1
      <3> HIDE DEF Row
      <3> QED
        BY <1>0, <3>1, <3>2
    <2> QED
      BY <1>0, <1>2, <2>2, AnswerPlaced DEF RevokeAPIKey, Handles, history
  <1>3. CASE CreateZone(q, stored, ok)
    <2>1. [status |-> "live", settings |-> NewZone] \in ZoneRow
      BY DEF ZoneRow, Settings, NewZone
    <2>2. zone' \in [Customers -> ZoneRow]
      BY <1>0, <1>3, <2>1 DEF CreateZone
    <2> QED
      BY <1>0, <1>3, <2>2, AnswerPlaced DEF CreateZone, Handles, history
  <1>4. CASE UpdateZone(q, stored, ok)
    <2>1. req[q].pc = "zone" /\ req[q].call.op = "patch_zone" /\ req[q].call \in Calls
      BY <1>0, <1>4 DEF UpdateZone, WriteZone, Requests
    <2>2. req[q].call.patch \in [field : Fields, value : Values] /\ req[q].copy \in Settings
      BY <1>0, <2>1, CallFacts DEF Requests
    <2>3. [status |-> "live", settings |-> Patched(q)] \in ZoneRow
      BY <2>2 DEF ZoneRow, Settings, Patched
    <2>4. zone' \in [Customers -> ZoneRow]
      BY <1>0, <1>4, <2>3 DEF UpdateZone, WriteZone
    <2> QED
      BY <1>0, <1>4, <2>1, <2>4, AnswerPlaced DEF UpdateZone, WriteZone, history
  <1>5. CASE DeleteZone(q, stored, ok)
    <2>1. req[q].pc = "zone" /\ req[q].call.op = "delete_zone" /\ req[q].call \in Calls
      BY <1>0, <1>5 DEF DeleteZone, WriteZone, Requests
    <2>2. req[q].call.on \in Customers
      BY <2>1, CallFacts
    <2>3. [zone[req[q].call.on] EXCEPT !.status = "deleted"] \in ZoneRow
      BY <1>0, <2>2 DEF ZoneRow
    <2>4. zone' \in [Customers -> ZoneRow]
      BY <1>0, <1>5, <2>3 DEF DeleteZone, WriteZone
    <2> QED
      BY <1>0, <1>5, <2>1, <2>4, AnswerPlaced DEF DeleteZone, WriteZone, history
  <1>6. CASE SoftDeleteZones(q, stored, ok)
    <2>1. Customer(q) \in Customers
      BY <1>6, <1>c DEF SoftDeleteZones, Handles
    <2>2. zone' \in [Customers -> ZoneRow]
      BY <1>0, <1>6, <2>1 DEF SoftDeleteZones, ZoneRow
    <2> QED
      BY <1>0, <1>6, <2>2, ErasePlaced DEF SoftDeleteZones, Handles, history
  <1>7. CASE RevokeByCustomer(q, stored, ok)
    <2>1. key' \in [APIKeys -> KeyRow]
      BY <1>0, <1>7 DEF RevokeByCustomer, KeyRow
    <2>2. req[q].pc = "keys" /\ req[q].call.op = "erase" /\ req[q].call.on = Customer(q)
      BY <1>0, <1>7 DEF RevokeByCustomer, PlacedAt
    <2> QED
      BY <1>0, <1>7, <2>1, <2>2, ErasePlaced DEF RevokeByCustomer, history
  <1>8. CASE SoftDeleteCustomer(q, stored, ok)
    <2>1. req[q].pc = "customer" /\ req[q].call.op = "erase"
      BY <1>0, <1>8 DEF SoftDeleteCustomer, PlacedAt
    <2>2. deleted' \subseteq Customers /\ erased' \subseteq Customers
      BY <1>0, <1>8, <1>c, <2>1 DEF SoftDeleteCustomer
    <2> QED
      BY <1>0, <1>8, <2>1, <2>2, AnswerPlaced DEF SoftDeleteCustomer
  <1> QED
    BY <1>1, <1>2, <1>3, <1>4, <1>5, <1>6, <1>7, <1>8 DEF Writes

LEMMA RecordTyped ==
  ASSUME Typed, NEW q \in Slots, NEW written \in BOOLEAN, Record(q, written)
  PROVE  /\ req' \in [Slots -> Requests] /\ Same(q) /\ PlacedAt(q)'
         /\ trail' \subseteq [event : AuditEvent, ok : BOOLEAN] /\ lost' \subseteq AuditEvent
         /\ UNCHANGED <<tables, erased, sent>>
  <1>0. /\ req[q] \in Requests /\ req[q].pc = "audit"
        /\ req[q].key \in APIKeys /\ req[q].call.op # "read"
    BY DEF Typed, ApiTypeOK, Placed, Record, Requests
  <1>1. Customer(q) \in Customers /\ req[q].call \in Calls /\ req[q].ok \in BOOLEAN
    BY <1>0 DEF Customer, Requests
  <1>2. EventOf(q) \in AuditEvent
    BY <1>0, <1>1, CallFacts DEF EventOf, AuditEvent
  <1>3. [event |-> EventOf(q), ok |-> req[q].ok] \in [event : AuditEvent, ok : BOOLEAN]
    BY <1>1, <1>2
  <1>4. trail' \subseteq [event : AuditEvent, ok : BOOLEAN] /\ lost' \subseteq AuditEvent
    BY <1>2, <1>3 DEF Record, Typed, ApiTypeOK
  <1>5. req' \in [Slots -> Requests] /\ req'[q] = Nobody /\ Same(q)
    BY EndsTyped DEF Record
  <1>6. PlacedAt(q)'
    BY <1>5 DEF PlacedAt, Nobody
  <1> QED
    BY <1>4, <1>5, <1>6 DEF Record

LEMMA DiesTyped ==
  ASSUME Typed, NEW q \in Slots, Dies(q)
  PROVE  /\ req' \in [Slots -> Requests] /\ Same(q) /\ PlacedAt(q)'
         /\ lost' \subseteq AuditEvent
         /\ UNCHANGED <<tables, trail, erased, sent>>
  <1>1. ASSUME req[q].pc \in {"keys", "customer", "audit"} PROVE EventOf(q) \in AuditEvent
    <2>1. Customer(q) \in Customers /\ req[q].call \in Calls /\ req[q].call.op # "read"
      BY <1>1 DEF Typed, ApiTypeOK, Placed, Customer
    <2> QED
      BY <2>1, CallFacts DEF EventOf, AuditEvent
  <1>2. lost' \subseteq AuditEvent
    BY <1>1 DEF Dies, Typed, ApiTypeOK
  <1>3. req' \in [Slots -> Requests] /\ req'[q] = Nobody /\ Same(q)
    BY EndsTyped DEF Dies
  <1>4. PlacedAt(q)'
    BY <1>3 DEF PlacedAt, Nobody
  <1> QED
    BY <1>2, <1>3, <1>4 DEF Dies

LEMMA ExpireTyped ==
  ASSUME Typed, NEW a \in APIKeys, Expire(a)
  PROVE  Typed'
  <1>0. key \in [APIKeys -> KeyRow] /\ key' = [key EXCEPT ![a].expiry = "passed"]
    BY DEF Typed, ApiTypeOK, Expire
  <1>1. key' \in [APIKeys -> KeyRow]
    BY <1>0 DEF KeyRow
  <1>2. UNCHANGED <<zone, deleted, req, history>>
    BY DEF Expire
  <1>3. ApiTypeOK'
    BY <1>1, <1>2 DEF Typed, ApiTypeOK, history
  <1>4. Placed'
    BY <1>2 DEF Typed, Placed, Customer
  <1> QED
    BY <1>3, <1>4 DEF Typed

LEMMA TypedNext == Typed /\ [ApiNext]_apiVars => Typed'
  <1> SUFFICES ASSUME Typed, [ApiNext]_apiVars PROVE Typed'
    OBVIOUS
  <1>1. CASE UNCHANGED apiVars
    BY <1>1 DEF apiVars, tables, history, Typed, ApiTypeOK, Placed, Customer
  <1>2. ASSUME NEW a \in APIKeys, Expire(a) PROVE Typed'
    BY <1>2, ExpireTyped
  <1>3. ASSUME NEW q \in Slots, NEW a \in APIKeys, NEW call \in Calls, Arrive(q, a, call)
        PROVE  Typed'
    BY <1>3, ArriveTyped, PlacedNext DEF Arrive, tables, Typed, ApiTypeOK, Requests
  <1>4. ASSUME NEW q \in Slots,
               \/ GetByPrefix(q) \/ Authenticate(q) \/ Read(q) \/ Forbid(q)
               \/ ReadZone(q) \/ RefuseErasure(q)
        PROVE  Typed'
    BY <1>4, QuietTyped, PlacedNext DEF tables, history, Typed, ApiTypeOK, Requests
  <1>5. ASSUME NEW q \in Slots, NEW stored \in BOOLEAN, NEW ok \in BOOLEAN,
               Writes(q, stored, ok)
        PROVE  Typed'
    BY <1>5, WritesTyped, PlacedNext DEF Typed, ApiTypeOK, Requests
  <1>6. ASSUME NEW q \in Slots, NEW written \in BOOLEAN, Record(q, written)
        PROVE  Typed'
    BY <1>6, RecordTyped, PlacedNext DEF tables, Typed, ApiTypeOK, Requests
  <1>7. ASSUME NEW q \in Slots, Dies(q) PROVE Typed'
    BY <1>7, DiesTyped, PlacedNext DEF tables, Typed, ApiTypeOK, Requests
  <1> QED
    BY <1>1, <1>2, <1>3, <1>4, <1>5, <1>6, <1>7 DEF ApiNext, RequestStep

LEMMA TypedAlways == ApiSpec => []Typed
  BY TypedInit, TypedNext, PTL DEF ApiSpec

\* The tables, the requests, the audit and the history keep their types.
THEOREM ApiTypeCorrect == ApiSpec => []ApiTypeOK
  <1>1. Typed => ApiTypeOK
    BY DEF Typed
  <1> QED
    BY <1>1, TypedAlways, PTL

\* The steps behind the authentication that do not end a request.
LEMMA HandlerSteps ==
  ASSUME Typed, NEW q \in Slots,
         \/ Forbid(q) \/ ReadZone(q) \/ RefuseErasure(q)
         \/ \E stored, ok \in BOOLEAN : Writes(q, stored, ok)
  PROVE  /\ req[q].pc \in {"handle", "zone", "keys", "customer"}
         /\ req'[q].pc \in {"zone", "keys", "customer", "audit"}
         /\ Carries(q) /\ req'[q].alone = req[q].alone
         /\ Same(q) /\ req'[q].pc # req[q].pc
  <1> DEFINE Goal ==
         /\ req[q].pc \in {"handle", "zone", "keys", "customer"}
         /\ req'[q].pc \in {"zone", "keys", "customer", "audit"}
         /\ Carries(q) /\ req'[q].alone = req[q].alone
         /\ Same(q) /\ req'[q].pc # req[q].pc
  <1>0. req[q] \in Requests
    BY DEF Typed, ApiTypeOK, Requests
  <1>1. ASSUME NEW ok \in BOOLEAN, Answered(q, ok),
               req[q].pc \in {"handle", "zone", "keys", "customer"}
        PROVE  Goal
    BY <1>1, AnsweredTyped
  <1>2. ASSUME NEW pc \in {"keys", "customer"}, NEW ok \in BOOLEAN, EraseStep(q, pc, ok),
               req[q].pc \in {"handle", "keys"}, pc # req[q].pc
        PROVE  Goal
    <2>1. pc \in Places
      BY DEF Places
    <2> QED
      BY <1>2, <2>1, EraseStepTyped
  <1>3. CASE Forbid(q)
    BY <1>1, <1>3 DEF Forbid
  <1>4. CASE ReadZone(q)
    <2>1. req[q].call.on \in Customers
      BY <1>0, <1>4, CallFacts DEF ReadZone, Handles, Requests
    <2>2. CASE Found(q)
      BY <1>0, <1>4, <2>1, <2>2, FoundTyped DEF ReadZone, Handles, Requests
    <2> QED
      BY <1>1, <1>4, <2>2 DEF ReadZone, Handles
  <1>5. CASE RefuseErasure(q)
    BY <1>1, <1>5 DEF RefuseErasure, Handles
  <1>6. ASSUME NEW stored \in BOOLEAN, NEW ok \in BOOLEAN, Writes(q, stored, ok)
        PROVE  Goal
    <2>1. CASE SoftDeleteZones(q, stored, ok)
      BY <1>2, <2>1 DEF SoftDeleteZones, Handles
    <2>2. CASE RevokeByCustomer(q, stored, ok)
      BY <1>2, <2>2 DEF RevokeByCustomer
    <2>3. CASE SoftDeleteCustomer(q, stored, ok)
      BY <1>1, <2>3 DEF SoftDeleteCustomer
    <2>4. CASE CreateAPIKey(q, stored, ok) \/ RevokeAPIKey(q, stored, ok) \/ CreateZone(q, stored, ok)
      BY <1>1, <2>4 DEF CreateAPIKey, RevokeAPIKey, CreateZone, Handles
    <2>5. CASE UpdateZone(q, stored, ok) \/ DeleteZone(q, stored, ok)
      BY <1>1, <2>5 DEF UpdateZone, DeleteZone, WriteZone
    <2> HIDE DEF Goal
    <2> QED
      BY <1>6, <2>1, <2>2, <2>3, <2>4, <2>5 DEF Writes
  <1> QED
    BY <1>3, <1>4, <1>5, <1>6

----------------------------------------------------------------------------
(***************************************************************************)
(* Keys.                                                                   *)
(***************************************************************************)
\* What is dead stays dead, and no row goes away.
Aged(a) ==
    /\ key[a].status # "none" => key'[a].status # "none"
    /\ key[a].status = "revoked" => key'[a].status = "revoked"
    /\ key[a].status # "none" /\ key[a].expiry = "passed" => key'[a].expiry = "passed"

LEMMA KeysAge ==
  ASSUME Typed, [ApiNext]_apiVars, NEW a \in APIKeys
  PROVE  Aged(a)
  <1>0. key \in [APIKeys -> KeyRow]
    BY DEF Typed, ApiTypeOK
  <1>1. CASE UNCHANGED key
    BY <1>1 DEF Aged
  <1>2. ASSUME NEW b \in APIKeys, Expire(b) PROVE Aged(a)
    BY <1>0, <1>2 DEF Expire, Aged, KeyRow
  <1>3. ASSUME NEW q \in Slots, NEW stored \in BOOLEAN, NEW ok \in BOOLEAN,
               CreateAPIKey(q, stored, ok)
        PROVE  Aged(a)
    BY <1>0, <1>3 DEF CreateAPIKey, Aged
  <1>4. ASSUME NEW q \in Slots, NEW stored \in BOOLEAN, NEW ok \in BOOLEAN,
               RevokeAPIKey(q, stored, ok)
        PROVE  Aged(a)
    BY <1>0, <1>4 DEF RevokeAPIKey, Aged, KeyRow
  <1>5. ASSUME NEW q \in Slots, NEW stored \in BOOLEAN, NEW ok \in BOOLEAN,
               RevokeByCustomer(q, stored, ok)
        PROVE  Aged(a)
    BY <1>0, <1>5 DEF RevokeByCustomer, OwnKey, Aged, KeyRow
  <1>6. ASSUME NEW q \in Slots, NEW stored \in BOOLEAN, NEW ok \in BOOLEAN,
               Writes(q, stored, ok)
        PROVE  Aged(a)
    BY <1>1, <1>3, <1>4, <1>5, <1>6
    DEF Writes, CreateZone, UpdateZone, DeleteZone, WriteZone, SoftDeleteZones,
        SoftDeleteCustomer
  <1>7. ASSUME NEW q \in Slots,
               \/ GetByPrefix(q) \/ Authenticate(q) \/ Read(q) \/ Forbid(q)
               \/ ReadZone(q) \/ RefuseErasure(q)
        PROVE  Aged(a)
    BY <1>1, <1>7, QuietTyped DEF tables
  <1>8. CASE UNCHANGED apiVars
    BY <1>1, <1>8 DEF apiVars, tables
  <1> QED
    BY <1>1, <1>2, <1>6, <1>7, <1>8 DEF ApiNext, RequestStep, Arrive, Record, Dies, tables

\* A late request is stopped by the lookup or by the expiry it looks at.
Late(q) ==
    req[q].late => \/ req[q].pc = "arrived" /\ Dead(req[q].key)
                   \/ req[q].pc = "found" /\ key[req[q].key].expiry = "passed"

Known(q) == req[q].pc # "idle" => key[req[q].key].status # "none"

LateIsStopped == \A q \in Slots : Late(q) /\ Known(q)

LEMMA LateKept ==
  ASSUME Typed, LateIsStopped, [ApiNext]_apiVars, NEW o \in Slots,
         req'[o].pc = req[o].pc, req'[o].key = req[o].key, req'[o].late = req[o].late
  PROVE  (Late(o) /\ Known(o))'
  <1>1. CASE req[o].pc = "idle"
    BY <1>1 DEF LateIsStopped, Late, Known
  <1>2. CASE req[o].pc # "idle"
    <2>1. req[o].key \in APIKeys
      BY <1>2 DEF Typed, Placed
    <2>2. Aged(req[o].key)
      BY <2>1, KeysAge
    <2> QED
      BY <1>2, <2>2 DEF LateIsStopped, Late, Known, Dead, Aged
  <1> QED
    BY <1>1, <1>2

LEMMA LateNext == Typed /\ LateIsStopped /\ [ApiNext]_apiVars => LateIsStopped'
  <1> SUFFICES ASSUME Typed, LateIsStopped, [ApiNext]_apiVars PROVE LateIsStopped'
    OBVIOUS
  <1>0. ASSUME NEW q \in Slots, Same(q), (Late(q) /\ Known(q))' PROVE LateIsStopped'
    <2>1. \A o \in Slots \ {q} : (Late(o) /\ Known(o))'
      BY <1>0, LateKept DEF Same
    <2> QED
      BY <1>0, <2>1 DEF LateIsStopped
  <1>1. CASE UNCHANGED req
    BY <1>1, LateKept DEF LateIsStopped
  <1>2. ASSUME NEW q \in Slots, NEW a \in APIKeys, NEW call \in Calls, Arrive(q, a, call)
        PROVE  LateIsStopped'
    <2>1. /\ req'[q].pc = "arrived" /\ req'[q].key = a /\ Same(q)
          /\ req'[q].late => Dead(a)
      BY <1>2, ArriveTyped
    <2>2. (Late(q) /\ Known(q))'
      BY <1>2, <2>1 DEF Arrive, tables, Late, Known, Dead
    <2> QED
      BY <1>0, <2>1, <2>2
  <1>3. ASSUME NEW q \in Slots, Same(q), req'[q] = Nobody PROVE LateIsStopped'
    BY <1>0, <1>3 DEF Late, Known, Nobody
  <1>4. ASSUME NEW q \in Slots, GetByPrefix(q) PROVE LateIsStopped'
    <2>1. req[q] \in Requests /\ req[q].pc = "arrived" /\ UNCHANGED key
      BY <1>4 DEF Typed, ApiTypeOK, Requests, GetByPrefix, tables
    <2>2. CASE key[req[q].key].status = "live" /\ Joins(q)
      <3>1. /\ req'[q].pc = "found" /\ req'[q].key = req[q].key
            /\ req'[q].late = req[q].late /\ Same(q)
        BY <2>2, JoinsTyped DEF Carries
      <3>2. (Late(q) /\ Known(q))'
        BY <2>1, <2>2, <3>1 DEF LateIsStopped, Late, Known, Dead
      <3> QED
        BY <1>0, <3>1, <3>2
    <2>3. CASE Ends(q)
      BY <1>3, <2>3, EndsTyped
    <2> QED
      BY <1>4, <2>2, <2>3 DEF GetByPrefix
  <1>5. ASSUME NEW q \in Slots, Authenticate(q) PROVE LateIsStopped'
    <2>1. req[q] \in Requests /\ req[q].pc = "found" /\ UNCHANGED key
      BY <1>5 DEF Typed, ApiTypeOK, Requests, Authenticate, tables
    <2>2. CASE key[req[q].key].expiry # "passed" /\ Moves(q, "handle")
      <3>1. /\ req'[q].pc = "handle" /\ req'[q].key = req[q].key
            /\ req'[q].late = req[q].late /\ Same(q)
        <4>1. "handle" \in Places
          BY DEF Places
        <4> QED
          BY <2>2, <4>1, MovesTyped DEF Carries
      <3>2. (Late(q) /\ Known(q))'
        BY <2>1, <2>2, <3>1 DEF LateIsStopped, Late, Known
      <3> QED
        BY <1>0, <3>1, <3>2
    <2>3. CASE Ends(q)
      BY <1>3, <2>3, EndsTyped
    <2> QED
      BY <1>5, <2>2, <2>3 DEF Authenticate
  <1>6. ASSUME NEW q \in Slots, Same(q), req'[q].key = req[q].key,
               req[q].pc \notin {"idle", "arrived", "found"}, req'[q].late = req[q].late
        PROVE  LateIsStopped'
    <2>1. req[q].key \in APIKeys /\ Aged(req[q].key)
      BY <1>6, KeysAge DEF Typed, Placed
    <2>2. (Late(q) /\ Known(q))'
      BY <1>6, <2>1 DEF LateIsStopped, Late, Known, Aged
    <2> QED
      BY <1>0, <1>6, <2>2
  <1>7. ASSUME NEW q \in Slots,
               \/ Forbid(q) \/ ReadZone(q) \/ RefuseErasure(q)
               \/ \E stored, ok \in BOOLEAN : Writes(q, stored, ok)
        PROVE  LateIsStopped'
    BY <1>6, <1>7, HandlerSteps DEF Carries
  <1>8. ASSUME NEW q \in Slots, Ends(q) PROVE LateIsStopped'
    BY <1>3, <1>8, EndsTyped
  <1> QED
    BY <1>1, <1>2, <1>4, <1>5, <1>7, <1>8
    DEF ApiNext, RequestStep, Expire, Read, Record, Dies, apiVars

LEMMA LateInit == ApiInit => LateIsStopped
  BY DEF ApiInit, LateIsStopped, Late, Known, Nobody

\* A request sent with a dead key never gets past the authentication.
THEOREM DeadKeyHolds == ApiSpec => []DeadKeyIsRefused
  <1>1. LateIsStopped => DeadKeyIsRefused
    BY DEF LateIsStopped, Late, DeadKeyIsRefused
  <1> QED
    BY <1>1, LateInit, LateNext, TypedAlways, PTL DEF ApiSpec

----------------------------------------------------------------------------
(***************************************************************************)
(* Tenants.                                                                *)
(***************************************************************************)
LEMMA OwnRows ==
  ASSUME Typed, NEW q \in Slots, NEW stored \in BOOLEAN, NEW ok \in BOOLEAN,
         Writes(q, stored, ok)
  PROVE  /\ \A a \in APIKeys : key'[a].status # key[a].status => Owner[a] = Customer(q)
         /\ \A c \in Customers : zone'[c] # zone[c] => c = Customer(q)
         /\ \A c \in Customers : c \in deleted' /\ c \notin deleted => c = Customer(q)
         /\ deleted \subseteq deleted'
         /\ q \in UnderWay /\ Acts(Customer(q))
  <1>0. key \in [APIKeys -> KeyRow] /\ zone \in [Customers -> ZoneRow]
    BY DEF Typed, ApiTypeOK
  <1>1. q \in UnderWay /\ Acts(Customer(q))
    <2>1. req[q].pc \in {"handle", "zone", "keys", "customer"} /\ req'[q].pc # req[q].pc
      BY HandlerSteps
    <2> QED
      BY <2>1 DEF Acts, UnderWay
  <1>2. \A a \in APIKeys : key'[a].status # key[a].status => Owner[a] = Customer(q)
    <2>1. CASE CreateAPIKey(q, stored, ok)
      BY <1>0, <2>1 DEF CreateAPIKey
    <2>2. CASE RevokeAPIKey(q, stored, ok)
      BY <1>0, <2>2 DEF RevokeAPIKey, OwnKey
    <2>3. CASE RevokeByCustomer(q, stored, ok)
      BY <1>0, <2>3 DEF RevokeByCustomer, OwnKey
    <2>4. CASE UNCHANGED key
      BY <2>4
    <2> QED
      BY <2>1, <2>2, <2>3, <2>4
      DEF Writes, CreateZone, UpdateZone, DeleteZone, WriteZone, SoftDeleteZones,
          SoftDeleteCustomer
  <1>3. \A c \in Customers : zone'[c] # zone[c] => c = Customer(q)
    <2>1. CASE CreateZone(q, stored, ok)
      BY <1>0, <2>1 DEF CreateZone
    <2>2. CASE UpdateZone(q, stored, ok) \/ DeleteZone(q, stored, ok)
      <3>1. req[q].call.on = Customer(q)
        BY <2>2 DEF UpdateZone, DeleteZone, WriteZone, Typed, Placed
      <3> QED
        BY <1>0, <2>2, <3>1 DEF UpdateZone, DeleteZone, WriteZone
    <2>3. CASE SoftDeleteZones(q, stored, ok)
      BY <1>0, <2>3 DEF SoftDeleteZones
    <2>4. CASE UNCHANGED zone
      BY <2>4
    <2> QED
      BY <2>1, <2>2, <2>3, <2>4
      DEF Writes, CreateAPIKey, RevokeAPIKey, RevokeByCustomer, SoftDeleteCustomer
  <1>4. /\ \A c \in Customers : c \in deleted' /\ c \notin deleted => c = Customer(q)
        /\ deleted \subseteq deleted'
    BY DEF Writes, CreateAPIKey, RevokeAPIKey, RevokeByCustomer, SoftDeleteCustomer,
           CreateZone, UpdateZone, DeleteZone, WriteZone, SoftDeleteZones
  <1> QED
    BY <1>1, <1>2, <1>3, <1>4

LEMMA OwnRowsNext == Typed /\ [ApiNext]_apiVars => [WritesOwnRows]_apiVars
  <1> SUFFICES ASSUME Typed, ApiNext PROVE WritesOwnRows
    BY DEF apiVars
  <1>1. CASE UNCHANGED <<zone, deleted>> /\ \A a \in APIKeys : key'[a].status = key[a].status
    BY <1>1 DEF WritesOwnRows
  <1>2. ASSUME NEW a \in APIKeys, Expire(a) PROVE WritesOwnRows
    <2>1. key \in [APIKeys -> KeyRow]
      BY DEF Typed, ApiTypeOK
    <2> QED
      BY <1>1, <1>2, <2>1 DEF Expire, KeyRow
  <1>3. ASSUME NEW q \in Slots, NEW stored \in BOOLEAN, NEW ok \in BOOLEAN,
               Writes(q, stored, ok)
        PROVE  WritesOwnRows
    BY <1>3, OwnRows DEF WritesOwnRows
  <1> QED
    BY <1>1, <1>2, <1>3
    DEF ApiNext, RequestStep, Arrive, GetByPrefix, Authenticate, Read, Forbid,
        ReadZone, RefuseErasure, Record, Dies, tables

\* The rows of a customer change by requests of the customer alone.
THEOREM TenantsApartHolds == ApiSpec => TenantsApart
  BY OwnRowsNext, TypedAlways, PTL DEF ApiSpec, TenantsApart

----------------------------------------------------------------------------
(***************************************************************************)
(* Requests that no other request of the customer overlaps.                *)
(***************************************************************************)
Closed(c) ==
    /\ zone[c].status # "live"
    /\ \A a \in APIKeys : Owner[a] = c => key[a].status \in {"none", "revoked"}

\* What such a request has done so far is still there.
AloneAt(o) ==
    o \in UnderWay /\ req[o].alone =>
        /\ Beside(o) = {}
        /\ req[o].pc = "keys" /\ req[o].ok => zone[Customer(o)].status # "live"
        /\ req[o].pc = "customer" /\ req[o].ok => Closed(Customer(o))
        /\ req[o].pc = "zone" => req[o].copy = zone[Customer(o)].settings

Undisturbed == (\A o \in Slots : AloneAt(o)) /\ ErasedIsSilent

LEMMA UndisturbedInit == ApiInit => Undisturbed
  BY DEF ApiInit, Undisturbed, AloneAt, UnderWay, ErasedIsSilent, Nobody

\* Steps of other requests that neither join nor touch the customer's rows.
LEMMA AloneKept ==
  ASSUME Typed, Undisturbed, NEW q \in Slots, NEW o \in Slots \ {q}, Same(q),
         q \in UnderWay' => q \in UnderWay /\ Carries(q),
         o \in UnderWay /\ req[o].alone =>
            /\ zone'[Customer(o)] = zone[Customer(o)]
            /\ \A a \in APIKeys : Owner[a] = Customer(o) => key'[a].status = key[a].status
  PROVE  AloneAt(o)'
  <1> SUFFICES ASSUME (o \in UnderWay /\ req[o].alone)' PROVE AloneAt(o)'
    BY DEF AloneAt
  <1>1. /\ req'[o].pc = req[o].pc /\ req'[o].key = req[o].key /\ req'[o].ok = req[o].ok
        /\ req'[o].copy = req[o].copy /\ req[o].alone /\ o \in UnderWay
    BY DEF Same, UnderWay
  <1>2. AloneAt(o) /\ Customer(o)' = Customer(o)
    BY <1>1 DEF Undisturbed, Customer
  <1>3. Beside(o)' = {}
    <2> SUFFICES ASSUME NEW p \in Slots \ {o}, p \in UnderWay', Customer(p)' = Customer(o)'
                 PROVE  p \in Beside(o)
      BY <1>1, <1>2 DEF AloneAt, Beside, UnderWay
    <2>1. p \in UnderWay /\ Customer(p)' = Customer(p)
      BY DEF Same, Carries, UnderWay, Customer
    <2> QED
      BY <1>2, <2>1 DEF Beside
  <1> QED
    BY <1>1, <1>2, <1>3 DEF AloneAt, Closed

\* What was erased stays as it is while nobody joins for the customer.
LEMMA ErasedKept ==
  ASSUME Typed, Undisturbed, NEW q \in Slots, Same(q), NEW c \in erased,
         q \in UnderWay' /\ Customer(q)' = c => q \in UnderWay /\ Carries(q),
         deleted \subseteq deleted', zone'[c] = zone[c],
         \A a \in APIKeys : Owner[a] = c => key'[a].status = key[a].status
  PROVE  /\ c \in deleted' /\ Closed(c)'
         /\ \A o \in UnderWay' : Customer(o)' # c
  <1>1. /\ c \in deleted /\ Closed(c)
        /\ \A o \in UnderWay : Customer(o) # c
    BY DEF Undisturbed, ErasedIsSilent, Closed
  <1>2. ASSUME NEW o \in UnderWay', Customer(o)' = c PROVE FALSE
    <2>1. o \in UnderWay /\ Customer(o)' = Customer(o)
      BY <1>2 DEF Same, Carries, UnderWay, Customer
    <2> QED
      BY <1>1, <1>2, <2>1
  <1> QED
    BY <1>1, <1>2 DEF Closed

\* The request that takes the step, when it was under way before.
LEMMA BesideKept ==
  ASSUME Typed, Undisturbed, NEW q \in Slots, Same(q), Carries(q),
         q \in UnderWay, req[q].alone
  PROVE  Beside(q)' = {} /\ Customer(q)' = Customer(q)
  <1>1. Beside(q) = {}
    BY DEF Undisturbed, AloneAt
  <1>2. ASSUME NEW p \in Slots \ {q}, p \in UnderWay', Customer(p)' = Customer(q)'
        PROVE  FALSE
    <2>1. p \in UnderWay /\ Customer(p) = Customer(q)
      BY <1>2 DEF Same, Carries, UnderWay, Customer
    <2> QED
      BY <1>1, <2>1 DEF Beside
  <1>3. Beside(q)' = {}
    BY <1>2 DEF Beside, UnderWay
  <1> QED
    BY <1>3 DEF Carries, Customer

LEMMA NoRowTouched ==
  ASSUME Typed, Undisturbed, NEW q \in Slots, Same(q),
         UNCHANGED <<key, zone, deleted, erased>>,
         q \in UnderWay' => q \in UnderWay /\ Carries(q),
         AloneAt(q)'
  PROVE  Undisturbed'
  <1>1. \A o \in Slots \ {q} : AloneAt(o)'
    BY AloneKept
  <1>2. ASSUME NEW c \in erased
        PROVE  c \in deleted' /\ Closed(c)' /\ \A o \in UnderWay' : Customer(o)' # c
    BY <1>2, ErasedKept
  <1>3. ErasedIsSilent'
    BY <1>2 DEF ErasedIsSilent, Closed
  <1> QED
    BY <1>1, <1>3 DEF Undisturbed

LEMMA JoinsUndisturbed ==
  ASSUME Typed, Undisturbed, NEW q \in Slots, GetByPrefix(q), Joins(q),
         key[req[q].key].status = "live"
  PROVE  Undisturbed'
  <1>1. /\ Same(q) /\ Carries(q) /\ req'[q].pc = "found"
        /\ req'[q].alone => Beside(q) = {}
        /\ \A o \in Slots \ {q} : req'[o].alone => o \notin Beside(q)
    BY JoinsTyped
  <1>2. /\ UNCHANGED <<key, zone, deleted, erased>> /\ req[q].pc = "arrived"
        /\ req[q].key \in APIKeys
    BY DEF GetByPrefix, tables, history, Typed, Placed
  <1>3. /\ Customer(q)' = Customer(q) /\ q \notin UnderWay
        /\ \A o \in Slots \ {q} : /\ Customer(o)' = Customer(o)
                                 /\ o \in UnderWay' <=> o \in UnderWay
    BY <1>1, <1>2 DEF Carries, Same, Customer, UnderWay
  <1>4. AloneAt(q)'
    <2> SUFFICES ASSUME req'[q].alone PROVE Beside(q)' = {}
      BY <1>1 DEF AloneAt
    <2>1. Beside(q) = {}
      BY <1>1
    <2>2. ASSUME NEW p \in Slots \ {q}, p \in UnderWay', Customer(p)' = Customer(q)'
          PROVE  FALSE
      <3>1. p \in UnderWay /\ Customer(p) = Customer(q)
        BY <1>1, <2>2 DEF Same, Carries, UnderWay, Customer
      <3> QED
        BY <2>1, <3>1 DEF Beside
    <2> QED
      BY <2>2 DEF Beside, UnderWay
  <1>5. ASSUME NEW o \in Slots \ {q} PROVE AloneAt(o)'
    <2> SUFFICES ASSUME (o \in UnderWay /\ req[o].alone)' PROVE AloneAt(o)'
      BY DEF AloneAt
    <2>1. o \in UnderWay /\ req[o].alone /\ o \notin Beside(q)
      BY <1>1, <1>3, <1>5 DEF Same, UnderWay
    <2>2. AloneAt(o) /\ Customer(o) # Customer(q)
      BY <1>5, <2>1 DEF Undisturbed, Beside
    <2>3. ASSUME NEW p \in Slots \ {o}, p \in UnderWay', Customer(p)' = Customer(o)'
          PROVE  FALSE
      <3>1. Customer(p)' = Customer(p) /\ Customer(o)' = Customer(o)
        BY <1>1, <1>5 DEF Same, Carries, Customer
      <3>2. p # q /\ p \in UnderWay
        BY <1>1, <2>2, <2>3, <3>1 DEF Same, UnderWay
      <3> QED
        BY <2>1, <2>2, <2>3, <3>1, <3>2 DEF AloneAt, Beside
    <2>4. Beside(o)' = {}
      BY <2>3 DEF Beside, UnderWay
    <2> QED
      BY <1>1, <1>2, <1>3, <1>5, <2>1, <2>2, <2>4 DEF AloneAt, Closed, Same
  <1>6. ASSUME NEW c \in erased
        PROVE  c \in deleted' /\ Closed(c)' /\ \A o \in UnderWay' : Customer(o)' # c
    <2>1. Customer(q) # c
      BY <1>2, <1>6 DEF Undisturbed, ErasedIsSilent, Customer
    <2> QED
      BY <1>1, <1>2, <1>3, <1>6, <2>1, ErasedKept
  <1>7. ErasedIsSilent'
    BY <1>2, <1>6 DEF ErasedIsSilent, Closed
  <1> QED
    BY <1>4, <1>5, <1>7 DEF Undisturbed

LEMMA QuietUndisturbed ==
  ASSUME Typed, Undisturbed, NEW q \in Slots,
         \/ GetByPrefix(q) \/ Authenticate(q) \/ Read(q) \/ Forbid(q)
         \/ ReadZone(q) \/ RefuseErasure(q)
  PROVE  Undisturbed'
  <1>0. Same(q) /\ UNCHANGED <<key, zone, deleted, erased>>
    BY QuietTyped DEF tables, history
  <1>1. ASSUME req'[q].pc \in {"idle", "audit"} PROVE Undisturbed'
    <2>1. q \notin UnderWay' /\ AloneAt(q)'
      BY <1>1 DEF UnderWay, AloneAt
    <2> QED
      BY <1>0, <2>1, NoRowTouched
  <1>2. ASSUME Ends(q) PROVE Undisturbed'
    BY <1>1, <1>2, EndsTyped DEF Nobody
  <1>3. ASSUME Answered(q, FALSE) PROVE Undisturbed'
    BY <1>1, <1>3, AnsweredTyped
  <1>4. CASE GetByPrefix(q)
    BY <1>2, <1>4, JoinsUndisturbed DEF GetByPrefix
  <1>5. CASE Authenticate(q)
    <2>1. CASE Moves(q, "handle")
      <3>1. "handle" \in Places
        BY DEF Places
      <3>2. req'[q].pc = "handle" /\ Carries(q) /\ req'[q].alone = req[q].alone
        BY <2>1, <3>1, MovesTyped
      <3>3. q \in UnderWay
        BY <1>5 DEF Authenticate, UnderWay
      <3>4. AloneAt(q)'
        BY <1>0, <3>2, <3>3, BesideKept DEF AloneAt
      <3> QED
        BY <1>0, <3>2, <3>3, <3>4, NoRowTouched
    <2> QED
      BY <1>2, <1>5, <2>1 DEF Authenticate
  <1>6. CASE ReadZone(q)
    <2>1. CASE req[q].call.on = Customer(q) /\ Found(q)
      <3>1. req[q].call.on \in Customers
        BY <1>6, CallFacts DEF ReadZone, Handles, Typed, ApiTypeOK
      <3>2. /\ req'[q].pc = "zone" /\ Carries(q) /\ req'[q].alone = req[q].alone
            /\ req'[q].copy = zone[Customer(q)].settings
        BY <2>1, <3>1, FoundTyped
      <3>3. q \in UnderWay
        BY <1>6 DEF ReadZone, Handles, UnderWay
      <3>4. AloneAt(q)'
        BY <1>0, <3>2, <3>3, BesideKept DEF AloneAt
      <3> QED
        BY <1>0, <3>2, <3>3, <3>4, NoRowTouched
    <2> QED
      BY <1>3, <1>6, <2>1 DEF ReadZone
  <1> QED
    BY <1>2, <1>3, <1>4, <1>5, <1>6 DEF Read, Forbid, RefuseErasure

LEMMA WritesUndisturbed ==
  ASSUME Typed, Undisturbed, NEW q \in Slots, NEW stored \in BOOLEAN, NEW ok \in BOOLEAN,
         Writes(q, stored, ok)
  PROVE  Undisturbed'
  <1>0. /\ Same(q) /\ Carries(q) /\ req'[q].alone = req[q].alone
        /\ req'[q].pc \in {"zone", "keys", "customer", "audit"}
        /\ req[q].key \in APIKeys
    BY HandlerSteps DEF Typed, Placed
  <1>1. /\ q \in UnderWay /\ deleted \subseteq deleted'
        /\ \A a \in APIKeys : key'[a].status # key[a].status => Owner[a] = Customer(q)
        /\ \A c \in Customers : zone'[c] # zone[c] => c = Customer(q)
    BY OwnRows
  <1>2. Customer(q) \in Customers /\ Customer(q)' = Customer(q)
    BY <1>0 DEF Customer, Carries
  <1>3. ASSUME NEW o \in Slots \ {q} PROVE AloneAt(o)'
    <2>1. ASSUME o \in UnderWay, req[o].alone
          PROVE  /\ zone'[Customer(o)] = zone[Customer(o)]
                 /\ \A a \in APIKeys : Owner[a] = Customer(o) => key'[a].status = key[a].status
      <3>1. Customer(o) # Customer(q)
        BY <1>1, <1>3, <2>1 DEF Undisturbed, AloneAt, Beside
      <3>2. Customer(o) \in Customers
        BY <1>3, <2>1 DEF Typed, Placed, UnderWay, Customer
      <3> QED
        BY <1>1, <3>1, <3>2
    <2> QED
      BY <1>0, <1>1, <1>3, <2>1, AloneKept
  <1>4. AloneAt(q)'
    <2> SUFFICES ASSUME q \in UnderWay', req'[q].alone PROVE AloneAt(q)'
      BY DEF AloneAt
    <2>1. Beside(q)' = {}
      BY <1>0, <1>1, BesideKept
    <2>2. CASE SoftDeleteZones(q, stored, ok)
      <3>1. "keys" \in Places
        BY DEF Places
      <3>2. req'[q].pc = "keys" /\ (req'[q].ok => stored)
        BY <2>2, <3>1, EraseStepTyped DEF SoftDeleteZones
      <3>3. stored => zone'[Customer(q)].status # "live"
        BY <1>2, <2>2 DEF SoftDeleteZones, Typed, ApiTypeOK, ZoneRow
      <3> QED
        BY <1>2, <2>1, <3>2, <3>3 DEF AloneAt
    <2>3. CASE RevokeByCustomer(q, stored, ok)
      <3>1. "customer" \in Places
        BY DEF Places
      <3>2. req'[q].pc = "customer" /\ (req'[q].ok => req[q].ok /\ stored)
        BY <2>3, <3>1, EraseStepTyped DEF RevokeByCustomer
      <3>3. req[q].ok => zone'[Customer(q)].status # "live"
        BY <1>0, <1>1, <2>3 DEF RevokeByCustomer, Undisturbed, AloneAt
      <3>4. ASSUME stored, NEW a \in APIKeys, Owner[a] = Customer(q)
            PROVE  key'[a].status \in {"none", "revoked"}
        BY <2>3, <3>4 DEF RevokeByCustomer, OwnKey, Typed, ApiTypeOK, KeyRow
      <3>5. req'[q].ok => Closed(Customer(q))'
        BY <3>2, <3>3, <3>4, <1>2 DEF Closed
      <3> QED
        BY <1>2, <2>1, <3>2, <3>5 DEF AloneAt
    <2>4. ASSUME Answered(q, ok) PROVE FALSE
      BY <2>4, AnsweredTyped DEF UnderWay
    <2> QED
      BY <2>2, <2>3, <2>4
      DEF Writes, CreateAPIKey, RevokeAPIKey, CreateZone, UpdateZone, DeleteZone, WriteZone,
          SoftDeleteCustomer
  <1>5. ASSUME NEW c \in erased
        PROVE  c \in deleted' /\ Closed(c)' /\ \A o \in UnderWay' : Customer(o)' # c
    <2>1. Customer(q) # c /\ c \in Customers
      BY <1>1, <1>5 DEF Undisturbed, ErasedIsSilent, Typed, ApiTypeOK
    <2> QED
      BY <1>0, <1>1, <1>5, <2>1, ErasedKept
  <1>6. ASSUME NEW c \in erased', c \notin erased
        PROVE  c \in deleted' /\ Closed(c)' /\ \A o \in UnderWay' : Customer(o)' # c
    <2>1. /\ SoftDeleteCustomer(q, stored, ok) /\ c = Customer(q)
          /\ ok /\ req[q].ok /\ req[q].alone /\ req[q].pc = "customer"
      BY <1>6
      DEF Writes, CreateAPIKey, RevokeAPIKey, RevokeByCustomer, SoftDeleteCustomer,
          CreateZone, UpdateZone, DeleteZone, WriteZone, SoftDeleteZones, history
    <2>2. Closed(c) /\ UNCHANGED <<key, zone>> /\ c \in deleted'
      BY <1>1, <2>1 DEF Undisturbed, AloneAt, SoftDeleteCustomer
    <2>3. ASSUME NEW o \in UnderWay', Customer(o)' = c PROVE FALSE
      <3>1. q \notin UnderWay'
        BY <2>1, AnsweredTyped DEF SoftDeleteCustomer, UnderWay
      <3>2. o \in UnderWay /\ o # q /\ Customer(o) = Customer(q)
        BY <1>0, <2>1, <2>3, <3>1 DEF Same, UnderWay, Customer
      <3> QED
        BY <1>1, <2>1, <3>2 DEF Undisturbed, AloneAt, Beside
    <2> QED
      BY <2>2, <2>3 DEF Closed
  <1>7. ErasedIsSilent'
    BY <1>5, <1>6 DEF ErasedIsSilent, Closed
  <1> QED
    BY <1>3, <1>4, <1>7 DEF Undisturbed

LEMMA UndisturbedNext == Typed /\ Undisturbed /\ [ApiNext]_apiVars => Undisturbed'
  <1> SUFFICES ASSUME Typed, Undisturbed, [ApiNext]_apiVars PROVE Undisturbed'
    OBVIOUS
  <1>1. CASE UNCHANGED apiVars
    BY <1>1
    DEF apiVars, tables, history, Undisturbed, AloneAt, ErasedIsSilent, UnderWay, Beside,
        Customer, Closed
  <1>2. ASSUME NEW a \in APIKeys, Expire(a) PROVE Undisturbed'
    <2>1. /\ \A b \in APIKeys : key'[b].status = key[b].status
          /\ UNCHANGED <<zone, deleted, req, erased>>
      BY <1>2 DEF Expire, history, Typed, ApiTypeOK, KeyRow
    <2> QED
      BY <2>1 DEF Undisturbed, AloneAt, ErasedIsSilent, UnderWay, Beside, Customer, Closed
  <1>3. ASSUME NEW q \in Slots, NEW a \in APIKeys, NEW call \in Calls, Arrive(q, a, call)
        PROVE  Undisturbed'
    <2>1. /\ Same(q) /\ req'[q].pc = "arrived"
          /\ UNCHANGED <<key, zone, deleted, erased>>
      BY <1>3, ArriveTyped DEF Arrive, tables
    <2>2. q \notin UnderWay' /\ AloneAt(q)'
      BY <2>1 DEF UnderWay, AloneAt
    <2> QED
      BY <2>1, <2>2, NoRowTouched
  <1>4. ASSUME NEW q \in Slots,
               \/ GetByPrefix(q) \/ Authenticate(q) \/ Read(q) \/ Forbid(q)
               \/ ReadZone(q) \/ RefuseErasure(q)
        PROVE  Undisturbed'
    BY <1>4, QuietUndisturbed
  <1>5. ASSUME NEW q \in Slots, NEW stored \in BOOLEAN, NEW ok \in BOOLEAN,
               Writes(q, stored, ok)
        PROVE  Undisturbed'
    BY <1>5, WritesUndisturbed
  <1>6. ASSUME NEW q \in Slots,
               Dies(q) \/ \E written \in BOOLEAN : Record(q, written)
        PROVE  Undisturbed'
    <2>1. Same(q) /\ req'[q] = Nobody /\ UNCHANGED <<key, zone, deleted, erased>>
      BY <1>6, EndsTyped DEF Record, Dies, tables
    <2>2. q \notin UnderWay' /\ AloneAt(q)'
      BY <2>1 DEF UnderWay, AloneAt, Nobody
    <2> QED
      BY <2>1, <2>2, NoRowTouched
  <1> QED
    BY <1>1, <1>2, <1>3, <1>4, <1>5, <1>6 DEF ApiNext, RequestStep

LEMMA UndisturbedAlways == ApiSpec => []Undisturbed
  BY UndisturbedInit, UndisturbedNext, TypedAlways, PTL DEF ApiSpec

\* An erasure that met no failure and no other request leaves nothing alive.
THEOREM ErasedHolds == ApiSpec => []ErasedIsSilent
  <1>1. Undisturbed => ErasedIsSilent
    BY DEF Undisturbed
  <1> QED
    BY <1>1, UndisturbedAlways, PTL

\* A patch that no other request overlaps changes the field it names alone.
LEMMA PatchNext == Typed /\ Undisturbed /\ [ApiNext]_apiVars => [PatchIsNarrow]_apiVars
  <1> SUFFICES ASSUME Typed, Undisturbed, ApiNext, NEW o \in Slots,
                      req[o].pc = "zone", req[o].call.op = "patch_zone", req[o].alone,
                      req'[o].pc = "audit", NEW c \in Customers, NEW f \in Fields,
                      zone'[c].settings[f] # zone[c].settings[f]
               PROVE  c = Customer(o) /\ f = req[o].call.patch.field
    BY DEF PatchIsNarrow, apiVars
  <1>1. PICK q \in Slots, stored \in BOOLEAN, ok \in BOOLEAN : Writes(q, stored, ok)
    <2>1. zone' # zone
      OBVIOUS
    <2> QED
      BY <2>1, QuietTyped DEF ApiNext, RequestStep, Expire, Arrive, Record, Dies, tables
  <1>2. q = o
    BY <1>1, HandlerSteps DEF Same
  <1>3. UpdateZone(o, stored, ok)
    BY <1>1, <1>2
    DEF Writes, CreateAPIKey, RevokeAPIKey, CreateZone, DeleteZone, SoftDeleteZones,
        RevokeByCustomer, SoftDeleteCustomer, Handles
  <1>4. /\ req[o].call.on = Customer(o) /\ Customer(o) \in Customers
        /\ req[o].copy \in Settings /\ o \in UnderWay
        /\ zone \in [Customers -> ZoneRow]
    BY DEF Typed, ApiTypeOK, Placed, Customer, UnderWay
  <1>5. req[o].copy = zone[Customer(o)].settings
    BY <1>4 DEF Undisturbed, AloneAt
  <1>6. c = Customer(o) /\ zone'[c].settings = Patched(o)
    BY <1>3, <1>4 DEF UpdateZone, WriteZone
  <1> QED
    BY <1>4, <1>5, <1>6 DEF Patched, Settings

THEOREM PatchKeepsOthersHolds == ApiSpec => PatchKeepsOthers
  BY PatchNext, TypedAlways, UndisturbedAlways, PTL DEF ApiSpec, PatchKeepsOthers

----------------------------------------------------------------------------
(***************************************************************************)
(* Audit.                                                                  *)
(***************************************************************************)
ZoneAged(c) ==
    /\ zone[c].status # "none" => zone'[c].status # "none"
    /\ zone[c].status = "deleted" => zone'[c].status = "deleted"

LEMMA ZonesAge ==
  ASSUME Typed, [ApiNext]_apiVars, NEW c \in Customers
  PROVE  ZoneAged(c) /\ deleted \subseteq deleted'
  <1>0. zone \in [Customers -> ZoneRow]
    BY DEF Typed, ApiTypeOK
  <1>1. CASE UNCHANGED <<zone, deleted>>
    BY <1>1 DEF ZoneAged
  <1>2. ASSUME NEW q \in Slots, NEW stored \in BOOLEAN, NEW ok \in BOOLEAN,
               Writes(q, stored, ok)
        PROVE  ZoneAged(c) /\ deleted \subseteq deleted'
    <2>1. CASE CreateZone(q, stored, ok)
      BY <1>0, <2>1 DEF CreateZone, ZoneAged
    <2>2. CASE UpdateZone(q, stored, ok) \/ DeleteZone(q, stored, ok)
      BY <1>0, <2>2 DEF UpdateZone, DeleteZone, WriteZone, ZoneAged, ZoneRow
    <2>3. CASE SoftDeleteZones(q, stored, ok)
      BY <1>0, <2>3 DEF SoftDeleteZones, ZoneAged, ZoneRow
    <2>4. CASE UNCHANGED zone
      BY <1>2, <2>4, OwnRows DEF ZoneAged
    <2> QED
      BY <1>2, <2>1, <2>2, <2>3, <2>4, OwnRows
      DEF Writes, CreateAPIKey, RevokeAPIKey, RevokeByCustomer, SoftDeleteCustomer
  <1>3. ASSUME NEW q \in Slots,
               \/ GetByPrefix(q) \/ Authenticate(q) \/ Read(q) \/ Forbid(q)
               \/ ReadZone(q) \/ RefuseErasure(q)
        PROVE  ZoneAged(c) /\ deleted \subseteq deleted'
    BY <1>1, <1>3, QuietTyped DEF tables
  <1>4. CASE UNCHANGED apiVars
    BY <1>1, <1>4 DEF apiVars, tables
  <1> QED
    BY <1>1, <1>2, <1>3, <1>4 DEF ApiNext, RequestStep, Expire, Arrive, Record, Dies, tables

\* The resource of an event is of the kind its operation is about.
Meant(e) ==
    /\ e \in AuditEvent
    /\ e.op = "revoke_key" => e.on \in APIKeys
    /\ e.op \in {"delete_zone", "patch_zone", "erase"} => e.on \in Customers

LEMMA EventsMeant ==
  ASSUME Typed, NEW q \in Slots, req[q].pc = "audit"
  PROVE  Meant(EventOf(q))
  <1>1. /\ req[q].call \in Calls /\ req[q].call.op # "read" /\ Customer(q) \in Customers
    BY DEF Typed, ApiTypeOK, Placed, Customer
  <1> QED
    BY <1>1, CallFacts DEF EventOf, Meant, AuditEvent

LEMMA HoldsOn ==
  ASSUME Typed, [ApiNext]_apiVars, NEW e, Meant(e), Holds(e)
  PROVE  Holds(e)'
  <1>1. e.by \in Customers /\ e.op \in {"create_key", "create_zone", "delete_zone", "erase",
                                        "revoke_key", "patch_zone"}
    BY DEF Meant, AuditEvent
  <1>2. CASE e.op = "create_key"
    <2>1. PICK a \in APIKeys \ Issued : Owner[a] = e.by /\ key[a].status # "none"
      BY <1>2 DEF Holds
    <2>2. Aged(a)
      BY <2>1, KeysAge
    <2> QED
      BY <1>2, <2>1, <2>2 DEF Holds, Aged
  <1>3. CASE e.op = "revoke_key"
    <2>1. e.on \in APIKeys /\ Aged(e.on)
      BY <1>3, KeysAge DEF Meant
    <2> QED
      BY <1>3, <2>1 DEF Holds, Aged
  <1>4. CASE e.op = "create_zone"
    <2>1. ZoneAged(e.by)
      BY <1>1, ZonesAge
    <2> QED
      BY <1>4, <2>1 DEF Holds, ZoneAged
  <1>5. CASE e.op \in {"patch_zone", "delete_zone", "erase"}
    <2>1. ZoneAged(e.on) /\ deleted \subseteq deleted'
      BY <1>5, ZonesAge DEF Meant
    <2> QED
      BY <1>5, <2>1 DEF Holds, ZoneAged
  <1> QED
    BY <1>1, <1>2, <1>3, <1>4, <1>5

\* What a request is about to report is true, and will be.
HonestAt(q) ==
    /\ req[q].pc = "audit" /\ req[q].ok => Holds(EventOf(q))
    /\ req[q].pc = "zone" => zone[req[q].call.on].status # "none"

Honest ==
    /\ \A t \in trail : t.ok => Meant(t.event) /\ Holds(t.event)
    /\ \A q \in Slots : HonestAt(q)
    /\ \A a \in Issued : key[a].status # "none"

LEMMA HonestInit == ApiInit => Honest
  <1> SUFFICES ASSUME ApiInit PROVE Honest
    OBVIOUS
  <1>1. \A q \in Slots : HonestAt(q)
    BY DEF ApiInit, HonestAt, Nobody
  <1>2. \A a \in Issued : key[a].status # "none"
    BY DEF ApiInit
  <1> QED
    BY <1>1, <1>2 DEF ApiInit, Honest

LEMMA HonestKept ==
  ASSUME Typed, Honest, [ApiNext]_apiVars, NEW o \in Slots,
         req'[o].pc = req[o].pc, req'[o].key = req[o].key, req'[o].call = req[o].call,
         req'[o].ok = req[o].ok
  PROVE  HonestAt(o)'
  <1>1. EventOf(o)' = EventOf(o)
    BY DEF EventOf, Customer
  <1>2. ASSUME req[o].pc = "audit", req[o].ok PROVE Holds(EventOf(o))'
    <2>1. Meant(EventOf(o)) /\ Holds(EventOf(o))
      BY <1>2, EventsMeant DEF Honest, HonestAt
    <2> DEFINE e == EventOf(o)
    <2>2. ASSUME NEW f, f = EventOf(o) PROVE Holds(f)'
      BY <2>1, <2>2, HoldsOn
    <2> QED
      BY <1>1, <2>2 DEF Holds
  <1>3. ASSUME req[o].pc = "zone" PROVE zone'[req[o].call.on].status # "none"
    <2>1. req[o].call.on \in Customers /\ zone[req[o].call.on].status # "none"
      BY <1>3 DEF Honest, HonestAt, Typed, Placed, Customer
    <2> QED
      BY <2>1, ZonesAge DEF ZoneAged
  <1> QED
    BY <1>2, <1>3 DEF HonestAt

\* A handler that reports success has done what it reports.
LEMMA AnswerHonest ==
  ASSUME Typed, Honest, NEW q \in Slots, NEW stored \in BOOLEAN, NEW ok \in BOOLEAN,
         Writes(q, stored, ok), ok,
         \/ CreateAPIKey(q, stored, ok) \/ RevokeAPIKey(q, stored, ok)
         \/ CreateZone(q, stored, ok) \/ UpdateZone(q, stored, ok)
         \/ DeleteZone(q, stored, ok) \/ SoftDeleteCustomer(q, stored, ok)
  PROVE  Holds(EventOf(q))'
  <1>0. /\ key \in [APIKeys -> KeyRow] /\ zone \in [Customers -> ZoneRow]
        /\ req[q].call \in Calls
        /\ req[q].key \in APIKeys /\ Customer(q) \in Customers
    <2>1. req[q].pc # "idle"
      BY HandlerSteps
    <2> QED
      BY <2>1 DEF Typed, ApiTypeOK, Placed, Customer
  <1>1. /\ EventOf(q)'.op = req[q].call.op /\ EventOf(q)'.by = Customer(q)
        /\ EventOf(q)'.on = req[q].call.on
    BY HandlerSteps DEF EventOf, Carries, Customer
  <1>2. CASE CreateAPIKey(q, stored, ok)
    <2>1. req[q].call.op = "create_key"
      BY <1>2 DEF CreateAPIKey, Handles
    <2>2. PICK b \in APIKeys : /\ key[b].status = "none" /\ Owner[b] = Customer(q)
                               /\ key'[b].status = "live"
      BY <1>0, <1>2 DEF CreateAPIKey
    <2>3. b \notin Issued
      BY <2>2 DEF Honest
    <2> QED
      BY <1>1, <2>1, <2>2, <2>3 DEF Holds
  <1>3. CASE RevokeAPIKey(q, stored, ok)
    <2>1. req[q].call.op = "revoke_key" /\ req[q].call.on \in APIKeys
      BY <1>0, <1>3, CallFacts DEF RevokeAPIKey, Handles
    <2>2. key'[req[q].call.on].status = "revoked"
      BY <1>0, <1>3, <2>1 DEF RevokeAPIKey, KeyRow
    <2> QED
      BY <1>1, <2>1, <2>2 DEF Holds
  <1>4. CASE CreateZone(q, stored, ok)
    <2>1. req[q].call.op = "create_zone" /\ zone'[Customer(q)].status = "live"
      BY <1>0, <1>4 DEF CreateZone, Handles
    <2> QED
      BY <1>1, <2>1 DEF Holds
  <1>5. CASE UpdateZone(q, stored, ok)
    <2>1. req[q].call.op = "patch_zone" /\ req[q].call.on \in Customers
      BY <1>0, <1>5, CallFacts DEF UpdateZone
    <2>2. zone'[req[q].call.on].status = "live"
      BY <1>0, <1>5, <2>1 DEF UpdateZone, WriteZone
    <2> QED
      BY <1>1, <2>1, <2>2 DEF Holds
  <1>6. CASE DeleteZone(q, stored, ok)
    <2>1. req[q].call.op = "delete_zone" /\ req[q].call.on \in Customers
      BY <1>0, <1>6, CallFacts DEF DeleteZone
    <2>2. zone[req[q].call.on].status # "none"
      BY <1>6 DEF DeleteZone, WriteZone, Honest, HonestAt
    <2>3. zone'[req[q].call.on].status = "deleted"
      BY <1>0, <1>6, <2>1, <2>2 DEF DeleteZone, WriteZone, ZoneRow
    <2> QED
      BY <1>1, <2>1, <2>3 DEF Holds
  <1>7. CASE SoftDeleteCustomer(q, stored, ok)
    <2>1. req[q].call.op = "erase" /\ req[q].call.on = Customer(q)
      BY <1>7 DEF SoftDeleteCustomer, Typed, Placed
    <2>2. Customer(q) \in deleted'
      BY <1>7 DEF SoftDeleteCustomer
    <2> QED
      BY <1>1, <2>1, <2>2 DEF Holds
  <1> QED
    BY <1>2, <1>3, <1>4, <1>5, <1>6, <1>7

LEMMA HonestNext == Typed /\ Honest /\ [ApiNext]_apiVars => Honest'
  <1> SUFFICES ASSUME Typed, Honest, [ApiNext]_apiVars PROVE Honest'
    OBVIOUS
  <1>1. \A a \in Issued : key'[a].status # "none"
    BY KeysAge DEF Honest, Aged
  <1>2. ASSUME UNCHANGED trail PROVE \A t \in trail' : t.ok => Meant(t.event) /\ Holds(t.event)'
    BY <1>2, HoldsOn DEF Honest
  <1>3. ASSUME NEW q \in Slots, Same(q), UNCHANGED trail, HonestAt(q)' PROVE Honest'
    <2>1. \A o \in Slots : HonestAt(o)'
      BY <1>3, HonestKept DEF Same
    <2> QED
      BY <1>1, <1>2, <1>3, <2>1 DEF Honest, Meant
  <1>4. CASE UNCHANGED <<req, trail>>
    <2>1. \A o \in Slots : HonestAt(o)'
      BY <1>4, HonestKept
    <2> QED
      BY <1>1, <1>2, <1>4, <2>1 DEF Honest, Meant
  <1>5. ASSUME NEW q \in Slots, Same(q), UNCHANGED trail,
               req'[q].pc \notin {"zone", "audit"}
        PROVE  Honest'
    BY <1>3, <1>5 DEF HonestAt
  <1>6. ASSUME NEW q \in Slots, UNCHANGED trail, Answered(q, FALSE) PROVE Honest'
    BY <1>3, <1>6, AnsweredTyped DEF HonestAt
  <1>7. ASSUME NEW q \in Slots, UNCHANGED trail, Ends(q) PROVE Honest'
    BY <1>5, <1>7, EndsTyped DEF Nobody
  <1>8. ASSUME NEW q \in Slots, NEW a \in APIKeys, NEW call \in Calls, Arrive(q, a, call)
        PROVE  Honest'
    BY <1>5, <1>8, ArriveTyped DEF Arrive
  <1>9. ASSUME NEW q \in Slots, GetByPrefix(q) PROVE Honest'
    BY <1>5, <1>7, <1>9, JoinsTyped DEF GetByPrefix, history
  <1>10. ASSUME NEW q \in Slots, Authenticate(q) PROVE Honest'
    <2>1. "handle" \in Places
      BY DEF Places
    <2>2. ASSUME Moves(q, "handle") PROVE Same(q) /\ req'[q].pc = "handle"
      BY <2>1, <2>2, MovesTyped
    <2> QED
      BY <1>5, <1>7, <1>10, <2>2 DEF Authenticate, history
  <1>11. ASSUME NEW q \in Slots, ReadZone(q) PROVE Honest'
    <2>1. UNCHANGED trail /\ UNCHANGED zone
      BY <1>11 DEF ReadZone, tables, history
    <2>2. CASE Found(q)
      <3>1. req[q].call.on \in Customers
        BY <1>11, CallFacts DEF ReadZone, Handles, Typed, ApiTypeOK
      <3>2. Same(q) /\ req'[q].pc = "zone" /\ req'[q].call = req[q].call
        BY <2>2, <3>1, FoundTyped DEF Carries
      <3>3. HonestAt(q)'
        BY <2>1, <2>2, <3>2 DEF Found, HonestAt
      <3> QED
        BY <1>3, <2>1, <3>2, <3>3
    <2> QED
      BY <1>6, <1>11, <2>1, <2>2 DEF ReadZone
  <1>12. ASSUME NEW q \in Slots, NEW stored \in BOOLEAN, NEW ok \in BOOLEAN,
                Writes(q, stored, ok)
         PROVE  Honest'
    <2>1. UNCHANGED trail /\ Same(q)
      BY <1>12, WritesTyped
    <2>2. ASSUME NEW pc \in {"keys", "customer"}, EraseStep(q, pc, ok) PROVE Honest'
      <3>1. pc \in Places
        BY DEF Places
      <3>2. req'[q].pc = pc
        BY <2>2, <3>1, EraseStepTyped
      <3> QED
        BY <1>5, <2>1, <3>2
    <2>3. ASSUME Answered(q, ok), ok => Holds(EventOf(q))' PROVE Honest'
      <3>1. HonestAt(q)'
        BY <2>3, AnsweredTyped DEF HonestAt
      <3> QED
        BY <1>3, <2>1, <3>1
    <2>4. CASE SoftDeleteZones(q, stored, ok) \/ RevokeByCustomer(q, stored, ok)
      BY <2>2, <2>4 DEF SoftDeleteZones, RevokeByCustomer
    <2>5. CASE \/ CreateAPIKey(q, stored, ok) \/ RevokeAPIKey(q, stored, ok)
               \/ CreateZone(q, stored, ok) \/ UpdateZone(q, stored, ok)
               \/ DeleteZone(q, stored, ok) \/ SoftDeleteCustomer(q, stored, ok)
      <3>1. ok => Holds(EventOf(q))'
        BY <1>12, <2>5, AnswerHonest
      <3>2. Answered(q, ok)
        BY <2>5
        DEF CreateAPIKey, RevokeAPIKey, CreateZone, UpdateZone, DeleteZone, WriteZone,
            SoftDeleteCustomer
      <3> QED
        BY <2>3, <3>1, <3>2
    <2> QED
      BY <1>12, <2>4, <2>5 DEF Writes
  <1>13. ASSUME NEW q \in Slots, NEW written \in BOOLEAN, Record(q, written) PROVE Honest'
    <2>1. Same(q) /\ req'[q] = Nobody /\ req[q].pc = "audit"
      BY <1>13, EndsTyped DEF Record
    <2>2. \A o \in Slots : HonestAt(o)'
      BY <2>1, HonestKept DEF Same, HonestAt, Nobody
    <2>3. ASSUME NEW t \in trail', t.ok PROVE Meant(t.event) /\ Holds(t.event)
      <3>1. CASE t \in trail
        BY <2>3, <3>1 DEF Honest
      <3>2. CASE t = [event |-> EventOf(q), ok |-> req[q].ok]
        BY <2>1, <2>3, <3>2, EventsMeant DEF Honest, HonestAt
      <3> QED
        BY <1>13, <3>1, <3>2 DEF Record
    <2>4. \A t \in trail' : t.ok => Meant(t.event) /\ Holds(t.event)'
      BY <2>3, HoldsOn
    <2> QED
      BY <1>1, <2>2, <2>4 DEF Honest, Meant
  <1>14. ASSUME NEW q \in Slots, Dies(q) PROVE Honest'
    <2>1. Same(q) /\ req'[q] = Nobody /\ trail' = trail
      BY <1>14, EndsTyped DEF Dies
    <2>2. \A o \in Slots : HonestAt(o)'
      BY <2>1, HonestKept DEF Same, HonestAt, Nobody
    <2>3. \A t \in trail' : t.ok => Meant(t.event) /\ Holds(t.event)'
      BY <2>1, HoldsOn DEF Honest
    <2> QED
      BY <1>1, <2>2, <2>3 DEF Honest, Meant
  <1> QED
    BY <1>4, <1>6, <1>7, <1>8, <1>9, <1>10, <1>11, <1>12, <1>13, <1>14
    DEF ApiNext, RequestStep, Expire, Read, Forbid, RefuseErasure, apiVars, history

\* An audit event of a success tells of a change that lasts.
THEOREM AuditHolds == ApiSpec => []AuditIsTrue
  <1>1. Honest => AuditIsTrue
    BY DEF Honest, AuditIsTrue
  <1> QED
    BY <1>1, HonestInit, HonestNext, TypedAlways, PTL DEF ApiSpec

----------------------------------------------------------------------------
(***************************************************************************)
(* The events of the changes.                                              *)
(***************************************************************************)
\* The request has its event still to write.
Owing(q) == req[q].pc \in {"keys", "customer", "audit"}

LEMMA EventsStay ==
  ASSUME Typed, [ApiNext]_apiVars
  PROVE  trail \subseteq trail' /\ lost \subseteq lost'
  <1>1. ASSUME NEW q \in Slots, NEW written \in BOOLEAN, Record(q, written)
        PROVE  trail \subseteq trail' /\ lost \subseteq lost'
    BY <1>1 DEF Record
  <1>2. ASSUME NEW q \in Slots, NEW stored \in BOOLEAN, NEW ok \in BOOLEAN,
               Writes(q, stored, ok)
        PROVE  UNCHANGED <<trail, lost>>
    BY <1>2, WritesTyped
  <1>3. ASSUME NEW q \in Slots,
               \/ GetByPrefix(q) \/ Authenticate(q) \/ Read(q) \/ Forbid(q)
               \/ ReadZone(q) \/ RefuseErasure(q)
        PROVE  UNCHANGED <<trail, lost>>
    BY <1>3, QuietTyped DEF history
  <1> QED
    BY <1>1, <1>2, <1>3
    DEF ApiNext, RequestStep, Expire, Arrive, Dies, apiVars, history

\* A writing handler leaves its request with the event to write.
LEMMA WritesOwe ==
  ASSUME Typed, NEW q \in Slots, NEW stored \in BOOLEAN, NEW ok \in BOOLEAN,
         Writes(q, stored, ok)
  PROVE  Owing(q)' /\ EventOf(q)' = EventOf(q)
  <1>1. Carries(q)
    BY HandlerSteps
  <1>2. ASSUME Answered(q, ok) PROVE Owing(q)'
    BY <1>2, AnsweredTyped DEF Owing
  <1>3. ASSUME NEW pc \in {"keys", "customer"}, EraseStep(q, pc, ok) PROVE Owing(q)'
    <2>1. pc \in Places
      BY DEF Places
    <2> QED
      BY <1>3, <2>1, EraseStepTyped DEF Owing
  <1>4. Answered(q, ok) \/ EraseStep(q, "keys", ok) \/ EraseStep(q, "customer", ok)
    BY DEF Writes, CreateAPIKey, RevokeAPIKey, CreateZone, UpdateZone, DeleteZone,
           WriteZone, SoftDeleteZones, RevokeByCustomer, SoftDeleteCustomer
  <1> QED
    BY <1>1, <1>2, <1>3, <1>4 DEF Carries, EventOf, Customer

\* Such a request writes it before it ends, or it is counted as lost.
LEMMA OwingKept ==
  ASSUME Typed, [ApiNext]_apiVars, NEW q \in Slots, Owing(q)
  PROVE  \/ Owing(q)' /\ EventOf(q)' = EventOf(q)
         \/ EventOf(q) \in lost'
         \/ \E t \in trail' : t.event = EventOf(q)
  <1> DEFINE Goal == \/ Owing(q)' /\ EventOf(q)' = EventOf(q)
                     \/ EventOf(q) \in lost'
                     \/ \E t \in trail' : t.event = EventOf(q)
  <1>1. ASSUME req'[q].pc = req[q].pc, req'[q].key = req[q].key, req'[q].call = req[q].call
        PROVE  Goal
    BY <1>1 DEF Owing, EventOf, Customer
  <1>2. ASSUME UNCHANGED req PROVE Goal
    BY <1>1, <1>2
  <1>3. ASSUME NEW o \in Slots \ {q}, Same(o) PROVE Goal
    BY <1>1, <1>3 DEF Same
  <1>4. ASSUME NEW o \in Slots, NEW a \in APIKeys, NEW call \in Calls, Arrive(o, a, call)
        PROVE  Goal
    <2>1. o # q
      BY <1>4 DEF Arrive, Owing
    <2> QED
      BY <1>3, <1>4, <2>1, ArriveTyped
  <1>5. ASSUME NEW o \in Slots,
               \/ GetByPrefix(o) \/ Authenticate(o) \/ Read(o) \/ Forbid(o)
               \/ ReadZone(o) \/ RefuseErasure(o)
        PROVE  Goal
    <2>1. o # q
      BY <1>5
      DEF GetByPrefix, Authenticate, Read, Forbid, ReadZone, RefuseErasure, Handles, Owing
    <2> QED
      BY <1>3, <1>5, <2>1, QuietTyped
  <1>6. ASSUME NEW o \in Slots, NEW stored \in BOOLEAN, NEW ok \in BOOLEAN,
               Writes(o, stored, ok)
        PROVE  Goal
    <2>1. CASE o = q
      BY <1>6, <2>1, WritesOwe
    <2>2. CASE o # q
      BY <1>3, <1>6, <2>2, WritesTyped
    <2> QED
      BY <2>1, <2>2
  <1>7. ASSUME NEW o \in Slots, NEW written \in BOOLEAN, Record(o, written) PROVE Goal
    <2>1. CASE o = q
      <3>1. CASE written
        <4>1. [event |-> EventOf(q), ok |-> req[q].ok] \in trail'
          BY <1>7, <2>1, <3>1 DEF Record
        <4> QED
          BY <4>1
      <3>2. CASE ~written
        BY <1>7, <2>1, <3>2 DEF Record
      <3> QED
        BY <3>1, <3>2
    <2>2. CASE o # q
      BY <1>3, <1>7, <2>2, RecordTyped
    <2> QED
      BY <2>1, <2>2
  <1>8. ASSUME NEW o \in Slots, Dies(o) PROVE Goal
    <2>1. CASE o = q
      BY <1>8, <2>1 DEF Dies, Owing
    <2>2. CASE o # q
      BY <1>3, <1>8, <2>2, DiesTyped
    <2> QED
      BY <2>1, <2>2
  <1> HIDE DEF Goal
  <1>9. Goal
    BY <1>2, <1>4, <1>5, <1>6, <1>7, <1>8 DEF ApiNext, RequestStep, Expire, apiVars
  <1> QED
    BY <1>9 DEF Goal

LEMMA TracedKept ==
  ASSUME Typed, [ApiNext]_apiVars, NEW op, NEW by, NEW on, Traced(op, by, on)
  PROVE  Traced(op, by, on)'
  <1> DEFINE e == [op |-> op, by |-> by, on |-> on]
  <1>1. ASSUME e \in lost \/ \E t \in trail : t.event = e PROVE Traced(op, by, on)'
    BY <1>1, EventsStay DEF Traced
  <1>2. ASSUME NEW q \in Slots, Owing(q), EventOf(q) = e PROVE Traced(op, by, on)'
    <2>1. \/ Owing(q)' /\ EventOf(q)' = e
          \/ e \in lost'
          \/ \E t \in trail' : t.event = e
      BY <1>2, OwingKept
    <2> QED
      BY <2>1 DEF Traced, Owing
  <1> QED
    BY <1>1, <1>2 DEF Traced, Owing

\* The event of a handler that writes.
LEMMA WriteTraced ==
  ASSUME Typed, NEW q \in Slots, NEW stored \in BOOLEAN, NEW ok \in BOOLEAN,
         Writes(q, stored, ok),
         NEW op, NEW by, NEW on,
         req[q].call.op = op, Customer(q) = by, req[q].call.on = on
  PROVE  Traced(op, by, on)'
  <1>1. Owing(q)' /\ EventOf(q)' = [op |-> op, by |-> by, on |-> on]
    BY WritesOwe DEF EventOf
  <1> QED
    BY <1>1 DEF Traced, Owing

TracedKey(a) ==
    /\ key[a].status # "none" /\ a \notin Issued => Traced("create_key", Owner[a], Nothing)
    /\ key[a].status = "revoked" =>
          Traced("revoke_key", Owner[a], a) \/ Traced("erase", Owner[a], Owner[a])

TracedCustomer(c) ==
    /\ zone[c].status # "none" /\ c \notin Zoned => Traced("create_zone", c, Nothing)
    /\ zone[c].settings # NewZone => Traced("patch_zone", c, c)
    /\ zone[c].status = "deleted" => Traced("delete_zone", c, c) \/ Traced("erase", c, c)
    /\ c \in deleted => Traced("erase", c, c)

LEMMA KeysTraced ==
  ASSUME Typed, [ApiNext]_apiVars, NEW q \in Slots, NEW stored \in BOOLEAN,
         NEW ok \in BOOLEAN, Writes(q, stored, ok), NEW a \in APIKeys, TracedKey(a)
  PROVE  TracedKey(a)'
  <1>0. key \in [APIKeys -> KeyRow] /\ req[q].call \in Calls
    BY DEF Typed, ApiTypeOK
  <1>1. CASE key'[a].status = key[a].status
    BY <1>1, TracedKept DEF TracedKey
  <1>2. CASE CreateAPIKey(q, stored, ok) /\ key'[a].status # key[a].status
    <2>1. /\ req[q].call.op = "create_key" /\ Owner[a] = Customer(q)
          /\ key'[a].status \in {"live", "hidden"}
      BY <1>0, <1>2 DEF CreateAPIKey, Handles
    <2>2. req[q].call.on = Nothing
      BY <1>0, <2>1, CallFacts
    <2> QED
      BY <2>1, <2>2, WriteTraced DEF TracedKey
  <1>3. CASE RevokeAPIKey(q, stored, ok) /\ key'[a].status # key[a].status
    <2>1. req[q].call.op = "revoke_key"
      BY <1>3 DEF RevokeAPIKey, Handles
    <2>2. a = req[q].call.on /\ Owner[a] = Customer(q) /\ key[a].status # "none"
      BY <1>0, <1>3 DEF RevokeAPIKey, OwnKey
    <2> QED
      BY <2>1, <2>2, WriteTraced, TracedKept DEF TracedKey
  <1>4. CASE RevokeByCustomer(q, stored, ok) /\ key'[a].status # key[a].status
    <2>1. req[q].call.op = "erase" /\ req[q].call.on = Customer(q)
      BY <1>4 DEF RevokeByCustomer, Typed, Placed
    <2>2. Owner[a] = Customer(q) /\ key[a].status # "none"
      BY <1>0, <1>4 DEF RevokeByCustomer, OwnKey
    <2> QED
      BY <2>1, <2>2, WriteTraced, TracedKept DEF TracedKey
  <1> QED
    BY <1>1, <1>2, <1>3, <1>4
    DEF Writes, CreateZone, UpdateZone, DeleteZone, WriteZone, SoftDeleteZones,
        SoftDeleteCustomer

LEMMA CustomersTraced ==
  ASSUME Typed, [ApiNext]_apiVars, NEW q \in Slots, NEW stored \in BOOLEAN,
         NEW ok \in BOOLEAN, Writes(q, stored, ok), NEW c \in Customers, TracedCustomer(c)
  PROVE  TracedCustomer(c)'
  <1>0. zone \in [Customers -> ZoneRow]
    BY DEF Typed, ApiTypeOK
  <1>1. CASE zone'[c] = zone[c] /\ deleted' = deleted
    BY <1>1, TracedKept DEF TracedCustomer
  <1>2. CASE c # Customer(q)
    <2>1. zone'[c] = zone[c] /\ (c \in deleted' => c \in deleted)
      BY <1>2, OwnRows
    <2> QED
      BY <2>1, TracedKept DEF TracedCustomer
  <1>3. CASE c = Customer(q) /\ CreateZone(q, stored, ok)
    <2>1. /\ req[q].call.op = "create_zone" /\ deleted' = deleted
          /\ zone'[c].status = "deleted" => zone[c].status = "deleted"
          /\ zone'[c].settings = NewZone \/ zone'[c].settings = zone[c].settings
      BY <1>0, <1>3 DEF CreateZone, Handles
    <2>2. req[q].call.on = Nothing
      BY <2>1, CallFacts DEF Typed, ApiTypeOK
    <2> QED
      BY <1>3, <2>1, <2>2, WriteTraced, TracedKept DEF TracedCustomer
  <1>4. CASE c = Customer(q) /\ UpdateZone(q, stored, ok)
    <2>1. /\ deleted' = deleted
          /\ zone'[c].status = "deleted" => zone[c].status = "deleted"
          /\ zone'[c].status # "none" => zone[c].status # "none"
      BY <1>0, <1>4 DEF UpdateZone, WriteZone
    <2>2. req[q].call.op = "patch_zone" /\ req[q].call.on = c
      BY <1>4 DEF UpdateZone, WriteZone, Typed, Placed
    <2> QED
      BY <1>4, <2>1, <2>2, WriteTraced, TracedKept DEF TracedCustomer
  <1>5. CASE c = Customer(q) /\ DeleteZone(q, stored, ok)
    <2>1. req[q].call.op = "delete_zone" /\ req[q].call.on = c /\ deleted' = deleted
      BY <1>5 DEF DeleteZone, WriteZone, Typed, Placed
    <2>2. /\ zone'[c].status # "none" => zone[c].status # "none"
          /\ zone'[c].settings = zone[c].settings
      BY <1>0, <1>5, <2>1 DEF DeleteZone, WriteZone, ZoneRow
    <2> QED
      BY <1>5, <2>1, <2>2, WriteTraced, TracedKept DEF TracedCustomer
  <1>6. CASE c = Customer(q) /\ SoftDeleteZones(q, stored, ok)
    <2>1. req[q].call.op = "erase" /\ req[q].call.on = c
      BY <1>6 DEF SoftDeleteZones, Handles
    <2>2. /\ zone'[c].status # "none" => zone[c].status # "none"
          /\ zone'[c].settings = zone[c].settings
      BY <1>0, <1>6 DEF SoftDeleteZones, ZoneRow
    <2> QED
      BY <1>6, <2>1, <2>2, WriteTraced, TracedKept DEF TracedCustomer
  <1>7. CASE c = Customer(q) /\ SoftDeleteCustomer(q, stored, ok)
    <2>1. req[q].call.op = "erase" /\ req[q].call.on = c
      BY <1>7 DEF SoftDeleteCustomer, Typed, Placed
    <2>2. zone' = zone
      BY <1>7 DEF SoftDeleteCustomer
    <2> QED
      BY <1>7, <2>1, <2>2, WriteTraced, TracedKept DEF TracedCustomer
  <1> QED
    BY <1>1, <1>2, <1>3, <1>4, <1>5, <1>6, <1>7
    DEF Writes, CreateAPIKey, RevokeAPIKey, RevokeByCustomer

LEMMA TracedNext ==
  ASSUME Typed, ChangesAreTraced, [ApiNext]_apiVars
  PROVE  ChangesAreTraced'
  <1>1. (\A a \in APIKeys : TracedKey(a)) /\ (\A c \in Customers : TracedCustomer(c))
    BY DEF ChangesAreTraced, TracedKey, TracedCustomer
  <1>2. SUFFICES /\ \A a \in APIKeys : TracedKey(a)'
                 /\ \A c \in Customers : TracedCustomer(c)'
    BY DEF ChangesAreTraced, TracedKey, TracedCustomer
  <1>3. CASE UNCHANGED <<zone, deleted>> /\ \A a \in APIKeys : key'[a].status = key[a].status
    <2>1. ASSUME NEW a \in APIKeys PROVE TracedKey(a)'
      BY <1>1, <1>3, TracedKept DEF TracedKey
    <2>2. ASSUME NEW c \in Customers PROVE TracedCustomer(c)'
      BY <1>1, <1>3, TracedKept DEF TracedCustomer
    <2> QED
      BY <2>1, <2>2
  <1>4. ASSUME NEW q \in Slots, NEW stored \in BOOLEAN, NEW ok \in BOOLEAN,
               Writes(q, stored, ok)
        PROVE  /\ \A a \in APIKeys : TracedKey(a)'
               /\ \A c \in Customers : TracedCustomer(c)'
    BY <1>1, <1>4, KeysTraced, CustomersTraced
  <1>5. ASSUME NEW a \in APIKeys, Expire(a)
        PROVE  /\ UNCHANGED <<zone, deleted>>
               /\ \A b \in APIKeys : key'[b].status = key[b].status
    <2>1. key \in [APIKeys -> KeyRow]
      BY DEF Typed, ApiTypeOK
    <2> QED
      BY <1>5, <2>1 DEF Expire, KeyRow
  <1> QED
    BY <1>3, <1>4, <1>5
    DEF ApiNext, RequestStep, Arrive, GetByPrefix, Authenticate, Read, Forbid,
        ReadZone, RefuseErasure, Record, Dies, tables, apiVars

LEMMA TracedInit == ApiInit => ChangesAreTraced
  <1> SUFFICES ASSUME ApiInit PROVE ChangesAreTraced
    OBVIOUS
  <1>1. \A a \in APIKeys : /\ key[a].status \in {"none", "live"}
                           /\ a \notin Issued => key[a].status = "none"
    BY DEF ApiInit
  <1>2. /\ deleted = {}
        /\ \A c \in Customers :
              /\ zone[c].status = IF c \in Zoned THEN "live" ELSE "none"
              /\ zone[c].settings = NewZone
    BY DEF ApiInit
  <1> QED
    BY <1>1, <1>2 DEF ChangesAreTraced

\* A key made or revoked, a zone made, patched or deleted and a customer
\* deleted have an event in the table, or one a request has still to write, or
\* one that was lost with its query or its process.
THEOREM TracedHolds == ApiSpec => []ChangesAreTraced
  BY TracedInit, TracedNext, TypedAlways, PTL DEF ApiSpec
============================================================================
