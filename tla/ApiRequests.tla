---------------------------- MODULE ApiRequests ----------------------------
(***************************************************************************)
(* The requests of the group /api/v1 (internal/api: routes, middleware,    *)
(* handlers): the API key, the audit, the admin role and the handlers that *)
(* change keys, zones and customers, with the tables they share.           *)
(*                                                                         *)
(* Every query is a step of its own; it may fail, and a write that failed  *)
(* may have been carried out all the same.  Of the rate limiter, which is  *)
(* modelled in RateLimiter, this module knows that it may refuse a request *)
(* that was authenticated.  The audit event is written by a goroutine      *)
(* after the answer; nobody waits for it, and its failure is not logged.   *)
(*                                                                         *)
(* A customer has one zone here; its fields are abstract.                  *)
(***************************************************************************)
EXTENDS Naturals

CONSTANTS
    Customers,
    APIKeys,    \* rows api_keys has or will have
    Owner,      \* the customer of a key
    Issued,     \* keys that are there at the start, of administrators
    Zoned,      \* customers that have a zone at the start
    Nothing,
    Fields,     \* the fields of a zone
    Values,     \* what a field may hold
    Default,    \* what the fields of a new zone hold
    Patches,    \* the fields and values of PATCH requests
    Slots,      \* bound: requests under way beside each other
    MaxSent     \* bound: GET requests and other requests in a behaviour

ASSUME OwnersAreCustomers == Owner \in [APIKeys -> Customers]
ASSUME IssuedKeys == Issued \subseteq APIKeys /\ Nothing \notin APIKeys
ASSUME ZoneValues ==
    /\ Zoned \subseteq Customers
    /\ Default \in Values
    /\ Patches \subseteq [field : Fields, value : Values]
ASSUME SentBound == MaxSent \in [{"read", "change"} -> Nat]

VARIABLES
    key,      \* the table api_keys
    zone,     \* the zone of a customer
    deleted,  \* customers with deleted_at
    req,      \* the requests
    trail,    \* the table audit_events
    lost,     \* history: audit events that were never written
    erased,   \* history: customers erased by a request that met no failure
              \* and no other request of the customer
    sent      \* requests so far

tables == <<key, zone, deleted>>
history == <<trail, lost, erased, sent>>
apiVars == <<tables, req, history>>

----------------------------------------------------------------------------
(***************************************************************************)
(* Values.                                                                 *)
(***************************************************************************)
\* The routes that read have no step of their own behind the authentication.
Calls ==
    [op : {"read", "create_key", "create_zone"}, on : {Nothing}, patch : {Nothing}]
    \cup [op : {"revoke_key"}, on : APIKeys, patch : {Nothing}]
    \cup [op : {"delete_zone", "erase"}, on : Customers, patch : {Nothing}]
    \cup [op : {"patch_zone"}, on : Customers, patch : Patches]

Kind(call) == IF call.op = "read" THEN "read" ELSE "change"

Settings == [Fields -> Values]

KeyRow == [status : {"none", "hidden", "live", "revoked"},
           role : {"admin", "viewer"}, expiry : {"never", "ahead", "passed"}]

ZoneRow == [status : {"none", "live", "deleted"}, settings : Settings]

Places == {"idle", "arrived", "found", "handle", "zone", "keys", "customer", "audit"}

AuditEvent == [op : {"create_key", "create_zone", "delete_zone", "erase",
                     "revoke_key", "patch_zone"},
               by : Customers, on : APIKeys \cup Customers \cup {Nothing}]

NewZone == [f \in Fields |-> Default]

Nobody == [pc |-> "idle", key |-> Nothing,
           call |-> [op |-> "read", on |-> Nothing, patch |-> Nothing], late |-> FALSE, alone |-> FALSE, copy |-> NewZone, ok |-> TRUE]

----------------------------------------------------------------------------
(***************************************************************************)
(* Requests.                                                               *)
(***************************************************************************)
Customer(q) == Owner[req[q].key]

\* A request that passed the lookup of its key and has not answered.
UnderWay == {q \in Slots : req[q].pc \notin {"idle", "arrived", "audit"}}

Beside(q) == {o \in UnderWay \ {q} : Customer(o) = Customer(q)}

Moves(q, pc) == req' = [req EXCEPT ![q].pc = pc]

Ends(q) == req' = [req EXCEPT ![q] = Nobody]

Answered(q, ok) ==
    req' = [req EXCEPT ![q] = [req[q] EXCEPT !.pc = "audit", !.ok = ok]]

Dead(a) == key[a].status = "revoked" \/ key[a].expiry = "passed"

\* A client holds the plaintext of a key that was issued to it.
Arrive(q, a, call) ==
    /\ req[q].pc = "idle"
    /\ key[a].status \in {"live", "revoked"}
    /\ sent[Kind(call)] < MaxSent[Kind(call)]
    /\ sent' = [sent EXCEPT ![Kind(call)] = @ + 1]
    /\ req' = [req EXCEPT ![q] = [Nobody EXCEPT !.pc = "arrived", !.key = a,
                                                !.call = call, !.late = Dead(a)]]
    /\ UNCHANGED <<tables, trail, lost, erased>>

\* What the history remembers when a request passes its lookup: which
\* requests of the customer were alone so far.
Joins(q) ==
    req' = [o \in Slots |->
              IF o = q THEN [req[q] EXCEPT !.pc = "found", !.alone = Beside(q) = {}]
              ELSE [req[o] EXCEPT !.alone = @ /\ o \notin Beside(q)]]

\* Mutant: the query does not look at revoked_at.
GetByPrefixOfAny(q) ==
    /\ req[q].pc = "arrived"
    /\ Joins(q) \/ Ends(q)
    /\ UNCHANGED <<tables, history>>

\* The live keys with the prefix are read.  Without one, or when the query
\* fails, the request is refused.
GetByPrefix(q) ==
    /\ req[q].pc = "arrived"
    /\ \/ key[req[q].key].status = "live" /\ Joins(q)
       \/ Ends(q)
    /\ UNCHANGED <<tables, history>>

\* The hash was compared, which takes a while, and the expiry is looked at;
\* then the limiter of the customer lets the request pass or refuses it.
Authenticate(q) ==
    /\ req[q].pc = "found"
    /\ \/ key[req[q].key].expiry # "passed" /\ Moves(q, "handle")
       \/ Ends(q)
    /\ UNCHANGED <<tables, history>>

Read(q) ==
    /\ req[q].pc = "handle"
    /\ req[q].call.op = "read"
    /\ Ends(q)
    /\ UNCHANGED <<tables, history>>

\* RequireAdmin stands behind the audit: the refusal is recorded.
Forbid(q) ==
    /\ req[q].pc = "handle"
    /\ req[q].call.op # "read"
    /\ key[req[q].key].role # "admin"
    /\ Answered(q, FALSE)
    /\ UNCHANGED <<tables, history>>

Handles(q, ops) ==
    /\ req[q].pc = "handle"
    /\ req[q].call.op \in ops
    /\ key[req[q].key].role = "admin"

----------------------------------------------------------------------------
(***************************************************************************)
(* Keys.  A write is stored or not, and a stored one is reported or not:   *)
(* ok => stored.                                                           *)
(***************************************************************************)
\* A key whose insertion failed is shown to nobody, stored or not.
CreateAPIKey(q, stored, ok) ==
    /\ Handles(q, {"create_key"})
    /\ ok => stored
    /\ \/ ~stored /\ key' = key
       \/ /\ stored
          /\ \E b \in APIKeys, role \in {"admin", "viewer"}, expiry \in {"never", "ahead"} :
                /\ key[b].status = "none" /\ Owner[b] = Customer(q)
                /\ key' = [key EXCEPT ![b] =
                      [status |-> IF ok THEN "live" ELSE "hidden",
                       role |-> role, expiry |-> expiry]]
    /\ Answered(q, ok)
    /\ UNCHANGED <<zone, deleted, history>>

OwnKey(q, b) == key[b].status # "none" /\ Owner[b] = Customer(q)

\* Without a row of the customer the answer is 404.
RevokeAPIKey(q, stored, ok) ==
    /\ Handles(q, {"revoke_key"})
    /\ ok => stored
    /\ stored => OwnKey(q, req[q].call.on)
    /\ key' = IF stored THEN [key EXCEPT ![req[q].call.on].status = "revoked"] ELSE key
    /\ Answered(q, ok)
    /\ UNCHANGED <<zone, deleted, history>>

Expire(a) ==
    /\ key[a].expiry = "ahead"
    /\ key' = [key EXCEPT ![a].expiry = "passed"]
    /\ UNCHANGED <<zone, deleted, req, history>>

----------------------------------------------------------------------------
(***************************************************************************)
(* Zones.                                                                  *)
(***************************************************************************)
CreateZone(q, stored, ok) ==
    /\ Handles(q, {"create_zone"})
    /\ ok => stored
    /\ stored => zone[Customer(q)].status = "none"
    /\ zone' = IF stored
               THEN [zone EXCEPT ![Customer(q)] = [status |-> "live", settings |-> NewZone]]
               ELSE zone
    /\ Answered(q, ok)
    /\ UNCHANGED <<key, deleted, history>>

Found(q) ==
    /\ zone[req[q].call.on].status = "live"
    /\ req' = [req EXCEPT ![q] = [req[q] EXCEPT !.pc = "zone",
                                    !.copy = zone[req[q].call.on].settings]]

\* Mutant: nobody asks whose zone it is.
ReadAnyZone(q) ==
    /\ Handles(q, {"patch_zone", "delete_zone"})
    /\ Found(q) \/ Answered(q, FALSE)
    /\ UNCHANGED <<tables, history>>

\* UpdateZone and DeleteZone read the row first, and refuse the zone of
\* another customer and a patch that is out of range.
ReadZone(q) ==
    /\ Handles(q, {"patch_zone", "delete_zone"})
    /\ \/ req[q].call.on = Customer(q) /\ Found(q)
       \/ Answered(q, FALSE)
    /\ UNCHANGED <<tables, history>>

\* A row with deleted_at is not written, which is no error.
WriteZone(q, row, stored, ok) ==
    /\ req[q].pc = "zone"
    /\ ok => stored
    /\ zone' = IF stored /\ zone[req[q].call.on].status = "live"
               THEN [zone EXCEPT ![req[q].call.on] = row] ELSE zone
    /\ Answered(q, ok)
    /\ UNCHANGED <<key, deleted, history>>

\* Mutant: a field the request does not have takes its zero value.
PatchedFromZero(q) ==
    [NewZone EXCEPT ![req[q].call.patch.field] = req[q].call.patch.value]

\* All fields, the copied ones included.
Patched(q) ==
    [req[q].copy EXCEPT ![req[q].call.patch.field] = req[q].call.patch.value]

\* Mutant: the write does not look at deleted_at.
UpdateDeletedZone(q, stored, ok) ==
    /\ req[q].pc = "zone"
    /\ req[q].call.op = "patch_zone"
    /\ ok => stored
    /\ zone' = IF stored
               THEN [zone EXCEPT ![req[q].call.on] =
                       [status |-> "live", settings |-> Patched(q)]]
               ELSE zone
    /\ Answered(q, ok)
    /\ UNCHANGED <<key, deleted, history>>

\* The row is read once more for the answer.
UpdateZone(q, stored, ok) ==
    /\ req[q].call.op = "patch_zone"
    /\ ok => zone[req[q].call.on].status = "live"
    /\ WriteZone(q, [status |-> "live", settings |-> Patched(q)], stored, ok)

DeleteZone(q, stored, ok) ==
    /\ req[q].call.op = "delete_zone"
    /\ WriteZone(q, [zone[req[q].call.on] EXCEPT !.status = "deleted"], stored, ok)

----------------------------------------------------------------------------
(***************************************************************************)
(* Erasure.  The failures of the first two writes are logged and nothing   *)
(* more; the objects and rows of jobs are those of Retention.              *)
(***************************************************************************)
EraseStep(q, pc, ok) ==
    req' = [req EXCEPT ![q] = [req[q] EXCEPT !.pc = pc, !.ok = req[q].ok /\ ok]]

\* Nobody erases another customer.
RefuseErasure(q) ==
    /\ Handles(q, {"erase"})
    /\ req[q].call.on # Customer(q)
    /\ Answered(q, FALSE)
    /\ UNCHANGED <<tables, history>>

SoftDeleteZones(q, stored, ok) ==
    /\ Handles(q, {"erase"})
    /\ req[q].call.on = Customer(q)
    /\ ok => stored
    /\ zone' = IF stored /\ zone[Customer(q)].status = "live"
               THEN [zone EXCEPT ![Customer(q)].status = "deleted"] ELSE zone
    /\ EraseStep(q, "keys", ok)
    /\ UNCHANGED <<key, deleted, history>>

\* Mutant: the key of the request itself is kept.
RevokeOtherKeys(q, stored, ok) ==
    /\ req[q].pc = "keys"
    /\ ok => stored
    /\ key' = [a \in APIKeys |->
                 IF stored /\ OwnKey(q, a) /\ a # req[q].key
                 THEN [key[a] EXCEPT !.status = "revoked"] ELSE key[a]]
    /\ EraseStep(q, "customer", ok)
    /\ UNCHANGED <<zone, deleted, history>>

RevokeByCustomer(q, stored, ok) ==
    /\ req[q].pc = "keys"
    /\ ok => stored
    /\ key' = [a \in APIKeys |->
                 IF stored /\ OwnKey(q, a)
                 THEN [key[a] EXCEPT !.status = "revoked"] ELSE key[a]]
    /\ EraseStep(q, "customer", ok)
    /\ UNCHANGED <<zone, deleted, history>>

SoftDeleteCustomer(q, stored, ok) ==
    /\ req[q].pc = "customer"
    /\ ok => stored
    /\ deleted' = IF stored THEN deleted \cup {Customer(q)} ELSE deleted
    /\ erased' = IF ok /\ req[q].ok /\ req[q].alone
                 THEN erased \cup {Customer(q)} ELSE erased
    /\ Answered(q, ok)
    /\ UNCHANGED <<key, zone, trail, lost, sent>>

----------------------------------------------------------------------------
(***************************************************************************)
(* Audit.                                                                  *)
(***************************************************************************)
\* The resource of an event is the parameter of the route: none for what is
\* created.
EventOf(q) == [op |-> req[q].call.op, by |-> Customer(q), on |-> req[q].call.on]

\* Mutant: PATCH is not among the methods that are recorded.
RecordNoPatch(q, written) ==
    /\ req[q].pc = "audit"
    /\ trail' = IF written /\ req[q].call.op # "patch_zone"
                THEN trail \cup {[event |-> EventOf(q), ok |-> req[q].ok]} ELSE trail
    /\ lost' = IF written THEN lost ELSE lost \cup {EventOf(q)}
    /\ Ends(q)
    /\ UNCHANGED <<tables, erased, sent>>

Record(q, written) ==
    /\ req[q].pc = "audit"
    /\ trail' = IF written
                THEN trail \cup {[event |-> EventOf(q), ok |-> req[q].ok]} ELSE trail
    /\ lost' = IF written THEN lost ELSE lost \cup {EventOf(q)}
    /\ Ends(q)
    /\ UNCHANGED <<tables, erased, sent>>

\* The process ends while the request is under way, or after its answer and
\* before the goroutine has written the event.
Dies(q) ==
    /\ req[q].pc # "idle"
    /\ lost' = IF req[q].pc \in {"keys", "customer", "audit"}
               THEN lost \cup {EventOf(q)} ELSE lost
    /\ Ends(q)
    /\ UNCHANGED <<tables, trail, erased, sent>>

----------------------------------------------------------------------------
ApiInit ==
    /\ key = [a \in APIKeys |-> [status |-> IF a \in Issued THEN "live" ELSE "none",
                                 role |-> "admin", expiry |-> "never"]]
    /\ zone = [c \in Customers |-> [status |-> IF c \in Zoned THEN "live" ELSE "none",
                                   settings |-> NewZone]]
    /\ deleted = {}
    /\ req = [q \in Slots |-> Nobody]
    /\ trail = {} /\ lost = {} /\ erased = {}
    /\ sent = [kind \in {"read", "change"} |-> 0]

Writes(q, stored, ok) ==
    \/ CreateAPIKey(q, stored, ok) \/ RevokeAPIKey(q, stored, ok)
    \/ CreateZone(q, stored, ok) \/ UpdateZone(q, stored, ok) \/ DeleteZone(q, stored, ok)
    \/ SoftDeleteZones(q, stored, ok) \/ RevokeByCustomer(q, stored, ok)
    \/ SoftDeleteCustomer(q, stored, ok)

RequestStep(q) ==
    \/ GetByPrefix(q) \/ Authenticate(q)
    \/ Read(q) \/ Forbid(q) \/ ReadZone(q) \/ RefuseErasure(q)
    \/ \E stored, ok \in BOOLEAN : Writes(q, stored, ok)
    \/ \E written \in BOOLEAN : Record(q, written)
    \/ Dies(q)

ApiNext ==
    \/ \E a \in APIKeys : Expire(a)
    \/ \E q \in Slots :
          RequestStep(q) \/ \E a \in APIKeys, call \in Calls : Arrive(q, a, call)

ApiSpec == ApiInit /\ [][ApiNext]_apiVars

----------------------------------------------------------------------------
(***************************************************************************)
(* Properties.                                                             *)
(***************************************************************************)
ApiTypeOK ==
    /\ key \in [APIKeys -> KeyRow]
    /\ zone \in [Customers -> ZoneRow]
    /\ deleted \subseteq Customers
    /\ req \in [Slots -> [pc : Places, key : APIKeys \cup {Nothing}, call : Calls,
                             late : BOOLEAN, alone : BOOLEAN, copy : Settings,
                             ok : BOOLEAN]]
    /\ trail \subseteq [event : AuditEvent, ok : BOOLEAN]
    /\ lost \subseteq AuditEvent
    /\ erased \subseteq Customers
    /\ sent \in [{"read", "change"} -> Nat]
    /\ \A kind \in {"read", "change"} : sent[kind] <= MaxSent[kind]

(***************************************************************************)
(* A request that is sent after its key was revoked or ran out never gets  *)
(* past the authentication, whatever other requests are under way and      *)
(* however long its hash takes to compare.                                 *)
(***************************************************************************)
DeadKeyIsRefused ==
    \A q \in Slots : req[q].late => req[q].pc \in {"arrived", "found"}

(***************************************************************************)
(* After an erasure that met no failure and no other request of the        *)
(* customer, the customer is gone for good: no zone the scheduler would    *)
(* pull, no key that opens the API, and no request under way.              *)
(***************************************************************************)
ErasedIsSilent ==
    \A c \in erased :
        /\ c \in deleted
        /\ zone[c].status # "live"
        /\ \A a \in APIKeys : Owner[a] = c => key[a].status \in {"none", "revoked"}
        /\ \A q \in UnderWay : Customer(q) # c

PatchIsNarrow ==
    \A q \in Slots :
        /\ req[q].pc = "zone" /\ req[q].call.op = "patch_zone" /\ req[q].alone
        /\ req'[q].pc = "audit"
        => \A c \in Customers, f \in Fields :
              zone'[c].settings[f] # zone[c].settings[f] =>
                  c = Customer(q) /\ f = req[q].call.patch.field

(***************************************************************************)
(* A patch that no other request of the customer overlaps changes the      *)
(* field it names and no other, although it writes all of them.            *)
(***************************************************************************)
PatchKeepsOthers == [][PatchIsNarrow]_apiVars

Acts(c) == \E q \in UnderWay : Customer(q) = c /\ req'[q] # req[q]

WritesOwnRows ==
    /\ \A a \in APIKeys : key'[a].status # key[a].status => Acts(Owner[a])
    /\ \A c \in Customers :
          zone'[c] # zone[c] \/ (c \in deleted' /\ c \notin deleted) => Acts(c)

(***************************************************************************)
(* The rows of a customer are written only by requests with a key of that  *)
(* customer, whatever identifiers the routes of other requests name.       *)
(***************************************************************************)
TenantsApart == [][WritesOwnRows]_apiVars

(***************************************************************************)
(* An audit event of a success tells of a change that lasts: the key made  *)
(* is in the table, the key revoked stays revoked, and the zone or the     *)
(* customer deleted stays deleted, whatever other requests wrote since.    *)
(***************************************************************************)
Holds(e) ==
    CASE e.op = "create_key" ->
            \E a \in APIKeys \ Issued : Owner[a] = e.by /\ key[a].status # "none"
      [] e.op = "revoke_key" -> key[e.on].status = "revoked"
      [] e.op = "create_zone" -> zone[e.by].status # "none"
      [] e.op = "patch_zone" -> zone[e.on].status # "none"
      [] e.op = "delete_zone" -> zone[e.on].status = "deleted"
      [] e.op = "erase" -> e.on \in deleted

AuditIsTrue == \A t \in trail : t.ok => Holds(t.event)

(***************************************************************************)
(* A key made or revoked, a zone made, patched or deleted and a customer   *)
(* deleted can each be traced: to an audit event, to a request that has    *)
(* still to write one, or to an event that was lost because its query      *)
(* failed or the process ended first.  No other path through the handlers, *)
(* their refusals and their failed writes changes a row without an event.  *)
(***************************************************************************)
Traced(op, by, on) ==
    LET e == [op |-> op, by |-> by, on |-> on] IN
    \/ e \in lost
    \/ \E t \in trail : t.event = e
    \/ \E q \in Slots : req[q].pc \in {"keys", "customer", "audit"} /\ EventOf(q) = e

ChangesAreTraced ==
    /\ \A a \in APIKeys :
          /\ key[a].status # "none" /\ a \notin Issued =>
                Traced("create_key", Owner[a], Nothing)
          /\ key[a].status = "revoked" =>
                Traced("revoke_key", Owner[a], a) \/ Traced("erase", Owner[a], Owner[a])
    /\ \A c \in Customers :
          /\ zone[c].status # "none" /\ c \notin Zoned =>
                Traced("create_zone", c, Nothing)
          /\ zone[c].settings # NewZone => Traced("patch_zone", c, c)
          /\ zone[c].status = "deleted" =>
                Traced("delete_zone", c, c) \/ Traced("erase", c, c)
          /\ c \in deleted => Traced("erase", c, c)
============================================================================
