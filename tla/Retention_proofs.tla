-------------------------- MODULE Retention_proofs --------------------------
(***************************************************************************)
(* Theorems about Retention, for every set of rows, windows and providers. *)
(***************************************************************************)
EXTENDS Retention, TLAPS

Store == [Providers -> SUBSET Windows]

----------------------------------------------------------------------------
(***************************************************************************)
(* What a call of the object store may do: an upload adds one key and, if  *)
(* it succeeds, adds it to a provider of the caller; a deletion removes    *)
(* nothing but its key and, if it succeeds with one provider, removes that *)
(* key from it.                                                            *)
(***************************************************************************)
LEMMA PutAdds ==
    ASSUME NEW S \in Store, NEW key \in Windows,
           NEW put \in PutLogs(WorkerOrder, S, key)
    PROVE  /\ put.store \in Store
           /\ put.ok \in BOOLEAN
           /\ \A p \in Providers : S[p] \subseteq put.store[p]
           /\ \A p \in Providers : put.store[p] \subseteq S[p] \cup {key}
           /\ put.ok => \E p \in Members(WorkerOrder) : key \in put.store[p]
<1> DEFINE Good(T) == /\ T \in Store
                      /\ \A p \in Providers : S[p] \subseteq T[p]
                      /\ \A p \in Providers : T[p] \subseteq S[p] \cup {key}
<1>1. \A where : Good(With(S, key, where))
  BY DEF With, Store
<1>2. CASE \E i \in DOMAIN WorkerOrder : put \in PutAt(WorkerOrder, S, key, i)
  <2>1. PICK i \in DOMAIN WorkerOrder : put \in PutAt(WorkerOrder, S, key, i)
    BY <1>2
  <2>2. PICK late : put = [ok |-> TRUE,
                           store |-> With(S, key, late \cup {WorkerOrder[i]})]
    BY <2>1 DEF PutAt
  <2>3. WorkerOrder[i] \in Members(WorkerOrder) /\ WorkerOrder[i] \in Providers
    BY OrdersOfProviders DEF Members
  <2>4. key \in put.store[WorkerOrder[i]]
    BY <2>2, <2>3 DEF With, Store
  <2>5. Good(put.store) /\ put.ok = TRUE
    BY <1>1, <2>2
  <2>6. QED
    BY <2>3, <2>4, <2>5
<1>3. CASE \E late \in SUBSET Members(WorkerOrder) :
              put = [ok |-> FALSE, store |-> With(S, key, late)]
  <2>1. Good(put.store) /\ put.ok = FALSE
    BY <1>1, <1>3
  <2>2. QED
    BY <2>1
<1>4. \/ \E i \in DOMAIN WorkerOrder : put \in PutAt(WorkerOrder, S, key, i)
      \/ \E late \in SUBSET Members(WorkerOrder) :
            put = [ok |-> FALSE, store |-> With(S, key, late)]
  <2>1. CASE put \in UNION {PutAt(WorkerOrder, S, key, i) : i \in DOMAIN WorkerOrder}
    BY <2>1, Zenon
  <2>2. CASE put \in {[ok |-> FALSE, store |-> With(S, key, late)] :
                        late \in SUBSET Members(WorkerOrder)}
    BY <2>2, Zenon
  <2>3. QED
    BY <2>1, <2>2, Zenon DEF PutLogs
<1>5. QED
  BY <1>2, <1>3, <1>4

LEMMA DeleteRemoves ==
    ASSUME NEW order, Members(order) \subseteq Providers,
           NEW S \in Store, NEW key \in Windows,
           NEW del \in DeleteObject(order, S, key)
    PROVE  /\ del.store \in Store
           /\ del.ok \in BOOLEAN
           /\ \A p \in Providers : del.store[p] \subseteq S[p]
           /\ \A p \in Providers : S[p] \ {key} \subseteq del.store[p]
           /\ \A q : Members(order) = {q} /\ order # <<>> /\ del.ok
                        => key \notin del.store[q]
<1>1. PICK failed \in SUBSET Members(order) : del \in DeleteAt(order, S, key, failed)
  BY DEF DeleteObject
<1>2. PICK late \in SUBSET failed :
         del = [ok |-> failed # Members(order) \/ order = <<>>,
                store |-> Without(S, key, (Members(order) \ failed) \cup late)]
  BY <1>1 DEF DeleteAt
<1>3. /\ del.ok = (failed # Members(order) \/ order = <<>>)
      /\ del.store = Without(S, key, (Members(order) \ failed) \cup late)
  BY <1>2
<1>4. /\ del.store \in Store
      /\ \A p \in Providers : del.store[p] \subseteq S[p]
      /\ \A p \in Providers : S[p] \ {key} \subseteq del.store[p]
  BY <1>3 DEF Without, Store
<1>5. ASSUME NEW q, Members(order) = {q}, order # <<>>, del.ok
      PROVE  key \notin del.store[q]
  <2>1. failed # Members(order)
    BY <1>3, <1>5
  <2>2. failed = {}
    BY <2>1, <1>5
  <2>3. q \in (Members(order) \ failed) \cup late /\ q \in Providers
    BY <2>2, <1>5
  <2>4. QED
    BY <1>3, <2>3 DEF Without, Store
<1>6. del.ok \in BOOLEAN
  BY <1>3
<1>7. QED
  BY <1>4, <1>5, <1>6

----------------------------------------------------------------------------
(***************************************************************************)
(* The inductive invariant.  An attempt under way has a pending row, a row *)
(* that names an object is done or expired, and so are the rows the expiry *)
(* tasks and the erasure work on; those of the expiry tasks are old.  The  *)
(* erasure is idle until there was a request.                              *)
(***************************************************************************)
Listed(d) == todo[d] \cup mark[d]

Kept(j) == \E p \in Members(WorkerOrder) : Key(j) \in store[p]

RowsInv ==
    \A j \in Rows :
        /\ pull[j] # "off" => row[j].status = "pending"
        /\ row[j].key => row[j].status \in {"done", "expired"}

ListsInv ==
    /\ \A d \in Tasks : \A j \in Listed(d) :
          /\ WindowOf[j] \in old
          /\ row[j].status \in {"done", "expired"}
    /\ \A j \in erase.todo \cup erase.mark : row[j].key
    /\ erase.outcome = "none" =>
          erase.step = "off" /\ erase.todo = {} /\ erase.mark = {}

SavedInv ==
    \A j \in Rows :
        pull[j] = "save" /\ WindowOf[j] \notin old /\ erase.outcome = "none"
            => Kept(j)

Inv == TypeOK /\ RowsInv /\ ListsInv /\ SavedInv /\ RetainedIsStored

LEMMA InvInit == Init => Inv
<1> SUFFICES ASSUME Init PROVE Inv
  OBVIOUS
<1> USE DEF Init
<1>1. TypeOK
  BY DEF TypeOK, Row, Erase, Account
<1>2. RowsInv /\ SavedInv /\ RetainedIsStored
  BY DEF RowsInv, SavedInv, RetainedIsStored
<1>3. ListsInv
  BY DEF ListsInv, Listed
<1>4. QED
  BY <1>1, <1>2, <1>3 DEF Inv

----------------------------------------------------------------------------
(***************************************************************************)
(* Types.                                                                  *)
(***************************************************************************)
LEMMA KeyTyped == \A j \in Rows : Key(j) \in Windows
BY WindowsOfRows DEF Key

\* A request lists rows that name an object.
LEMMA ListsKeyed ==
    ASSUME EraseLists
    PROVE  \/ erase' = [erase EXCEPT !.step = "rows", !.outcome = "partial"]
           \/ \E l \in SUBSET {j \in Rows : row[j].key} :
                 erase' = [erase EXCEPT !.step = "rows", !.todo = l, !.listed = l]
<1>1. CASE \E l \in Listings : LET keyed == {j \in l : row[j].key} IN
             erase' = [erase EXCEPT !.step = "rows", !.todo = keyed,
                                    !.listed = keyed]
  <2>1. PICK l \in Listings : LET keyed == {j \in l : row[j].key} IN
             erase' = [erase EXCEPT !.step = "rows", !.todo = keyed,
                                    !.listed = keyed]
    BY <1>1
  <2>2. {j \in l : row[j].key} \in SUBSET {j \in Rows : row[j].key}
    BY DEF Listings
  <2>3. QED
    BY <2>1, <2>2
<1>2. QED
  BY <1>1 DEF EraseLists

\* One of the updates that end the request.
LEMMA EndsMoves ==
    ASSUME erase \in Erase, NEW part, NEW next, Ends(part, next)
    PROVE  /\ account' \subseteq account
           /\ next \in {"keys", "customer", "off"} => erase' \in Erase
           /\ erase'.todo = erase.todo /\ erase'.mark = erase.mark
           /\ erase'.listed = erase.listed /\ erase'.step = next
           /\ \/ erase'.outcome \in {"partial", erase.outcome}
              \/ next = "off" /\ erase.outcome = "open" /\ erase'.outcome = "erased"
<1>1. PICK outcome :
        /\ erase' = [erase EXCEPT !.step = next, !.outcome = outcome]
        /\ \/ outcome \in {"partial", erase.outcome}
           \/ next = "off" /\ erase.outcome = "open" /\ outcome = "erased"
  BY DEF Ends
<1>2. account' \subseteq account
  BY DEF Ends
<1>3. QED
  BY <1>1, <1>2 DEF Erase

LEMMA TypeStep == TypeOK /\ [Next]_vars => TypeOK'
<1> SUFFICES ASSUME TypeOK, [Next]_vars PROVE TypeOK'
  OBVIOUS
<1> USE DEF TypeOK
<1>1. ASSUME NEW j \in Rows, PullStep(j) PROVE TypeOK'
  <2>1. CASE PullBegins(j)
    BY <2>1 DEF PullBegins, Archiving, Row
  <2>2. CASE PullsNothing(j)
    BY <2>2 DEF PullsNothing, Archiving, Row
  <2>3. CASE PullPuts(j)
    <3>1. PICK put \in PutLogs(WorkerOrder, store, Key(j)) :
            /\ store' = put.store
            /\ IF put.ok
               THEN /\ pull' = [pull EXCEPT ![j] = "save"]
                    /\ row' = row
               ELSE /\ pull' = [pull EXCEPT ![j] = "off"]
                    /\ row' = [row EXCEPT ![j].status = "failed"]
      BY <2>3 DEF PullPuts
    <3>2. put.store \in Store /\ put.ok \in BOOLEAN
      BY PutAdds, KeyTyped DEF Store
    <3>3. store' \in [Providers -> SUBSET Windows]
      BY <3>1, <3>2 DEF Store
    <3>4. row' \in [Rows -> Row] /\ pull' \in [Rows -> {"off", "put", "save"}]
      BY <3>1, <3>2 DEF Row
    <3>5. QED
      BY <2>3, <3>3, <3>4 DEF PullPuts, Archiving
  <2>4. CASE PullSaves(j)
    BY <2>4 DEF PullSaves, Archiving, Row
  <2>5. CASE PullDies(j)
    BY <2>5 DEF PullDies, Archiving, Row
  <2>6. QED
    BY <1>1, <2>1, <2>2, <2>3, <2>4, <2>5 DEF PullStep
<1>2. ASSUME NEW w \in Windows, Age(w) PROVE TypeOK'
  BY <1>2 DEF Age
<1>3. CASE NextDay
  BY <1>3 DEF NextDay
<1>4. ASSUME NEW d \in Tasks, ScheduleExpiry(d) PROVE TypeOK'
  BY <1>4 DEF ScheduleExpiry
<1>5. ASSUME NEW d \in Tasks, ExpireStep(d) PROVE TypeOK'
  <2>1. CASE ExpireBegins(d)
    BY <2>1 DEF ExpireBegins, ListExpired
  <2>2. CASE ExpireFails(d)
    BY <2>2 DEF ExpireFails
  <2>3. ASSUME NEW j \in Rows, ExpireDeletes(d, j) PROVE TypeOK'
    <3>1. store' \in [Providers -> SUBSET Windows]
      <4>1. CASE row[j].key
        <5>1. PICK del \in DeleteObject(WorkerOrder, store, Key(j)) : store' = del.store
          BY <2>3, <4>1 DEF ExpireDeletes
        <5>2. del.store \in Store
          BY DeleteRemoves, KeyTyped, OrdersOfProviders DEF Store
        <5>3. QED
          BY <5>1, <5>2 DEF Store
      <4>2. CASE ~row[j].key
        BY <2>3, <4>2 DEF ExpireDeletes
      <4>3. QED
        BY <4>1, <4>2
    <3>2. mark' \in [Tasks -> SUBSET Rows]
      BY <2>3 DEF ExpireDeletes
    <3>3. QED
      BY <2>3, <3>1, <3>2 DEF ExpireDeletes
  <2>4. ASSUME NEW j \in Rows, ExpireMarks(d, j) PROVE TypeOK'
    BY <2>4 DEF ExpireMarks, MarkExpired, Row
  <2>5. CASE ExpireMarkFails(d)
    BY <2>5 DEF ExpireMarkFails
  <2>6. CASE ExpireEnds(d)
    BY <2>6 DEF ExpireEnds
  <2>7. QED
    BY <1>5, <2>1, <2>2, <2>3, <2>4, <2>5, <2>6 DEF ExpireStep
<1>6. CASE EraseStep
  <2>1. CASE EraseBegins
    BY <2>1 DEF EraseBegins, Erasing, Erase
  <2>2. CASE EraseLists
    <3>1. erase' \in Erase
      BY <2>2, ListsKeyed DEF Erase
    <3>2. QED
      BY <2>2, <3>1 DEF EraseLists, Erasing
  <2>3. ASSUME NEW j \in Rows, EraseDeletes(j) PROVE TypeOK'
    <3>1. PICK del \in DeleteObject(APIOrder, store, Key(j)) :
            /\ store' = del.store
            /\ erase' = [erase EXCEPT !.todo = @ \ {j}, !.mark = {j},
                                      !.outcome = IF del.ok THEN @ ELSE "partial"]
      BY <2>3 DEF EraseDeletes
    <3>2. store' \in [Providers -> SUBSET Windows]
      BY <3>1, DeleteRemoves, KeyTyped, OrdersOfProviders DEF Store
    <3>3. erase' \in Erase
      BY <3>1 DEF Erase
    <3>4. QED
      BY <2>3, <3>2, <3>3 DEF EraseDeletes, Erasing
  <2>4. ASSUME NEW j \in Rows, EraseMarks(j) PROVE TypeOK'
    <3>1. erase' \in Erase
      BY <2>4 DEF EraseMarks, Erase
    <3>2. row' \in [Rows -> Row]
      BY <2>4 DEF EraseMarks, MarkExpired, Row
    <3>3. QED
      BY <2>4, <3>1, <3>2 DEF EraseMarks, Erasing
  <2>5. CASE EraseZones \/ EraseKeys \/ EraseCustomer
    <3>1. erase' \in Erase /\ account' \subseteq Account
      BY <2>5, EndsMoves DEF EraseZones, EraseKeys, EraseCustomer
    <3>2. QED
      BY <2>5, <3>1 DEF EraseZones, EraseKeys, EraseCustomer, Erasing
  <2>6. CASE EraseDies
    BY <2>6 DEF EraseDies, Erasing, Erase
  <2>7. QED
    BY <1>6, <2>1, <2>2, <2>3, <2>4, <2>5, <2>6 DEF EraseStep
<1>7. CASE UNCHANGED vars
  BY <1>7 DEF vars
<1>8. QED
  BY <1>1, <1>2, <1>3, <1>4, <1>5, <1>6, <1>7 DEF Next

(***************************************************************************)
(* Type correctness of the specification.                                  *)
(***************************************************************************)
THEOREM TypeCorrect == Spec => []TypeOK
<1>1. Init => TypeOK
  BY InvInit DEF Inv
<1>2. QED
  BY <1>1, TypeStep, PTL DEF Spec

----------------------------------------------------------------------------
(***************************************************************************)
(* The rows and the attempts.                                              *)
(***************************************************************************)
LEMMA RowsStep == TypeOK /\ RowsInv /\ ListsInv /\ [Next]_vars => RowsInv'
<1> SUFFICES ASSUME TypeOK, RowsInv, ListsInv, [Next]_vars PROVE RowsInv'
  OBVIOUS
<1> USE DEF RowsInv
<1>a. row \in [Rows -> Row] /\ pull \in [Rows -> {"off", "put", "save"}]
  BY DEF TypeOK
<1>1. ASSUME NEW j \in Rows, PullStep(j) PROVE RowsInv'
  <2>1. CASE PullBegins(j)
    BY <2>1, <1>a DEF PullBegins, Row
  <2>2. CASE PullsNothing(j)
    BY <2>2, <1>a DEF PullsNothing, Row
  <2>3. CASE PullPuts(j)
    <3>1. pull[j] = "put" /\ row[j].status = "pending"
      BY <2>3 DEF PullPuts
    <3>2. \/ pull' = [pull EXCEPT ![j] = "save"] /\ row' = row
          \/ /\ pull' = [pull EXCEPT ![j] = "off"]
             /\ row' = [row EXCEPT ![j].status = "failed"]
      BY <2>3 DEF PullPuts
    <3>3. QED
      BY <3>1, <3>2, <1>a DEF Row
  <2>4. CASE PullSaves(j)
    BY <2>4, <1>a DEF PullSaves, Row
  <2>5. CASE PullDies(j)
    BY <2>5, <1>a DEF PullDies, Row
  <2>6. QED
    BY <1>1, <2>1, <2>2, <2>3, <2>4, <2>5 DEF PullStep
<1>2. ASSUME NEW j \in Rows, MarkExpired(j), pull' = pull,
             row[j].status \in {"done", "expired"}
      PROVE  RowsInv'
  BY <1>2, <1>a DEF MarkExpired, Row
<1>3. ASSUME NEW d \in Tasks, ExpireStep(d) PROVE RowsInv'
  <2>1. ASSUME NEW j \in Rows, ExpireMarks(d, j) PROVE RowsInv'
    <3>1. row[j].status \in {"done", "expired"}
      BY <2>1 DEF ExpireMarks, ListsInv, Listed
    <3>2. QED
      BY <2>1, <3>1, <1>2 DEF ExpireMarks
  <2>2. CASE UNCHANGED <<row, pull>>
    BY <2>2
  <2>3. QED
    BY <1>3, <2>1, <2>2 DEF ExpireStep, ExpireBegins, ExpireFails,
       ExpireDeletes, ExpireMarkFails, ExpireEnds
<1>4. CASE EraseStep
  <2>1. ASSUME NEW j \in Rows, EraseMarks(j) PROVE RowsInv'
    <3>1. row[j].status \in {"done", "expired"}
      BY <2>1 DEF EraseMarks, ListsInv
    <3>2. pull' = pull /\ (MarkExpired(j) \/ row' = row)
      BY <2>1 DEF EraseMarks, Erasing
    <3>3. QED
      BY <3>1, <3>2, <1>2
  <2>2. CASE UNCHANGED <<row, pull>>
    BY <2>2
  <2>3. QED
    BY <1>4, <2>1, <2>2 DEF EraseStep, EraseBegins, EraseLists, EraseDeletes,
       EraseZones, EraseKeys, EraseCustomer,
       Ends, EraseDies, Erasing
<1>5. CASE UNCHANGED <<row, pull>>
  BY <1>5
<1>6. QED
  BY <1>1, <1>3, <1>4, <1>5 DEF Next, vars, Age, NextDay, ScheduleExpiry

(***************************************************************************)
(* The lists: nothing leaves "old", and a row that is done or expired      *)
(* stays one of the two.                                                   *)
(***************************************************************************)
LEMMA SettledStays ==
    ASSUME TypeOK, RowsInv, ListsInv, [Next]_vars, NEW j \in Rows
    PROVE  /\ row[j].status \in {"done", "expired"}
                => row'[j].status \in {"done", "expired"}
           /\ row[j].key => row'[j].key
           /\ row[j].status \in {"done", "expired"} => row'[j].key = row[j].key
           /\ row'[j].status = "none" => row[j].status = "none"
           /\ old \subseteq old'
<1>a. row \in [Rows -> Row] /\ pull \in [Rows -> {"off", "put", "save"}]
  BY DEF TypeOK
<1>1. CASE \E k \in Rows : PullStep(k)
  <2>1. PICK k \in Rows : PullStep(k)
    BY <1>1
  <2>2. \/ row' = row
        \/ /\ row[k].status \notin {"done", "expired"}
           /\ \/ \E s \in {"pending", "done", "failed"} :
                     row' = [row EXCEPT ![k].status = s]
              \/ row' = [row EXCEPT ![k] = [status |-> "done", key |-> TRUE]]
    BY <2>1 DEF RowsInv, PullStep, PullBegins, PullsNothing, PullPuts,
       PullSaves, PullDies
  <2>3. old' = old
    BY <2>1 DEF PullStep, PullBegins, PullsNothing, PullPuts, PullSaves,
       PullDies, Archiving
  <2>4. QED
    BY <2>2, <2>3, <1>a DEF Row
<1>2. CASE /\ old' = old
           /\ \E k \in Rows : MarkExpired(k) /\ row[k].status \in {"done", "expired"}
  BY <1>2, <1>a DEF MarkExpired, Row
<1>3. CASE row' = row /\ old \subseteq old'
  BY <1>3
<1>4. ASSUME NEW d \in Tasks, ExpireStep(d)
      PROVE  \/ /\ old' = old
                /\ \E k \in Rows : MarkExpired(k) /\ row[k].status \in {"done", "expired"}
             \/ row' = row /\ old \subseteq old'
  BY <1>4 DEF ExpireStep, ExpireBegins, ExpireFails, ExpireDeletes, ExpireMarks,
     ExpireMarkFails, ExpireEnds, ListsInv, Listed
<1>5. ASSUME EraseStep
      PROVE  \/ /\ old' = old
                /\ \E k \in Rows : MarkExpired(k) /\ row[k].status \in {"done", "expired"}
             \/ row' = row /\ old \subseteq old'
  BY <1>5 DEF EraseStep, EraseBegins, EraseLists, EraseDeletes, EraseMarks,
     EraseZones, EraseKeys, EraseCustomer,
       Ends, EraseDies, Erasing, ListsInv, RowsInv
<1>6. CASE \/ UNCHANGED vars \/ (\E w \in Windows : Age(w)) \/ NextDay
           \/ \E d \in Tasks : ScheduleExpiry(d)
  BY <1>6, <1>3 DEF vars, Age, NextDay, ScheduleExpiry
<1>7. QED
  BY <1>1, <1>2, <1>3, <1>4, <1>5, <1>6 DEF Next

(***************************************************************************)
(* Only the request changes the erasure, and it never forgets that there   *)
(* was a request.                                                          *)
(***************************************************************************)
LEMMA OnlyErase == [Next]_vars => EraseStep \/ erase' = erase
BY DEF Next, vars, PullStep, PullBegins, PullsNothing, PullPuts, PullSaves,
   PullDies, Archiving, Age, NextDay, ScheduleExpiry, ExpireStep,
   ExpireBegins, ExpireFails, ExpireDeletes, ExpireMarks, ExpireMarkFails,
   ExpireEnds

LEMMA EraseMoves ==
    ASSUME TypeOK, ListsInv, EraseStep
    PROVE  /\ erase'.outcome # "none"
           /\ erase'.todo \subseteq erase.todo \cup {k \in Rows : row[k].key}
           /\ erase'.mark \subseteq erase.mark \cup erase.todo
<1>a. erase \in Erase
  BY DEF TypeOK
<1>b. erase.outcome = "none" =>
         erase.step = "off" /\ erase.todo = {} /\ erase.mark = {}
  BY DEF ListsInv
<1>1. CASE EraseBegins
  BY <1>1 DEF EraseBegins
<1>2. CASE EraseLists
  <2>1. erase.outcome # "none"
    BY <1>2, <1>b DEF EraseLists
  <2>2. /\ erase'.mark = erase.mark
        /\ erase'.todo = erase.todo \/ erase'.todo \subseteq {k \in Rows : row[k].key}
        /\ erase'.outcome \in {"partial", erase.outcome}
    BY <1>2, <1>a, ListsKeyed DEF Erase
  <2>3. QED
    BY <2>1, <2>2
<1>3. ASSUME NEW j \in Rows, EraseDeletes(j)
      PROVE  /\ erase'.outcome # "none"
             /\ erase'.todo \subseteq erase.todo
             /\ erase'.mark \subseteq erase.todo
  <2>1. j \in erase.todo /\ erase.outcome # "none"
    BY <1>3, <1>b DEF EraseDeletes
  <2>2. PICK outcome \in {"partial", erase.outcome} :
          erase' = [erase EXCEPT !.todo = @ \ {j}, !.mark = {j}, !.outcome = outcome]
    BY <1>3 DEF EraseDeletes
  <2>3. /\ erase'.todo = erase.todo \ {j} /\ erase'.mark = {j}
        /\ erase'.outcome = outcome
    BY <2>2, <1>a DEF Erase
  <2>4. QED
    BY <2>1, <2>3
<1>4. ASSUME NEW j \in Rows, EraseMarks(j)
      PROVE  /\ erase'.outcome # "none"
             /\ erase'.todo = erase.todo /\ erase'.mark = {}
  <2>1. erase.outcome # "none"
    BY <1>4, <1>b DEF EraseMarks
  <2>2. QED
    BY <2>1, <1>4, <1>a DEF EraseMarks, Erase
<1>5. CASE EraseZones \/ EraseKeys \/ EraseCustomer
  <2>1. erase.outcome # "none"
    BY <1>5, <1>b DEF EraseZones, EraseKeys, EraseCustomer
  <2>2. QED
    BY <2>1, <1>5, <1>a, EndsMoves DEF EraseZones, EraseKeys, EraseCustomer
<1>6. CASE EraseDies
  BY <1>6, <1>a DEF EraseDies, Erase
<1>7. QED
  BY <1>1, <1>2, <1>3, <1>4, <1>5, <1>6 DEF EraseStep

LEMMA ListsStep == TypeOK /\ RowsInv /\ ListsInv /\ [Next]_vars => ListsInv'
<1> SUFFICES ASSUME TypeOK, RowsInv, ListsInv, [Next]_vars PROVE ListsInv'
  OBVIOUS
<1>a. /\ todo \in [Tasks -> SUBSET Rows] /\ mark \in [Tasks -> SUBSET Rows]
      /\ erase \in Erase
  BY DEF TypeOK
<1>b. TypeOK'
  BY TypeStep
\* What the steps may put on the lists of the expiry tasks.
<1>1. \A d \in Tasks : \A j \in Listed(d)' :
         \/ \E c \in Tasks : j \in Listed(c)
         \/ j \in ListExpired
  <2>1. ASSUME NEW d \in Tasks, ExpireStep(d), NEW c \in Tasks, NEW j \in Listed(c)'
        PROVE  j \in Listed(c) \/ j \in ListExpired
    <3>1. CASE ExpireBegins(d)
      BY <2>1, <3>1, <1>a DEF ExpireBegins, Listed
    <3>2. CASE ExpireFails(d)
      BY <2>1, <3>2, <1>a DEF ExpireFails, Listed
    <3>3. ASSUME NEW k \in Rows, ExpireDeletes(d, k) PROVE j \in Listed(c)
      <4>1. /\ k \in todo[d]
            /\ todo' = [todo EXCEPT ![d] = @ \ {k}]
            /\ \/ mark' = [mark EXCEPT ![d] = {k}]
               \/ mark' = [mark EXCEPT ![d] = {}]
        BY <3>3 DEF ExpireDeletes
      <4>2. QED
        BY <4>1, <2>1, <1>a DEF Listed
    <3>4. ASSUME NEW k \in Rows, ExpireMarks(d, k) PROVE j \in Listed(c)
      BY <2>1, <3>4, <1>a DEF ExpireMarks, Listed
    <3>5. CASE ExpireMarkFails(d)
      BY <2>1, <3>5, <1>a DEF ExpireMarkFails, Listed
    <3>6. CASE ExpireEnds(d)
      BY <2>1, <3>6, <1>a DEF ExpireEnds, Listed
    <3>7. QED
      BY <2>1, <3>1, <3>2, <3>3, <3>4, <3>5, <3>6 DEF ExpireStep
  <2>2. CASE UNCHANGED <<todo, mark>>
    BY <2>2 DEF Listed
  <2>3. (\E d \in Tasks : ExpireStep(d)) \/ UNCHANGED <<todo, mark>>
    BY DEF Next, vars, PullStep, PullBegins, PullsNothing, PullPuts, PullSaves,
       PullDies, Archiving, Age, NextDay, ScheduleExpiry, EraseStep, EraseBegins,
       EraseLists, EraseDeletes, EraseMarks, EraseZones, EraseKeys, EraseCustomer,
       Ends, EraseDies, Erasing
  <2>4. QED
    BY <2>1, <2>2, <2>3
<1>2. \A d \in Tasks : \A j \in Listed(d)' :
         WindowOf[j] \in old' /\ row'[j].status \in {"done", "expired"}
  <2> SUFFICES ASSUME NEW d \in Tasks, NEW j \in Listed(d)'
               PROVE  WindowOf[j] \in old' /\ row'[j].status \in {"done", "expired"}
    OBVIOUS
  <2>1. j \in Rows
    BY <1>b DEF TypeOK, Listed
  <2>2. WindowOf[j] \in old /\ row[j].status \in {"done", "expired"}
    BY <1>1 DEF ListsInv, ListExpired
  <2>3. QED
    BY <2>1, <2>2, SettledStays
<1>3. \A j \in erase'.todo \cup erase'.mark : row'[j].key
  <2> SUFFICES ASSUME NEW j \in erase'.todo \cup erase'.mark PROVE row[j].key
    BY <1>b, SettledStays DEF TypeOK, Erase
  <2>1. \/ j \in erase.todo \cup erase.mark
        \/ j \in {k \in Rows : row[k].key}
    BY OnlyErase, EraseMoves
  <2>2. QED
    BY <2>1 DEF ListsInv
<1>4. erase'.outcome = "none" =>
         erase'.step = "off" /\ erase'.todo = {} /\ erase'.mark = {}
  BY OnlyErase, EraseMoves DEF ListsInv
<1>5. QED
  BY <1>2, <1>3, <1>4 DEF ListsInv

----------------------------------------------------------------------------
(***************************************************************************)
(* The stores.  While nobody erases, only old windows leave them, and only *)
(* the windows of attempts under way come in.                              *)
(***************************************************************************)
LEMMA StoreMoves ==
    ASSUME TypeOK, ListsInv, [Next]_vars, erase'.outcome = "none"
    PROVE  \A p \in Providers :
             /\ \A w \in store[p] : w \in store'[p] \/ w \in old
             /\ \A w \in store'[p] :
                  w \in store[p] \/ \E j \in Rows : pull[j] = "put" /\ w = Key(j)
<1> DEFINE Goal == \A p \in Providers :
             /\ \A w \in store[p] : w \in store'[p] \/ w \in old
             /\ \A w \in store'[p] :
                  w \in store[p] \/ \E j \in Rows : pull[j] = "put" /\ w = Key(j)
<1>a. store \in Store /\ erase' = erase
  BY OnlyErase, EraseMoves DEF TypeOK, Store
<1>1. ASSUME NEW j \in Rows, PullPuts(j) PROVE Goal
  <2>1. PICK put \in PutLogs(WorkerOrder, store, Key(j)) : store' = put.store
    BY <1>1 DEF PullPuts
  <2>2. \A p \in Providers : /\ store[p] \subseteq put.store[p]
                            /\ put.store[p] \subseteq store[p] \cup {Key(j)}
    BY <1>a, PutAdds, KeyTyped
  <2>3. pull[j] = "put"
    BY <1>1 DEF PullPuts
  <2>4. QED
    BY <2>1, <2>2, <2>3
<1>2. ASSUME NEW d \in Tasks, NEW j \in Rows, ExpireDeletes(d, j) PROVE Goal
  <2>1. Key(j) \in old
    BY <1>2 DEF ExpireDeletes, ListsInv, Listed, Key
  <2>2. CASE row[j].key
    <3>1. PICK del \in DeleteObject(WorkerOrder, store, Key(j)) : store' = del.store
      BY <1>2, <2>2 DEF ExpireDeletes
    <3>2. \A p \in Providers : /\ del.store[p] \subseteq store[p]
                              /\ store[p] \ {Key(j)} \subseteq del.store[p]
      BY <1>a, DeleteRemoves, KeyTyped, OrdersOfProviders
    <3>3. QED
      BY <2>1, <3>1, <3>2
  <2>3. CASE ~row[j].key
    BY <1>2, <2>3 DEF ExpireDeletes
  <2>4. QED
    BY <2>2, <2>3
<1>3. CASE store' = store
  BY <1>3
<1>4. \/ \E j \in Rows : PullPuts(j)
      \/ \E d \in Tasks, j \in Rows : ExpireDeletes(d, j)
      \/ EraseStep
      \/ store' = store
  BY DEF Next, vars, PullStep, PullBegins, PullsNothing, PullSaves, PullDies,
     Archiving, Age, NextDay, ScheduleExpiry, ExpireStep, ExpireBegins,
     ExpireFails, ExpireMarks, ExpireMarkFails, ExpireEnds
<1>5. ~EraseStep
  BY EraseMoves
<1>6. QED
  BY <1>1, <1>2, <1>3, <1>4, <1>5

(***************************************************************************)
(* A retained row keeps its object, and so does an attempt that has put it *)
(* and has not saved its row.                                              *)
(***************************************************************************)
LEMMA KeptStays ==
    ASSUME TypeOK, ListsInv, [Next]_vars, erase'.outcome = "none",
           NEW j \in Rows, WindowOf[j] \notin old, Kept(j)
    PROVE  Kept(j)'
BY StoreMoves, OrdersOfProviders DEF Kept, Key

LEMMA SavedStep == Inv /\ [Next]_vars => SavedInv'
<1> SUFFICES ASSUME Inv, [Next]_vars, NEW j \in Rows, pull'[j] = "save",
                    WindowOf[j] \notin old', erase'.outcome = "none"
             PROVE  Kept(j)'
  BY DEF SavedInv, Kept
<1>a. /\ TypeOK /\ RowsInv /\ ListsInv /\ SavedInv
      /\ pull \in [Rows -> {"off", "put", "save"}]
  BY DEF Inv, TypeOK
<1>b. WindowOf[j] \notin old /\ erase.outcome = "none"
  BY <1>a, SettledStays, OnlyErase, EraseMoves
<1>1. CASE pull[j] = "save"
  BY <1>1, <1>a, <1>b, KeptStays DEF SavedInv
<1>2. CASE PullPuts(j)
  <2>1. PICK put \in PutLogs(WorkerOrder, store, Key(j)) :
          /\ store' = put.store
          /\ IF put.ok
             THEN /\ pull' = [pull EXCEPT ![j] = "save"]
                  /\ row' = row
             ELSE /\ pull' = [pull EXCEPT ![j] = "off"]
                  /\ row' = [row EXCEPT ![j].status = "failed"]
    BY <1>2 DEF PullPuts
  <2>2. put.ok
    BY <2>1, <1>a
  <2>3. \E p \in Members(WorkerOrder) : Key(j) \in put.store[p]
    BY <2>2, <1>a, PutAdds, KeyTyped DEF TypeOK, Store
  <2>4. QED
    BY <2>1, <2>3 DEF Kept, Key
<1>3. pull[j] = "save" \/ PullPuts(j)
  <2>1. ASSUME NEW k \in Rows, PullStep(k) PROVE pull[j] = "save" \/ PullPuts(j)
    <3>1. CASE PullPuts(k)
      <4>1. \/ pull' = [pull EXCEPT ![k] = "save"]
            \/ pull' = [pull EXCEPT ![k] = "off"]
        BY <3>1 DEF PullPuts
      <4>2. QED
        BY <3>1, <4>1, <1>a
    <3>2. ~PullPuts(k) => pull[j] = "save"
      BY <2>1, <1>a DEF PullStep, PullBegins, PullsNothing, PullSaves, PullDies
    <3>3. QED
      BY <3>1, <3>2
  <2>2. (\E k \in Rows : PullStep(k)) \/ pull' = pull
    BY DEF Next, vars, Age, NextDay, ScheduleExpiry, ExpireStep, ExpireBegins,
       ExpireFails, ExpireDeletes, ExpireMarks, ExpireMarkFails, ExpireEnds,
       EraseStep, EraseBegins, EraseLists, EraseDeletes, EraseMarks,
       EraseZones, EraseKeys, EraseCustomer,
       Ends, EraseDies, Erasing
  <2>3. QED
    BY <2>1, <2>2
<1>4. QED
  BY <1>1, <1>2, <1>3

LEMMA RetainedStep == Inv /\ [Next]_vars => RetainedIsStored'
<1> SUFFICES ASSUME Inv, [Next]_vars, NEW j \in Rows,
                    row'[j].status = "done", row'[j].key,
                    WindowOf[j] \notin old', erase'.outcome = "none"
             PROVE  Kept(j)'
  BY DEF RetainedIsStored, Kept
<1>a. /\ TypeOK /\ RowsInv /\ ListsInv /\ SavedInv /\ RetainedIsStored
      /\ row \in [Rows -> Row]
  BY DEF Inv, TypeOK
<1>b. WindowOf[j] \notin old /\ erase.outcome = "none"
  BY <1>a, SettledStays, OnlyErase, EraseMoves
<1>1. CASE row[j].status = "done" /\ row[j].key
  <2>1. Kept(j)
    BY <1>1, <1>a, <1>b DEF RetainedIsStored, Kept
  <2>2. QED
    BY <2>1, <1>a, <1>b, KeptStays
<1>2. CASE pull[j] = "save"
  BY <1>2, <1>a, <1>b, KeptStays DEF SavedInv
<1>3. (row[j].status = "done" /\ row[j].key) \/ pull[j] = "save"
  <2>1. ASSUME NEW k \in Rows, PullStep(k)
        PROVE  (row[j].status = "done" /\ row[j].key) \/ pull[j] = "save"
    <3>1. CASE PullSaves(k)
      BY <3>1, <1>a DEF PullSaves, Row
    <3>2. CASE PullPuts(k)
      <4>1. row' = row \/ row' = [row EXCEPT ![k].status = "failed"]
        BY <3>2 DEF PullPuts
      <4>2. QED
        BY <4>1, <1>a DEF Row
    <3>3. CASE PullsNothing(k)
      <4>1. pull[k] # "off" /\ row' = [row EXCEPT ![k].status = "done"]
        BY <3>3 DEF PullsNothing
      <4>2. row[k].key = FALSE
        BY <4>1, <1>a DEF RowsInv, Row
      <4>3. QED
        BY <4>1, <4>2, <1>a DEF Row
    <3>4. CASE PullBegins(k) \/ PullDies(k)
      BY <3>4, <1>a DEF PullBegins, PullDies, Row
    <3>5. QED
      BY <2>1, <3>1, <3>2, <3>3, <3>4 DEF PullStep
  <2>2. \/ \E k \in Rows : PullStep(k) \/ MarkExpired(k)
        \/ row' = row
    BY DEF Next, vars, Age, NextDay, ScheduleExpiry, ExpireStep, ExpireBegins,
       ExpireFails, ExpireDeletes, ExpireMarks, ExpireMarkFails, ExpireEnds,
       EraseStep, EraseBegins, EraseLists, EraseDeletes, EraseMarks,
       EraseZones, EraseKeys, EraseCustomer,
       Ends, EraseDies
  <2>3. ASSUME NEW k \in Rows, MarkExpired(k)
        PROVE  row[j].status = "done" /\ row[j].key
    BY <2>3, <1>a DEF MarkExpired, Row
  <2>4. QED
    BY <2>1, <2>2, <2>3
<1>4. QED
  BY <1>1, <1>2, <1>3

(***************************************************************************)
(* Retention: with any rows, windows and stores, while nobody erases the   *)
(* customer the object of an archived row stays in a store of the worker   *)
(* until its window is beyond the retention.                               *)
(***************************************************************************)
THEOREM RetainedHolds == Spec => []RetainedIsStored
<1>1. Inv /\ [Next]_vars => Inv'
  BY TypeStep, RowsStep, ListsStep, SavedStep, RetainedStep DEF Inv
<1>2. Inv => RetainedIsStored
  BY DEF Inv
<1>3. QED
  BY InvInit, <1>1, <1>2, PTL DEF Spec

----------------------------------------------------------------------------
(***************************************************************************)
(* With one provider a deletion that succeeds leaves no object, so a row   *)
(* that is to be marked has none, unless another attempt writes its key.   *)
(***************************************************************************)
OneProvider ==
    \E p : WorkerOrder # <<>> /\ Members(WorkerOrder) = {p} /\ Providers = {p}

Gone(j) == \A p \in Providers : Key(j) \notin store[p]

MarkedInv ==
    \A d \in Tasks : \A j \in mark[d] :
        row[j].key /\ Alone(j) /\ erase.outcome = "none" => Gone(j)

ResidueInv == TypeOK /\ RowsInv /\ ListsInv /\ MarkedInv /\ NoResidue

LEMMA GoneStays ==
    ASSUME TypeOK, RowsInv, ListsInv, [Next]_vars, erase'.outcome = "none",
           NEW j \in Rows, row[j].status \in {"done", "expired"}, Alone(j), Gone(j)
    PROVE  Gone(j)'
<1> SUFFICES ASSUME NEW p \in Providers, Key(j) \in store'[p] PROVE FALSE
  BY DEF Gone, Key
<1>1. PICK k \in Rows : pull[k] = "put" /\ Key(j) = Key(k)
  BY StoreMoves DEF Gone
<1>2. row[k].status = "pending"
  BY <1>1 DEF RowsInv
<1>3. QED
  BY <1>1, <1>2 DEF Alone, Key

LEMMA AloneBefore ==
    ASSUME TypeOK, RowsInv, ListsInv, [Next]_vars, NEW j \in Rows, Alone(j)'
    PROVE  Alone(j)
BY SettledStays DEF Alone

LEMMA MarkedStep ==
    OneProvider /\ ResidueInv /\ [Next]_vars => MarkedInv'
<1> SUFFICES ASSUME OneProvider, ResidueInv, [Next]_vars,
                    NEW d \in Tasks, NEW j \in mark'[d],
                    row'[j].key, Alone(j)', erase'.outcome = "none"
             PROVE  Gone(j)'
  BY DEF MarkedInv, Gone
<1>a. /\ TypeOK /\ RowsInv /\ ListsInv /\ MarkedInv
      /\ mark \in [Tasks -> SUBSET Rows] /\ store \in Store
  BY DEF ResidueInv, TypeOK, Store
<1>b. erase.outcome = "none"
  BY <1>a, OnlyErase, EraseMoves
<1>c. TypeOK'
  BY <1>a, TypeStep
<1>d. j \in Rows
  BY <1>c DEF TypeOK
<1>e. Alone(j)
  BY <1>a, <1>d, AloneBefore
<1>1. ASSUME NEW c \in Tasks, j \in mark[c] PROVE Gone(j)'
  <2>1. row[j].status \in {"done", "expired"}
    BY <1>1, <1>a DEF ListsInv, Listed
  <2>2. row[j].key
    BY <2>1, <1>a, <1>d, SettledStays
  <2>3. QED
    BY <2>1, <2>2, <1>1, <1>a, <1>b, <1>d, <1>e, GoneStays DEF MarkedInv
<1>2. ASSUME NEW c \in Tasks, ExpireDeletes(c, j) PROVE Gone(j)'
  <2>1. CASE j \in mark[d]
    BY <2>1, <1>1
  <2>2. CASE j \notin mark[d]
    <3>1. row[j].key
      BY <1>2 DEF ExpireDeletes
    <3>2. PICK del \in DeleteObject(WorkerOrder, store, Key(j)) :
            /\ store' = del.store
            /\ mark' = [mark EXCEPT ![c] = IF del.ok THEN {j} ELSE {}]
      BY <1>2, <3>1 DEF ExpireDeletes
    <3>3. del.ok
      BY <3>2, <2>2, <1>a
    <3>4. \A q : Members(WorkerOrder) = {q} /\ WorkerOrder # <<>> /\ del.ok
                   => Key(j) \notin del.store[q]
      BY <1>a, <1>d, DeleteRemoves, KeyTyped, OrdersOfProviders
    <3>5. QED
      BY <3>2, <3>3, <3>4 DEF OneProvider, Gone, Key
  <2>3. QED
    BY <2>1, <2>2
<1>3. (\E c \in Tasks : j \in mark[c]) \/ (\E c \in Tasks : ExpireDeletes(c, j))
  <2>1. ASSUME NEW c \in Tasks, NEW k \in Rows, ExpireDeletes(c, k)
        PROVE  j \in mark[d] \/ j = k
    <3>1. mark' = [mark EXCEPT ![c] = {k}] \/ mark' = [mark EXCEPT ![c] = {}]
      BY <2>1 DEF ExpireDeletes
    <3>2. QED
      BY <3>1, <1>a
  <2>2. (\A c \in Tasks, k \in Rows : ~ExpireDeletes(c, k))
          => \E c \in Tasks : j \in mark[c]
    BY <1>a DEF Next, vars, PullStep, PullBegins, PullsNothing, PullPuts,
       PullSaves, PullDies, Archiving, Age, NextDay, ScheduleExpiry,
       ExpireStep, ExpireBegins, ExpireFails, ExpireMarks, ExpireMarkFails,
       ExpireEnds, EraseStep, EraseBegins, EraseLists, EraseDeletes, EraseMarks,
       EraseZones, EraseKeys, EraseCustomer,
       Ends, EraseDies, Erasing
  <2>3. QED
    BY <2>1, <2>2
<1>4. QED
  BY <1>1, <1>2, <1>3

LEMMA ResidueStep ==
    ResidueInv /\ [Next]_vars => NoResidue'
<1> SUFFICES ASSUME ResidueInv, [Next]_vars, NEW j \in Rows,
                    row'[j].status = "expired", row'[j].key, Alone(j)',
                    erase'.outcome = "none"
             PROVE  Gone(j)'
  BY DEF NoResidue, Gone
<1>a. /\ TypeOK /\ RowsInv /\ ListsInv /\ MarkedInv /\ NoResidue
      /\ row \in [Rows -> Row]
  BY DEF ResidueInv, TypeOK
<1>b. erase' = erase /\ erase.outcome = "none"
  BY <1>a, OnlyErase, EraseMoves
<1>c. Alone(j)
  BY <1>a, AloneBefore
<1>1. CASE row[j].status = "expired" /\ row[j].key
  BY <1>1, <1>a, <1>b, <1>c, GoneStays DEF NoResidue, Gone
<1>2. ASSUME NEW d \in Tasks, ExpireMarks(d, j) PROVE Gone(j)'
  <2>1. j \in mark[d] /\ row' = [row EXCEPT ![j].status = "expired"] /\ store' = store
    BY <1>2 DEF ExpireMarks, MarkExpired
  <2>2. row[j].key
    BY <2>1, <1>a DEF Row
  <2>3. Gone(j)
    BY <2>1, <2>2, <1>a, <1>b, <1>c DEF MarkedInv
  <2>4. QED
    BY <2>1, <2>3 DEF Gone, Key
<1>3. \/ row[j].status = "expired" /\ row[j].key
      \/ \E d \in Tasks : ExpireMarks(d, j)
  <2>1. ASSUME NEW k \in Rows, PullStep(k) PROVE row[j].status = "expired" /\ row[j].key
    <3>1. \/ row' = row
          \/ \E s \in {"pending", "done", "failed"} : row' = [row EXCEPT ![k].status = s]
          \/ row' = [row EXCEPT ![k] = [status |-> "done", key |-> TRUE]]
      BY <2>1 DEF PullStep, PullBegins, PullsNothing, PullPuts, PullSaves, PullDies
    <3>2. QED
      BY <3>1, <1>a DEF Row
  <2>2. ASSUME NEW d \in Tasks, NEW k \in Rows, ExpireMarks(d, k), j # k
        PROVE  row[j].status = "expired" /\ row[j].key
    BY <2>2, <1>a DEF ExpireMarks, MarkExpired, Row
  <2>3. \/ \E k \in Rows : PullStep(k)
        \/ \E d \in Tasks, k \in Rows : ExpireMarks(d, k)
        \/ EraseStep
        \/ row' = row
    BY DEF Next, vars, Age, NextDay, ScheduleExpiry, ExpireStep, ExpireBegins,
       ExpireFails, ExpireDeletes, ExpireMarkFails, ExpireEnds
  <2>4. ~EraseStep
    BY <1>a, EraseMoves
  <2>5. QED
    BY <2>1, <2>2, <2>3, <2>4
<1>4. QED
  BY <1>1, <1>2, <1>3

(***************************************************************************)
(* No residue: with one provider a row that the expiry task marked has     *)
(* left no object behind, for any rows and windows.  With two providers    *)
(* the premise fails, and so does the property.                            *)
(***************************************************************************)
THEOREM NoResidueHolds == ASSUME OneProvider PROVE Spec => []NoResidue
<1>1. Init => ResidueInv
  BY InvInit DEF ResidueInv, Inv, Init, MarkedInv, NoResidue
<1>2. ResidueInv /\ [Next]_vars => ResidueInv'
  BY TypeStep, RowsStep, ListsStep, MarkedStep, ResidueStep DEF ResidueInv
<1>3. ResidueInv => NoResidue
  BY DEF ResidueInv
<1>4. QED
  BY <1>1, <1>2, <1>3, PTL DEF Spec

----------------------------------------------------------------------------
(***************************************************************************)
(* The erasure.  A row the request listed is still to be handled, or its   *)
(* object is gone from the stores of the API, while no deletion failed and *)
(* nobody else archives its window.  With one provider a deletion that     *)
(* succeeds is a deletion from all of them.                                *)
(***************************************************************************)
OneAPIProvider == \E p : Members(APIOrder) = {p}

GoneFromAPI(j) == \A p \in Members(APIOrder) : Key(j) \notin store[p]

ListedInv ==
    /\ erase.outcome = "erased" => erase.step = "off" /\ erase.todo = {}
    /\ erase.outcome \in {"open", "erased"} =>
          \A j \in erase.listed :
             /\ row[j].key
             /\ j \in erase.todo \/ (Alone(j) => GoneFromAPI(j))

\* The last updates come when every listed row was handled.
EndsInv == erase.step \in {"keys", "customer"} => erase.todo = {}

ErasureInv == TypeOK /\ RowsInv /\ ListsInv /\ EndsInv /\ ListedInv

\* Only the attempts under way put objects into the stores.
LEMMA StoreGains ==
    ASSUME TypeOK, [Next]_vars
    PROVE  \A p \in Providers : \A w \in store'[p] :
              w \in store[p] \/ \E j \in Rows : pull[j] = "put" /\ w = Key(j)
<1> DEFINE Goal == \A p \in Providers : \A w \in store'[p] :
              w \in store[p] \/ \E j \in Rows : pull[j] = "put" /\ w = Key(j)
<1>a. store \in Store
  BY DEF TypeOK, Store
<1>1. ASSUME NEW j \in Rows, PullPuts(j) PROVE Goal
  <2>1. PICK put \in PutLogs(WorkerOrder, store, Key(j)) : store' = put.store
    BY <1>1 DEF PullPuts
  <2>2. \A p \in Providers : put.store[p] \subseteq store[p] \cup {Key(j)}
    BY <1>a, PutAdds, KeyTyped
  <2>3. pull[j] = "put"
    BY <1>1 DEF PullPuts
  <2>4. QED
    BY <2>1, <2>2, <2>3
<1>2. ASSUME NEW d \in Tasks, NEW j \in Rows, ExpireDeletes(d, j) PROVE Goal
  <2>1. CASE row[j].key
    <3>1. PICK del \in DeleteObject(WorkerOrder, store, Key(j)) : store' = del.store
      BY <1>2, <2>1 DEF ExpireDeletes
    <3>2. \A p \in Providers : del.store[p] \subseteq store[p]
      BY <1>a, DeleteRemoves, KeyTyped, OrdersOfProviders
    <3>3. QED
      BY <3>1, <3>2
  <2>2. CASE ~row[j].key
    BY <1>2, <2>2 DEF ExpireDeletes
  <2>3. QED
    BY <2>1, <2>2
<1>3. ASSUME NEW j \in Rows, EraseDeletes(j) PROVE Goal
  <2>1. PICK del \in DeleteObject(APIOrder, store, Key(j)) : store' = del.store
    BY <1>3 DEF EraseDeletes
  <2>2. \A p \in Providers : del.store[p] \subseteq store[p]
    BY <1>a, DeleteRemoves, KeyTyped, OrdersOfProviders
  <2>3. QED
    BY <2>1, <2>2
<1>4. CASE store' = store
  BY <1>4
<1>5. \/ \E j \in Rows : PullPuts(j)
      \/ \E d \in Tasks, j \in Rows : ExpireDeletes(d, j)
      \/ \E j \in Rows : EraseDeletes(j)
      \/ store' = store
  BY DEF Next, vars, PullStep, PullBegins, PullsNothing, PullSaves, PullDies,
     Archiving, Age, NextDay, ScheduleExpiry, ExpireStep, ExpireBegins,
     ExpireFails, ExpireMarks, ExpireMarkFails, ExpireEnds, EraseStep,
     EraseBegins, EraseLists, EraseMarks, EraseZones, EraseKeys, EraseCustomer,
       Ends, EraseDies
<1>6. QED
  BY <1>1, <1>2, <1>3, <1>4, <1>5

\* A row with an object has no attempt under way, so once its object is gone
\* no attempt but one of another row of its window brings it back.
LEMMA GoneFromAPIStays ==
    ASSUME TypeOK, RowsInv, [Next]_vars,
           NEW j \in Rows, row[j].key, Alone(j), GoneFromAPI(j)
    PROVE  GoneFromAPI(j)'
<1> SUFFICES ASSUME NEW p \in Members(APIOrder), Key(j) \in store'[p] PROVE FALSE
  BY DEF GoneFromAPI, Key
<1>1. p \in Providers
  BY OrdersOfProviders
<1>2. PICK k \in Rows : pull[k] = "put" /\ Key(j) = Key(k)
  BY <1>1, StoreGains DEF GoneFromAPI
<1>3. row[k].status = "pending" /\ row[j].status \in {"done", "expired"}
  BY <1>2 DEF RowsInv
<1>4. QED
  BY <1>2, <1>3 DEF Alone, Key

LEMMA EndsStep == TypeOK /\ EndsInv /\ [Next]_vars => EndsInv'
<1> SUFFICES ASSUME TypeOK, EndsInv, [Next]_vars PROVE EndsInv'
  OBVIOUS
<1> USE DEF EndsInv
<1>a. erase \in Erase
  BY DEF TypeOK
<1>1. CASE EraseBegins
  BY <1>1 DEF EraseBegins
<1>2. CASE EraseLists
  BY <1>2, <1>a DEF EraseLists, Erase
<1>3. ASSUME NEW j \in Rows, EraseDeletes(j) PROVE EndsInv'
  <2>1. j \in erase.todo /\ erase'.step = erase.step
    BY <1>3, <1>a DEF EraseDeletes, Erase
  <2>2. QED
    BY <2>1
<1>4. ASSUME NEW j \in Rows, EraseMarks(j) PROVE EndsInv'
  BY <1>4, <1>a DEF EraseMarks, Erase
<1>5. CASE EraseZones \/ EraseKeys \/ EraseCustomer
  <2>1. erase.todo = {}
    BY <1>5 DEF EraseZones, EraseKeys, EraseCustomer
  <2>2. QED
    BY <2>1, <1>5, <1>a, EndsMoves DEF EraseZones, EraseKeys, EraseCustomer
<1>6. CASE EraseDies
  BY <1>6, <1>a DEF EraseDies, Erase
<1>7. QED
  BY <1>1, <1>2, <1>3, <1>4, <1>5, <1>6, OnlyErase DEF EraseStep

\* What a step does to the request, as far as ListedInv reads it.
LEMMA RequestMoves ==
    ASSUME TypeOK, EndsInv, EraseStep
    PROVE  \/ erase'.outcome \in {"none", "partial"}
           \/ erase'.outcome = "open" /\ erase'.listed = {}
           \/ /\ erase'.outcome = erase.outcome /\ erase.step = "list"
              /\ erase'.listed \subseteq {j \in Rows : row[j].key}
              /\ erase'.todo = erase'.listed /\ erase'.step = "rows"
           \/ /\ erase'.outcome = erase.outcome /\ erase'.listed = erase.listed
              /\ erase'.step = erase.step \/ erase.step # "off"
              /\ \/ erase'.todo = erase.todo
                 \/ \E j \in erase.todo : /\ EraseDeletes(j)
                                         /\ erase'.todo = erase.todo \ {j}
           \/ /\ erase'.outcome = "erased" /\ erase.outcome = "open"
              /\ erase'.step = "off" /\ erase.todo = {} /\ erase'.todo = {}
              /\ erase'.listed = erase.listed
<1>a. erase \in Erase
  BY DEF TypeOK
<1>1. CASE EraseBegins
  BY <1>1 DEF EraseBegins
<1>2. CASE EraseLists
  <2>1. CASE erase' = [erase EXCEPT !.step = "rows", !.outcome = "partial"]
    BY <2>1, <1>a DEF Erase
  <2>2. ASSUME NEW l \in SUBSET {j \in Rows : row[j].key},
               erase' = [erase EXCEPT !.step = "rows", !.todo = l, !.listed = l]
        PROVE  /\ erase'.outcome = erase.outcome /\ erase.step = "list"
               /\ erase'.listed \subseteq {j \in Rows : row[j].key}
               /\ erase'.todo = erase'.listed /\ erase'.step = "rows"
    BY <1>2, <2>2, <1>a DEF EraseLists, Erase
  <2>3. QED
    BY <1>2, <2>1, <2>2, ListsKeyed
<1>3. ASSUME NEW j \in Rows, EraseDeletes(j)
      PROVE  \/ erase'.outcome = "partial"
             \/ /\ erase'.outcome = erase.outcome /\ erase'.listed = erase.listed
                /\ erase'.step = erase.step
                /\ j \in erase.todo /\ erase'.todo = erase.todo \ {j}
  <2>1. PICK outcome \in {"partial", erase.outcome} :
          erase' = [erase EXCEPT !.todo = @ \ {j}, !.mark = {j}, !.outcome = outcome]
    BY <1>3 DEF EraseDeletes
  <2>2. /\ erase'.todo = erase.todo \ {j} /\ erase'.outcome = outcome
        /\ erase'.listed = erase.listed /\ erase'.step = erase.step
    BY <2>1, <1>a DEF Erase
  <2>3. QED
    BY <1>3, <2>2 DEF EraseDeletes
<1>4. ASSUME NEW j \in Rows, EraseMarks(j)
      PROVE  /\ erase'.outcome = erase.outcome /\ erase'.listed = erase.listed
             /\ erase'.step = erase.step /\ erase'.todo = erase.todo
  BY <1>4, <1>a DEF EraseMarks, Erase
<1>5. CASE EraseZones
  BY <1>5, <1>a, EndsMoves DEF EraseZones
<1>6. CASE EraseKeys
  BY <1>6, <1>a, EndsMoves DEF EraseKeys
<1>7. CASE EraseCustomer
  BY <1>7, <1>a, EndsMoves DEF EraseCustomer, EndsInv
<1>8. CASE EraseDies
  BY <1>8, <1>a DEF EraseDies, Erase
<1>9. QED
  BY <1>1, <1>2, <1>3, <1>4, <1>5, <1>6, <1>7, <1>8 DEF EraseStep

\* A deletion that the request counts as a success, of the only provider.
LEMMA DeletedIsGone ==
    ASSUME OneAPIProvider, TypeOK, NEW j \in Rows, EraseDeletes(j),
           erase'.outcome # "partial"
    PROVE  GoneFromAPI(j)'
<1>1. PICK del \in DeleteObject(APIOrder, store, Key(j)) :
        /\ store' = del.store
        /\ erase' = [erase EXCEPT !.todo = @ \ {j}, !.mark = {j},
                                  !.outcome = IF del.ok THEN @ ELSE "partial"]
  BY DEF EraseDeletes
<1>2. del.ok
  BY <1>1 DEF TypeOK, Erase
<1>3. store \in Store /\ Key(j) \in Windows /\ Members(APIOrder) \subseteq Providers
  BY KeyTyped, OrdersOfProviders DEF TypeOK, Store
<1>4. \A q : Members(APIOrder) = {q} /\ APIOrder # <<>> /\ del.ok
               => Key(j) \notin del.store[q]
  BY <1>3, DeleteRemoves
<1>5. QED
  BY <1>1, <1>2, <1>4, SomeProvider DEF OneAPIProvider, GoneFromAPI, Key

LEMMA ErasureStep ==
    OneAPIProvider /\ ErasureInv /\ [Next]_vars => ListedInv'
<1> SUFFICES ASSUME OneAPIProvider, ErasureInv, [Next]_vars PROVE ListedInv'
  OBVIOUS
<1>a. TypeOK /\ RowsInv /\ ListsInv /\ EndsInv /\ ListedInv /\ TypeOK'
  BY TypeStep DEF ErasureInv
<1>b. erase \in Erase
  BY <1>a DEF TypeOK
\* A row that was listed before the step.
<1>1. ASSUME NEW j \in erase.listed, erase.outcome \in {"open", "erased"}
      PROVE  /\ row'[j].key
             /\ j \notin erase.todo => (Alone(j)' => GoneFromAPI(j)')
  <2>1. j \in Rows /\ row[j].key
    BY <1>1, <1>a, <1>b DEF ListedInv, Erase
  <2>2. row'[j].key
    BY <1>a, <2>1, SettledStays
  <2>3. ASSUME j \notin erase.todo, Alone(j)' PROVE GoneFromAPI(j)'
    <3>1. Alone(j)
      BY <1>a, <2>1, <2>3, AloneBefore
    <3>2. GoneFromAPI(j)
      BY <1>1, <1>a, <2>3, <3>1 DEF ListedInv
    <3>3. QED
      BY <1>a, <2>1, <3>1, <3>2, GoneFromAPIStays
  <2>4. QED
    BY <2>2, <2>3
<1>2. CASE erase' = erase
  BY <1>1, <1>2, <1>a DEF ListedInv
<1>3. CASE EraseStep
  <2>1. CASE erase'.outcome \in {"none", "partial"}
    BY <2>1 DEF ListedInv
  <2>2. CASE erase'.outcome = "open" /\ erase'.listed = {}
    BY <2>2 DEF ListedInv
  <2>3. CASE /\ erase'.outcome = erase.outcome /\ erase.step = "list"
             /\ erase'.listed \subseteq {j \in Rows : row[j].key}
             /\ erase'.todo = erase'.listed /\ erase'.step = "rows"
    <3>1. erase'.outcome # "erased"
      BY <2>3, <1>a DEF ListedInv
    <3>2. \A j \in erase'.listed : row'[j].key /\ j \in erase'.todo
      BY <2>3, <1>a, SettledStays
    <3>3. QED
      BY <3>1, <3>2 DEF ListedInv
  <2>4. CASE /\ erase'.outcome = erase.outcome /\ erase'.listed = erase.listed
             /\ erase'.step = erase.step \/ erase.step # "off"
             /\ erase'.todo = erase.todo
    BY <2>4, <1>1, <1>a DEF ListedInv
  <2>5. ASSUME NEW k \in erase.todo, EraseDeletes(k), erase'.todo = erase.todo \ {k},
               erase'.outcome = erase.outcome, erase'.listed = erase.listed,
               erase'.outcome \in {"open", "erased"}
        PROVE  ListedInv'
    <3>1. k \in Rows /\ GoneFromAPI(k)'
      BY <2>5, <1>a, <1>b, DeletedIsGone DEF Erase
    <3>2. erase'.outcome # "erased"
      BY <2>5, <1>a DEF ListedInv
    <3>3. \A j \in erase'.listed :
             row'[j].key /\ (j \in erase'.todo \/ (Alone(j)' => GoneFromAPI(j)'))
      BY <1>1, <2>5, <3>1
    <3>4. QED
      BY <3>2, <3>3 DEF ListedInv
  <2>6. CASE /\ erase'.outcome = "erased" /\ erase.outcome = "open"
             /\ erase'.step = "off" /\ erase.todo = {} /\ erase'.todo = {}
             /\ erase'.listed = erase.listed
    BY <2>6, <1>1 DEF ListedInv
  <2>7. erase'.outcome \in {"none", "partial", "open", "erased"}
    BY <1>a DEF TypeOK, Erase
  <2>8. QED
    BY <1>3, <1>a, <2>1, <2>2, <2>3, <2>4, <2>5, <2>6, <2>7, RequestMoves
<1>4. QED
  BY <1>2, <1>3, OnlyErase

(***************************************************************************)
(* With one provider behind the API an erasure without a failure leaves no *)
(* object of a row it listed, for any rows, windows and stores.            *)
(***************************************************************************)
THEOREM ListedAreErasedHolds ==
    ASSUME OneAPIProvider
    PROVE  Spec => []ListedAreErased
<1>1. Init => ErasureInv
  BY InvInit DEF Init, Inv, ErasureInv, EndsInv, ListedInv
<1>2. ErasureInv /\ [Next]_vars => ErasureInv'
  BY OneAPIProvider, TypeStep, RowsStep, ListsStep, EndsStep, ErasureStep
     DEF ErasureInv
<1>3. ErasureInv => ListedAreErased
  BY DEF ErasureInv, ListedInv, ListedAreErased, GoneFromAPI
<1>4. QED
  BY <1>1, <1>2, <1>3, PTL DEF Spec
=============================================================================
