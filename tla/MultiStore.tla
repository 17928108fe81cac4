----------------------------- MODULE MultiStore -----------------------------
(***************************************************************************)
(* The object store behind the workers and the API                         *)
(* (internal/storage: MultiStore over the S3 and file system backends).    *)
(*                                                                         *)
(* A store is a function from providers to the keys they hold, an order is *)
(* the sequence of providers a process was started with.  A call may fail  *)
(* at any provider, and a call that failed may have been carried out all   *)
(* the same: its answer was lost.  Each operator gives the set of what one *)
(* call may return and leave behind.                                       *)
(***************************************************************************)
EXTENDS Naturals, Sequences

Members(order) == {order[i] : i \in DOMAIN order}

With(store, key, where) ==
    [p \in DOMAIN store |-> IF p \in where THEN store[p] \cup {key} ELSE store[p]]

Without(store, key, where) ==
    [p \in DOMAIN store |-> IF p \in where THEN store[p] \ {key} ELSE store[p]]

\* The providers are tried in order up to the first success.
PutAt(order, store, key, i) ==
    {[ok |-> TRUE, store |-> With(store, key, late \cup {order[i]})] :
        late \in SUBSET {order[j] : j \in 1 .. (i - 1)}}

PutLogs(order, store, key) ==
    (UNION {PutAt(order, store, key, i) : i \in DOMAIN order})
    \cup {[ok |-> FALSE, store |-> With(store, key, late)] :
            late \in SUBSET Members(order)}

\* Mutant: the errors of the providers are not looked at.
DeleteAtSilently(order, store, key, failed) ==
    {[ok |-> TRUE,
      store |-> Without(store, key, (Members(order) \ failed) \cup late)] :
        late \in SUBSET failed}

\* Every provider is tried; one success is enough for the call to succeed.
DeleteAt(order, store, key, failed) ==
    {[ok |-> failed # Members(order) \/ order = <<>>,
      store |-> Without(store, key, (Members(order) \ failed) \cup late)] :
        late \in SUBSET failed}

DeleteObject(order, store, key) ==
    UNION {DeleteAt(order, store, key, failed) : failed \in SUBSET Members(order)}
=============================================================================
