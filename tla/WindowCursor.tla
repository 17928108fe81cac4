---------------------------- MODULE WindowCursor ----------------------------
(***************************************************************************)
(* What a scheduler promises of a zone: it is a consumer that commits its  *)
(* place only after the work was handed on.  A window that is handed on    *)
(* starts at the committed cursor, and the cursor only ever moves to the   *)
(* end of a window that started where it stands.  A zone without a cursor  *)
(* may start anywhere.                                                     *)
(***************************************************************************)
EXTENDS Integers

CONSTANTS Zones, Never

VARIABLES
    cursor,  \* per zone: an instant, or Never
    batches  \* the windows handed on

vars == <<cursor, batches>>

Continues(z, b) == b.zone = z /\ cursor[z] \in {Never, b.from}

Init ==
    /\ cursor = [z \in Zones |-> Never]
    /\ batches = {}

Offer(z) ==
    /\ \E b \in batches' :
          /\ Continues(z, b) /\ b.from < b.to
          /\ batches' = batches \cup {b}
    /\ UNCHANGED cursor

Commit(z) ==
    /\ \E b \in batches : Continues(z, b) /\ cursor' = [cursor EXCEPT ![z] = b.to]
    /\ UNCHANGED batches

Next == \E z \in Zones : Offer(z) \/ Commit(z)

Spec == Init /\ [][Next]_vars
=============================================================================
