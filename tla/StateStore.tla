------------------------------ MODULE StateStore ------------------------------
(***************************************************************************)
(* What the engine promises, without layers, logs or files: one table of   *)
(* what was written, and what of it a get is shown.  A put or a delete is  *)
(* shown from its end until a newer one of its key begins to take its      *)
(* place: then an older record or none may be shown.  A restart keeps      *)
(* every acknowledged write.  It may only add writes that were never       *)
(* acknowledged, and those are newer than what they replace.               *)
(***************************************************************************)
EXTENDS Tables

VARIABLES up, store, shown

Init == ~up /\ store = EmptyTable /\ shown = EmptyTable

\* A put or delete begins to overwrite: of its key something older is shown.
Hide == /\ up /\ shown = store /\ UNCHANGED <<up, store>>
        /\ \E k \in Keys :
              /\ shown'[k].seq < shown[k].seq
              /\ shown' = [shown EXCEPT ![k] = shown'[k]]

\* put or delete: newer than everything in the store, and shown with all the rest.
Write == /\ up /\ UNCHANGED up
         /\ \E k \in Keys :
               /\ \A j \in Keys : store'[k].seq > store[j].seq /\ (j # k => shown[j] = store[j])
               /\ store' = [store EXCEPT ![k] = store'[k]]
         /\ shown' = store'

Stop == up /\ ~up' /\ UNCHANGED store /\ shown' = EmptyTable

Start == /\ ~up /\ up'
         /\ \A k \in Keys : store'[k] = store[k] \/ store'[k].seq > store[k].seq
         /\ shown' = store'

Next == Hide \/ Write \/ Stop \/ Start
Spec == Init /\ [][Next]_<<up, store, shown>>
===============================================================================
