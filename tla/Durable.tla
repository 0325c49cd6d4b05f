------------------------------ MODULE Durable ------------------------------
(***************************************************************************)
(* What a file of entries promises: an entry is in it or not, one change   *)
(* at a time; all of it may be lost, and then it stays so.                 *)
(***************************************************************************)
CONSTANT Entry

VARIABLES kept, lost

vars == <<kept, lost>>

Init == kept = {} /\ lost = FALSE

Put(e) ==
  /\ ~lost
  /\ e \notin kept
  /\ kept' = kept \cup {e}
  /\ lost' = lost

Drop(e) ==
  /\ ~lost
  /\ e \in kept
  /\ kept' = kept \ {e}
  /\ lost' = lost

Lose ==
  /\ ~lost
  /\ kept' = {} /\ lost' = TRUE

Next == (\E e \in Entry : Put(e) \/ Drop(e)) \/ Lose

Spec == Init /\ [][Next]_vars
=============================================================================
