-------------------------------- MODULE Pool --------------------------------
(***************************************************************************)
(* What a concurrent collection promises whatever its order: an element    *)
(* comes out at most once, and only after it went in.                      *)
(***************************************************************************)
CONSTANT Element

VARIABLES inside,   \* the elements that can be taken
          out       \* those that were

vars == <<inside, out>>

Init == inside = {} /\ out = {}

Put(e) ==
  /\ e \notin inside \cup out
  /\ inside' = inside \cup {e}
  /\ out' = out

Take(e) ==
  /\ e \in inside
  /\ inside' = inside \ {e}
  /\ out' = out \cup {e}

Next == \E e \in Element : Put(e) \/ Take(e)

Spec == Init /\ [][Next]_vars
=============================================================================
