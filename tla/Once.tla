-------------------------------- MODULE Once --------------------------------
(***************************************************************************)
(* What a cell that is written once promises: the first offer stays, every *)
(* other one is refused, and none is refused before there is a first one.  *)
(***************************************************************************)
CONSTANTS Value, Nothing

VARIABLES content, refused

vars == <<content, refused>>

Init == content = Nothing /\ refused = {}

Keep(v) ==
  /\ content = Nothing
  /\ content' = v
  /\ refused' = refused

Refuse(v) ==
  /\ content # Nothing
  /\ v \notin refused
  /\ refused' = refused \cup {v}
  /\ content' = content

Next == \E v \in Value : Keep(v) \/ Refuse(v)

Spec == Init /\ [][Next]_vars
=============================================================================
