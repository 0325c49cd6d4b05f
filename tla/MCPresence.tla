------------------------------ MODULE MCPresence ------------------------------
(* Instances of Presence for TLC: a lobby anybody may join and leave, a vault  *)
(* that asks for more join power than anybody has; connections are             *)
(* interchangeable.                                                            *)
EXTENDS Presence

CONSTANTS lobby, room, vault

MCJoin  == [c \in Channels |-> IF c = vault THEN 5 ELSE 0]
MCPower == [u \in Users |-> 0]

ConnSymmetry == Permutations(Conns)
UserSymmetry == ConnSymmetry \cup Permutations(Users)

===============================================================================
