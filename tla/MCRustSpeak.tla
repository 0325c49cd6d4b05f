------------------------------ MODULE MCRustSpeak ------------------------------
(* Instances of RustSpeak for TLC.                                              *)
EXTENDS RustSpeak

CONSTANTS lobby, room

MCJoin  == [c \in Channels |-> 0]
MCPower == [u \in Users |-> 0]

ConnSymmetry == Permutations(Conns)
UserSymmetry == ConnSymmetry \cup Permutations(Users)

===============================================================================
