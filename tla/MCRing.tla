------------------------------- MODULE MCRing -------------------------------
(***************************************************************************)
(* A ring with room for three packets at most, one of them long enough to  *)
(* be refused where the other is accepted.                                 *)
(***************************************************************************)
EXTENDS BBRing

MCItems == {<<1>>, <<2, 3, 4, 5, 6, 7, 8, 9>>}
=============================================================================
