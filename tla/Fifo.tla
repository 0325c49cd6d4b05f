-------------------------------- MODULE Fifo --------------------------------
(***************************************************************************)
(* What the repository's queues promise: items come out in the order they  *)
(* went in, each at most once, and none that was not put in.  The stream   *)
(* of packets and the byte ring both implement it.                         *)
(***************************************************************************)
EXTENDS Naturals, Sequences

CONSTANT Item

VARIABLES put,   \* every item that went in, in order
          got    \* every item that came out, in order

vars == <<put, got>>

Init == put = <<>> /\ got = <<>>

Put(i) ==
  /\ put' = Append(put, i)
  /\ got' = got

Take ==
  /\ Len(got) < Len(put)
  /\ got' = Append(got, put[Len(got) + 1])
  /\ put' = put

Next == Take \/ \E i \in Item : Put(i)

Spec == Init /\ [][Next]_vars
=============================================================================
