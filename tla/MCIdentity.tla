----------------------------- MODULE MCIdentity -----------------------------
\* Numbers of three bits, a hash that moves every bit, three keys.
EXTENDS Identity, TLC

CONSTANTS k1, k2, k3

MCSha == [v \in U256 |-> Xor({(b + 1) % Bits : b \in v}, {0})]
MCUuid == (k1 :> {0, 2} @@ k2 :> {1} @@ k3 :> {})
=============================================================================
