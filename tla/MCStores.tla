------------------------------ MODULE MCStores ------------------------------
(***************************************************************************)
(* The files of the server, and what it makes of the permissions in them.  *)
(***************************************************************************)
EXTENDS ServerStores

\* With three bits: no limit, a number that fits and one that the cast makes negative.
MCSlotArgs == {-1, 3, 6}

\* Snapshots that differ in every pair of powers, with flags of every kind.
Ordinal(n) == CHOOSE i \in 1..9 :
                <<"server_group_assign", "server_group_unassign", "channel_see",
                  "channel_join", "channel_modify", "channel_talk",
                  "channel_assign_talk", "channel_delete", "create">>[i] = n
MCSnapshots == {[power |-> [n \in Powers |-> (f * Ordinal(n) + c) % 4], flags |-> s] :
              f \in {1, 3}, c \in {0, 2}, s \in {{}, {"send"}, Rights \ {"send"}}}
=============================================================================
