-------------------------------- MODULE Perms --------------------------------
(***************************************************************************)
(* The permissions of a user: its own, raised by those of its groups.  A   *)
(* snapshot has powers, and flags that say whether a power counts for a    *)
(* further right; an active permission is a power only.                    *)
(***************************************************************************)
EXTENDS Integers, Sequences, FiniteSetsExt

CONSTANT Snapshots  \* the permissions that users and groups are given

\* The powers of a snapshot.
Powers == {"server_group_assign", "server_group_unassign", "channel_see", "channel_join",
           "channel_modify", "channel_talk", "channel_assign_talk", "channel_delete",
           "create"}

\* The rights that need a flag, with the power that counts for them.
Rights == {"send", "set_desc", "set_password", "resort_channel"}
Base(r) == IF r = "send" THEN "channel_join" ELSE "create"

Snapshot == [power : [Powers -> Nat], flags : SUBSET Rights]
ASSUME SnapshotsAssumption == Snapshots \subseteq Snapshot

Own(p) ==
  [n \in Powers \cup Rights |->
     IF n \in Powers THEN p.power[n] ELSE IF n \in p.flags THEN p.power[Base(n)] ELSE 0]

\* Mutant: the flag of the group is not asked.
RaiseUnflagged(active, g) ==
  [n \in DOMAIN active |->
     LET given == g.power[IF n \in Powers THEN n ELSE Base(n)]
     IN  IF given > active[n] THEN given ELSE active[n]]

\* A group gives what it has more of.
Raise(active, g) ==
  [n \in DOMAIN active |->
     LET given == g.power[IF n \in Powers THEN n ELSE Base(n)]
     IN  IF (n \in Rights => n \in g.flags) /\ given > active[n] THEN given ELSE active[n]]

\* What has been raised by the first i of the groups given.
calculate_active_perms(p, given) ==
  LET active[i \in 0..Len(given)] ==
        IF i = 0 THEN Own(p) ELSE Raise(active[i - 1], given[i])
  IN  active[Len(given)]

\* Whatever the order of the groups: what the user, or one of its groups, may do on its
\* own, and no more.
MaximaOf(p, given) ==
  [n \in Powers \cup Rights |-> Max({Own(s)[n] : s \in {p} \cup {given[i] : i \in DOMAIN given}})]
=============================================================================
