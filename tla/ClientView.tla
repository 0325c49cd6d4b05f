------------------------------ MODULE ClientView ------------------------------
(* What a client knows of a server (client/src/server.rs) and how each packet   *)
(* of the reliable stream changes it.  One task reads the stream in order and   *)
(* handles a packet to its end before the next, so a handler is a function of   *)
(* the view; an unwrap() that fails ends that task, and the view stays as it is *)
(* although the connection lives on.                                            *)
EXTENDS FiniteSets

CONSTANTS
  Users, Channels,
  Home,        \* default_channel_id of the AuthResponse
  NoChannel

(* Server.channels: the listed channels, each with its members; Server.clients: *)
(* the channel of each known user.                                              *)
Lists == [listed  : SUBSET Channels,
          members : [Channels -> SUBSET Users],
          known   : [Users -> Channels \cup {NoChannel}]]

EmptyLists == [listed  |-> {},
               members |-> [c \in Channels |-> {}],
               known   |-> [u \in Users |-> NoChannel]]

\* "waiting" has no default_channel yet.
View == [phase : {"waiting", "connected", "refused", "panicked"}, lists : Lists]
NewView == [phase |-> "waiting", lists |-> EmptyLists]

\* An AuthResponse::Success is encoded channel by channel; on the client a user met
\* in two of them ends up, in Server.clients, in the one decoded last.
WithChannel(lists, c, users) ==
  [listed  |-> lists.listed \cup {c},
   members |-> [lists.members EXCEPT ![c] = users],
   known   |-> [u \in Users |-> IF u \in users THEN c ELSE lists.known[u]]]

Panicked(v) == [v EXCEPT !.phase = "panicked"]

\* The handler runs to its end, or an unwrap() in it fails; a view whose task has
\* panicked takes no further packet.
Handled(v, ok, lists) ==
  IF v.phase # "panicked" /\ ok THEN [v EXCEPT !.lists = lists] ELSE Panicked(v)

HandleAuthSuccess(v, response) ==
  IF v.phase = "waiting" THEN [phase |-> "connected", lists |-> response]
  ELSE Panicked(v)

\* The answers that turn a client away; two of them it does not know how to show.
Refusals == {"said", "OutOfDate", "ForceDisconnect"}

\* OutOfDate, and the ForceDisconnect that answers a bad size, are todo!().
HandleAuthFailure(v, reason) ==
  IF v.phase # "waiting" THEN v
  ELSE [v EXCEPT !.phase = IF reason = "said" THEN "refused" ELSE "panicked"]

\* Mutant: the user is entered in Server.clients only.
HandleConnectedUnlisted(v, u) ==
  Handled(v, v.phase = "connected" /\ Home \in v.lists.listed,
          [v.lists EXCEPT !.known[u] = Home])

HandleClientConnected(v, u) ==
  Handled(v, v.phase = "connected" /\ Home \in v.lists.listed,
          [v.lists EXCEPT !.members[Home] = @ \cup {u}, !.known[u] = Home])

\* The profile is inserted into the channel of the user, not removed from it.
HandleClientDisconnected(v, u) ==
  IF v.phase = "panicked" THEN v
  ELSE LET c == v.lists.known[u]
           lists == [v.lists EXCEPT !.known[u] = NoChannel] IN
       IF c \in lists.listed
       THEN [v EXCEPT !.lists = [lists EXCEPT !.members[c] = @ \cup {u}]]
       ELSE Panicked([v EXCEPT !.lists = lists])

HandleRemove(v, c, u) ==
  Handled(v, c \in v.lists.listed /\ u \in v.lists.members[c],
          [v.lists EXCEPT !.members[c] = @ \ {u}])

\* Mutant: Server.clients keeps the channel the user has left.
HandleAddForgetsChannel(v, c, u) ==
  Handled(v, v.lists.known[u] # NoChannel /\ c \in v.lists.listed,
          [v.lists EXCEPT !.members[c] = @ \cup {u}])

\* Mutant: an unknown channel is passed over.
HandleAddUnlisted(v, c, u) ==
  Handled(v, v.lists.known[u] # NoChannel,
          [v.lists EXCEPT !.known[u] = c, !.members[c] = @ \cup {u}])

\* The user's channel is set before the channel is looked up.
HandleAdd(v, c, u) ==
  IF v.phase = "panicked" \/ v.lists.known[u] = NoChannel THEN Panicked(v)
  ELSE LET lists == [v.lists EXCEPT !.known[u] = c] IN
       IF c \in lists.listed
       THEN [v EXCEPT !.lists = [lists EXCEPT !.members[c] = @ \cup {u}]]
       ELSE Panicked([v EXCEPT !.lists = lists])

===============================================================================
