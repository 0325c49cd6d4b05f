------------------------------- MODULE RustSpeak -------------------------------
(* Presence composed with the clients: each step of the server that writes to   *)
(* the reliable stream of a connection also takes the view of its client        *)
(* through the packet.  A stream is reliable and ordered and a handler depends  *)
(* on nothing but the view, so what a client makes of a packet is settled when  *)
(* the packet is written; view[s] is what the client at s shows once it has     *)
(* read everything written so far.                                              *)
EXTENDS Presence

CONSTANT NoChannel

ASSUME ClientConstantsOK == ConfigDefault \in Channels /\ NoChannel \notin Channels

INSTANCE ClientView WITH Home <- ConfigDefault

VARIABLES
  view,      \* what the client of a connection knows
  response,  \* the AuthResponse that the connection handler encodes
  left,      \* `channel` of a SwitchChannel handler: the one the user leaves
  owed,      \* the user whose client has got the first packet of a switch only
  told       \* history: for each client and user, the session that the last packet
             \* about the user was of; NoConn if there was none since the AuthResponse,
             \* and once finish_up has taken the client out of online_users

clientVars == <<view, response, left, owed, told>>
rsVars == <<vars, clientVars>>

ClientTypeOK ==
  /\ view \in [Conns -> View] /\ response \in Lists
  /\ left \in [Conns -> Channels] /\ owed \in [Conns -> Users \cup {NoUser}]
  /\ told \in [Conns -> [Users -> Conns \cup {NoConn}]]

RSInit ==
  /\ Init
  /\ view = [s \in Conns |-> NewView]
  /\ response = EmptyLists
  /\ left = [s \in Conns |-> Default]
  /\ owed = [s \in Conns |-> NoUser]
  /\ told = [s \in Conns |-> [u \in Users |-> NoConn]]

\* The connections behind the entries a broadcast has just visited.
Reached(sent) == {online[u] : u \in sent} \ {NoConn}

\* The clients at ts take a packet about the user of session s, and handle it.
Tell(ts, s) ==
  told' = [t \in Conns |-> IF t \in ts /\ view'[t].phase # "panicked"
                           THEN [told[t] EXCEPT ![user[s]] = s] ELSE told[t]]

-------------------------------------------------------------------------------
(* The login.                                                                   *)

\* A client of this version whose first packet is of a legal size gets neither
\* OutOfDate nor ForceDisconnect.
LoginRefused(s) ==
  /\ AuthReject(s)
  /\ \E reason \in (IF StrayPackets THEN Refusals ELSE {"said"}) :
        view' = [view EXCEPT ![s] =
                   IF link[s] = "up" THEN HandleAuthFailure(@, reason) ELSE @]
  /\ UNCHANGED <<response, left, owed, told>>

LoginBroadcast(s) ==
  /\ AuthBroadcast(s)
  /\ LET sent == IF acc' = s THEN accTodo \ accTodo' ELSE {} IN
     /\ view' = [t \in Conns |-> IF t \in Reached(sent)
                                 THEN HandleClientConnected(view[t], user[s]) ELSE view[t]]
     /\ Tell(Reached(sent), s)
  /\ UNCHANGED <<response, left, owed>>

LoginSnapshot(s) ==
  /\ AuthSnapshot(s)
  /\ \/ accTodo' = accTodo /\ UNCHANGED response
     \/ \E c \in accTodo \ accTodo' :
           response' = WithChannel(response, c, ToSet(proto[c]))
  /\ UNCHANGED <<view, left, owed, told>>

LoginReply(s) ==
  /\ AuthReply(s)
  /\ view' = [view EXCEPT ![s] =
                IF link[s] = "up" THEN HandleAuthSuccess(@, response) ELSE @]
  /\ response' = EmptyLists
  /\ told' = [told EXCEPT ![s] = [u \in Users |-> NoConn]]
  /\ UNCHANGED <<left, owed>>

\* The client opens the keep-alive stream when it handles the AuthResponse; one that
\* has panicked before never does.
LoginKeepAlive(s) ==
  /\ AuthKeepAlive(s)
  /\ link[s] = "up" => view[s].phase = "connected"
  /\ UNCHANGED clientVars

-------------------------------------------------------------------------------
(* The switch: Remove and Add are two sends to the same entry of online_users,  *)
(* whose shard stays locked against removal from the first to the second.       *)

\* A client offers the channels it lists.
StartSwitch(s, c) ==
  /\ SwitchRequest(s, c)
  /\ StrayPackets \/ c \in view[s].lists.listed
  /\ left' = [left EXCEPT ![s] = chan[s]]
  /\ UNCHANGED <<view, response, owed, told>>

SendRemove(s) ==
  /\ Handling(s) /\ swpc[s] = "bcast" /\ owed[s] = NoUser
  /\ \E u \in sw[s].todo :
        /\ online[u] # NoConn /\ ~Unreachable(u)
        /\ owed' = [owed EXCEPT ![s] = u]
        /\ view' = [view EXCEPT ![online[u]] = HandleRemove(@, left[s], user[s])]
        /\ Tell({online[u]}, s)
  /\ UNCHANGED <<vars, response, left>>

SendAdd(s) ==
  LET sent == IF tasks' = tasks THEN sw[s].todo \ sw'[s].todo ELSE {} IN
  /\ SwitchBroadcast(s)
  /\ IF owed[s] = NoUser
     THEN Reached(sent) = {}
     ELSE IF Unreachable(owed[s]) THEN tasks' # tasks ELSE sent = {owed[s]}
  /\ view' = [t \in Conns |-> IF t \in Reached(sent)
                              THEN HandleAdd(view[t], sw[s].to, user[s]) ELSE view[t]]
  /\ Tell(Reached(sent), s)
  /\ owed' = [owed EXCEPT ![s] = NoUser]
  /\ left' = [left EXCEPT ![s] = IF swpc'[s] = "idle" THEN Default ELSE @]
  /\ UNCHANGED response

Pinned(u) == \E t \in Conns : owed[t] = u

-------------------------------------------------------------------------------
(* Closing.                                                                     *)

LeaveOnline(s) ==
  /\ FinishOnline(s) /\ ~Pinned(user[s])
  /\ told' = [told EXCEPT ![s] = [u \in Users |-> NoConn]]
  /\ UNCHANGED <<view, response, left, owed>>

FarewellBroadcast(s) ==
  /\ FinishBroadcast(s)
  /\ LET sent == fin[s].todo \ fin'[s].todo IN
     /\ view' = [t \in Conns |-> IF t \in Reached(sent)
                                 THEN HandleClientDisconnected(view[t], user[s]) ELSE view[t]]
     /\ Tell(Reached(sent), s)
  /\ UNCHANGED <<response, left, owed>>

-------------------------------------------------------------------------------

\* Steps of a session that write nothing a client keeps.
Silent(s) ==
  /\ \/ Accept(s) \/ AuthPanic(s) \/ (\E u \in Users : AuthAccept(s, u)) \/ AuthInsert(s)
     \/ AuthPushClients(s) \/ AuthPushProto(s)
     \/ SwitchRefuse(s) \/ SwitchFindClient(s) \/ SwitchRemoveClient(s)
     \/ SwitchFindProto(s) \/ SwitchRemoveProto(s) \/ SwitchPushClients(s)
     \/ SwitchPushProto(s) \/ SwitchStore(s) \/ SwitchReply(s)
     \/ (\E t \in Readers : ReaderError(s, t)) \/ VoicePanic(s)
     \/ FinishLoad(s) \/ FinishClients(s) \/ FinishProto(s) \/ CloseLink(s) \/ LinkDown(s)
     \/ PanicPacket(s) \/ (DisconnectPacket(s) /\ ~Pinned(user[s]))
  /\ UNCHANGED clientVars

Speaking(s) ==
  \/ LoginRefused(s) \/ LoginBroadcast(s) \/ LoginSnapshot(s) \/ LoginReply(s)
  \/ LoginKeepAlive(s) \/ (\E c \in Channels : StartSwitch(s, c)) \/ SendRemove(s)
  \/ SendAdd(s) \/ LeaveOnline(s) \/ FarewellBroadcast(s)

Operator ==
  /\ \/ \E c \in Channels : CreateChannel(c) \/ DeleteChannel(c)
     \/ Shutdown /\ \A u \in Users : ~Pinned(u)
  /\ UNCHANGED clientVars

RSNext ==
  \/ Alive /\ ((\E s \in Conns : Silent(s) \/ Speaking(s)) \/ Operator)
  \/ AtRest /\ UNCHANGED rsVars

RSSpec == RSInit /\ [][RSNext]_rsVars

-------------------------------------------------------------------------------
(* What the client at t shows, against what the server keeps.                   *)

Watching(t) ==
  /\ view[t].phase = "connected" /\ link[t] = "up"
  /\ finpc[t] = "none" /\ online[user[t]] = t
Standing(s) ==
  /\ auth[s] = "done" /\ swpc[s] = "idle" /\ finpc[s] = "none"
  /\ channels[chan[s]] = "live"
Others(s) == {t \in Conns \ {s} : user[t] = user[s]}

\* Snapshot and broadcasts are not ordered by any lock: a login reads the lists one
\* by one while others switch between them, and a broadcast may pass before or after.
\* All the same, a client that has not panicked shows everybody who stands still in
\* the channel they stand in, and nowhere else, in both of its tables.  Packets name
\* users, not sessions, so the farewell of an old session that comes late takes the
\* new one of the same user out of Server.clients (server.rs:383 of the client), and
\* a late switch moves it: the claim is for a client that no other session was the
\* last to tell of the user, and the marks of other sessions may stay elsewhere.
ViewFollows ==
  ~stale =>
    \A t, s \in Conns :
      Watching(t) /\ Standing(s) =>
        LET lists == view[t].lists  u == user[s]  c == chan[s] IN
        /\ told[t][u] \in {s, NoConn} => u \in lists.members[c]
        /\ told[t][u] = s \/ Others(s) = {} => lists.known[u] = c
        /\ Others(s) = {} => \A d \in Channels \ {c} : u \notin lists.members[d]

\* The channel of a known user is listed: the lookup by which a ClientDisconnected
\* goes from Server.clients to Server.channels (server.rs:384 of the client) cannot
\* fail, whatever channels were created or deleted since the login.
KnownIsListed ==
  \A t \in Conns, u \in Users :
    view[t].phase # "panicked" =>
      view[t].lists.known[u] \in view[t].lists.listed \cup {NoChannel}

===============================================================================
