------------------------------- MODULE Presence -------------------------------
(* The server's session core (server/src/main.rs, server/src/network.rs): how  *)
(* a connection is authenticated, entered in the table of online users and in  *)
(* the member lists of a channel, moved between channels, and finished up.     *)
(*                                                                             *)
(* Processes: the acceptor (one connection at a time, accept_connections       *)
(* awaits each handler), three reader tasks per authenticated connection       *)
(* (keep-alive, reliable, voice), and the operator's command line.  Every      *)
(* acquisition of a lock is a step of its own; a lock held across steps is     *)
(* derived from the program counters.  A panic stops the task where it stands  *)
(* (its counter keeps its value), releases its guards and poisons a std        *)
(* RwLock it was writing.                                                      *)
EXTENDS Integers, FiniteSets, SequencesExt

CONSTANTS
  Conns,              \* ClientConnection objects; an object is never reused
  Users,              \* user uuids (the hash of a public key)
  Channels,           \* channel uuids, present from the start or created later
  Default,            \* DEFAULT_CHANNEL_UUID: where every login lands
  ConfigDefault,      \* config.default_channel_id: what "delete" refuses
  Initial,            \* the channels the channel database holds at start
  Join,               \* channel.perms.join
  Power,              \* user.perms.channel_join
  NoConn, NoUser,     \* absence
  Readers,            \* the tasks of start_read that an instance follows
  MaxSwitch,          \* bound: SwitchChannel packets per connection
  Commands,           \* bound: the operator commands of an instance
  StrayPackets        \* BOOLEAN: may a peer send packets the client never does

ASSUME ConstantsOK ==
  /\ Default \in Initial /\ Initial \subseteq Channels
  /\ Join \in [Channels -> Nat] /\ Power \in [Users -> Nat]
  /\ NoConn \notin Conns /\ NoUser \notin Users
  /\ Readers \subseteq {"ka", "rel", "voice"}
  /\ MaxSwitch \in Nat /\ StrayPackets \in BOOLEAN
  /\ Commands \subseteq {"create", "delete", "stop"}

VARIABLES
  link,      \* the QUIC connection: "new", "up", "down"
  user,      \* ClientConnection.user, a once-cell
  chan,      \* User.channel
  tasks,     \* the reader tasks of a connection that still run
  auth,      \* where the connection handler stands (or stopped) for it
  acc,       \* the connection the acceptor is handling
  accTodo,   \* what its current loop has still to visit
  online,    \* Server.online_users
  clients,   \* Channel.clients, a tokio RwLock<Vec<UserUuid>>
  proto,     \* Channel.proto_clients, a std RwLock<Vec<RemoteProfile>>
  poison,    \* the channels whose proto_clients lock is poisoned
  channels,  \* Server.channels: "absent", "live" or "deleted"
  swpc, sw,  \* the SwitchChannel handler of the reliable task: counter, locals
  asked,     \* SwitchChannel packets received
  closed,    \* ClientConnection.closed
  finpc, fin,\* finish_up and close_with: counter ("none": flag not set), locals
  server,    \* "running", "stopping" (shut_down is set) or "panicked"
  gone,      \* history: users dropped from online_users by other than finish_up
  stale      \* history: a removal has hit the entry of another session

sessVars   == <<link, user, chan, tasks>>
accVars    == <<auth, acc, accTodo>>
rosterVars == <<online, clients, proto, poison>>
swVars     == <<swpc, sw, asked>>
finVars    == <<closed, finpc, fin>>
history    == <<gone, stale>>
vars == <<sessVars, accVars, rosterVars, channels, swVars, finVars, server, history>>

AuthPc == {"none", "recv", "rejected", "bcast", "insert", "pushc", "pushp",
           "snap", "reply", "ka", "done"}
SwPc   == {"idle", "refuse", "findc", "rmc", "findp", "rmp", "pushc", "pushp",
           "store", "reply", "bcast"}
FinPc  == {"none", "online", "load", "clients", "proto", "bcast", "shut", "done"}

NoSwitch == [to |-> Default, idx |-> 0, prof |-> NoUser, todo |-> {}]
NoFinish == [ch |-> Default, send |-> FALSE, todo |-> {}, dead |-> FALSE]

TypeSession ==
  /\ link \in [Conns -> {"new", "up", "down"}]
  /\ user \in [Conns -> Users \cup {NoUser}]
  /\ tasks \in [Conns -> SUBSET Readers]
  /\ auth \in [Conns -> AuthPc]
  /\ acc \in Conns \cup {NoConn}
  /\ online \in [Users -> Conns \cup {NoConn}]
  /\ swpc \in [Conns -> SwPc]
  /\ closed \in [Conns -> BOOLEAN]
  /\ finpc \in [Conns -> FinPc]
  /\ gone \in SUBSET Users

TypeServer ==
  /\ channels \in [Channels -> {"absent", "live", "deleted"}]
  /\ poison \in SUBSET Channels
  /\ accTodo \in SUBSET (Users \cup Channels)
  /\ asked \in [Conns -> Nat]
  /\ server \in {"running", "stopping", "panicked"}
  /\ stale \in BOOLEAN

TypeRoster ==
  /\ chan \in [Conns -> Channels]
  /\ clients \in [Channels -> Seq(Users)]
  /\ proto \in [Channels -> Seq(Users)]

SwitchLocals ==
  [to : Channels, idx : Nat, prof : Users \cup {NoUser}, todo : SUBSET Users]
FinishLocals ==
  [ch : Channels, send : BOOLEAN, todo : SUBSET Users, dead : BOOLEAN]

TypeLocals == sw \in [Conns -> SwitchLocals] /\ fin \in [Conns -> FinishLocals]

TypeOK == TypeSession /\ TypeServer /\ TypeRoster /\ TypeLocals

Init ==
  /\ link = [s \in Conns |-> "new"]
  /\ user = [s \in Conns |-> NoUser]
  /\ chan = [s \in Conns |-> Default]
  /\ tasks = [s \in Conns |-> {}]
  /\ auth = [s \in Conns |-> "none"]
  /\ acc = NoConn /\ accTodo = {}
  /\ online = [u \in Users |-> NoConn]
  /\ clients = [c \in Channels |-> <<>>]
  /\ proto = [c \in Channels |-> <<>>]
  /\ poison = {}
  /\ channels = [c \in Channels |-> IF c \in Initial THEN "live" ELSE "absent"]
  /\ swpc = [s \in Conns |-> "idle"] /\ sw = [s \in Conns |-> NoSwitch]
  /\ asked = [s \in Conns |-> 0]
  /\ closed = [s \in Conns |-> FALSE]
  /\ finpc = [s \in Conns |-> "none"] /\ fin = [s \in Conns |-> NoFinish]
  /\ server = "running"
  /\ gone = {} /\ stale = FALSE

-------------------------------------------------------------------------------
(* Locks and sends.                                                            *)

\* finish_up keeps the write guards of both lists of its channel to its end.
ClientsLocked(c) ==
  \E s \in Conns : finpc[s] \in {"proto", "bcast"} /\ fin[s].ch = c /\ ~fin[s].dead
ProtoLocked(c) ==
  \E s \in Conns : finpc[s] = "bcast" /\ fin[s].ch = c /\ ~fin[s].dead

\* Mutant: a switch drops its guard after the lookup.
ReadByLogin == acc # NoConn /\ auth[acc] \notin {"recv", "rejected"}

\* The handler and a channel switch keep Server.channels.read() to their end.
ChannelsRead ==
  \/ acc # NoConn /\ auth[acc] \notin {"recv", "rejected"}
  \/ \E s \in Conns : swpc[s] # "idle" /\ "rel" \in tasks[s]

\* iter().enumerate().find(..): the position of the first entry of u.
IsFirst(seq, u, i) == seq[i] = u /\ \A j \in 1..(i - 1) : seq[j] # u
Listed(seq, u) == \E i \in DOMAIN seq : seq[i] = u

\* A broadcast visits the entries of online_users in no particular order; the
\* send to one of them fails if its link is down.
Unreachable(u) == online[u] # NoConn /\ link[online[u]] # "up"

Alive == server \in {"running", "stopping"}

-------------------------------------------------------------------------------
(* The list entries a session accounts for: from the handler's push to         *)
(* finish_up's removal, except while a switch has taken it out and not yet put *)
(* it back.  A panic does not change what the counters say.                    *)

EnteredClients(s) == auth[s] \in {"pushp", "snap", "reply", "ka", "done"}
EnteredProto(s)   == auth[s] \in {"snap", "reply", "ka", "done"}
LeftClients(s)    == finpc[s] \in {"proto", "bcast", "shut", "done"}
LeftProto(s)      == finpc[s] \in {"bcast", "shut", "done"}
BetweenClients(s) == swpc[s] \in {"findp", "rmp", "pushc"}
BetweenProto(s)   == swpc[s] \in {"pushc", "pushp"}

\* Where it stands.
ClientsAt(s) == IF swpc[s] \in {"pushp", "store"} THEN sw[s].to ELSE chan[s]
ProtoAt(s)   == IF swpc[s] = "store" THEN sw[s].to ELSE chan[s]

HasClientsEntry(s, c) ==
  EnteredClients(s) /\ ~LeftClients(s) /\ ~BetweenClients(s) /\ ClientsAt(s) = c
HasProtoEntry(s, c) ==
  EnteredProto(s) /\ ~LeftProto(s) /\ ~BetweenProto(s) /\ ProtoAt(s) = c

-------------------------------------------------------------------------------
(* The acceptor: accept_connections and the connection handler.                *)

Accept(s) ==
  /\ acc = NoConn /\ link[s] = "new"
  /\ acc' = s
  /\ link' = [link EXCEPT ![s] = "up"]
  /\ auth' = [auth EXCEPT ![s] = "recv"]
  /\ UNCHANGED <<user, chan, tasks, accTodo, rosterVars, channels, swVars, finVars,
                 server, history>>

\* The handler returns: with Ok once the readers run, with Err where it stands.
Return == acc' = NoConn /\ accTodo' = {}

\* A bad size, first packet, version, proof or level, or a user who is online:
\* a failure is sent and close() runs; its finish_up finds the user cell empty.
\* If the peer is lost instead, `?` returns and the connection is dropped.
AuthReject(s) ==
  /\ acc = s /\ auth[s] = "recv"
  /\ auth' = [auth EXCEPT ![s] = "rejected"]
  /\ link' = [link EXCEPT ![s] = "down"]
  /\ finpc' = [finpc EXCEPT ![s] = IF link[s] = "up" THEN "done" ELSE @]
  /\ Return
  /\ UNCHANGED <<user, chan, tasks, rosterVars, channels, swVars, closed, fin,
                 server, history>>

\* A first packet that cannot be read makes ClientPacket::read panic, not fail (it is
\* too short, or of a kind still todo!()): in the acceptor, which ends the runtime.
AuthPanic(s) ==
  /\ StrayPackets
  /\ acc = s /\ auth[s] = "recv" /\ link[s] = "up"
  /\ server' = "panicked"
  /\ UNCHANGED <<sessVars, accVars, rosterVars, channels, swVars, finVars, history>>

\* Mutant: a session that is being closed does not count.
AlreadyUnclosed(u) == online[u] # NoConn /\ ~closed[online[u]]

\* online_users.contains_key(..)
AlreadyOnline(u) == online[u] # NoConn

\* The user is not online: the handler looks the default channel up (unwrap) and
\* sets the user cell.  Nobody else adds to online_users, so the check and the
\* initialisation are one step.
AuthAccept(s, u) ==
  /\ acc = s /\ auth[s] = "recv" /\ link[s] = "up"
  /\ ~AlreadyOnline(u)
  /\ \/ /\ channels[Default] = "live"
        /\ user' = [user EXCEPT ![s] = u]
        /\ chan' = [chan EXCEPT ![s] = Default]
        /\ auth' = [auth EXCEPT ![s] = "bcast"]
        /\ accTodo' = Users
        /\ UNCHANGED server
     \/ /\ channels[Default] # "live"
        /\ server' = "panicked"
        /\ UNCHANGED <<user, chan, auth, accTodo>>
  /\ UNCHANGED <<link, tasks, acc, rosterVars, channels, swVars, finVars, history>>

\* ClientConnected goes to everybody online; an error ends the handler and
\* leaves the connection open, unclosed.
AuthBroadcast(s) ==
  /\ acc = s /\ auth[s] = "bcast"
  /\ \/ /\ accTodo = {}
        /\ auth' = [auth EXCEPT ![s] = "insert"]
        /\ UNCHANGED <<acc, accTodo>>
     \/ \E u \in accTodo \cap Users :
           /\ IF Unreachable(u)
              THEN Return
              ELSE accTodo' = accTodo \ {u} /\ UNCHANGED acc
           /\ UNCHANGED auth
  /\ UNCHANGED <<sessVars, rosterVars, channels, swVars, finVars, server, history>>

AuthInsert(s) ==
  /\ acc = s /\ auth[s] = "insert"
  /\ online' = [online EXCEPT ![user[s]] = s]
  /\ auth' = [auth EXCEPT ![s] = "pushc"]
  /\ UNCHANGED <<sessVars, acc, accTodo, clients, proto, poison, channels, swVars,
                 finVars, server, history>>

AuthPushClients(s) ==
  /\ acc = s /\ auth[s] = "pushc"
  /\ ~ClientsLocked(Default)
  /\ clients' = [clients EXCEPT ![Default] = Append(@, user[s])]
  /\ auth' = [auth EXCEPT ![s] = "pushp"]
  /\ UNCHANGED <<sessVars, acc, accTodo, online, proto, poison, channels, swVars,
                 finVars, server, history>>

\* A poisoned lock makes unwrap() panic in the acceptor, which ends the runtime.
AuthPushProto(s) ==
  /\ acc = s /\ auth[s] = "pushp"
  /\ ~ProtoLocked(Default)
  /\ \/ /\ Default \notin poison
        /\ proto' = [proto EXCEPT ![Default] = Append(@, user[s])]
        /\ auth' = [auth EXCEPT ![s] = "snap"]
        /\ accTodo' = {c \in Channels : channels[c] = "live"}
        /\ UNCHANGED server
     \/ /\ Default \in poison
        /\ server' = "panicked"
        /\ UNCHANGED <<proto, auth, accTodo>>
  /\ UNCHANGED <<sessVars, acc, online, clients, poison, channels, swVars, finVars,
                 history>>

\* AuthResponse::Success is encoded: each channel's proto_clients is read in turn.
AuthSnapshot(s) ==
  /\ acc = s /\ auth[s] = "snap"
  /\ \/ /\ accTodo = {}
        /\ auth' = [auth EXCEPT ![s] = "reply"]
        /\ UNCHANGED <<accTodo, server>>
     \/ \E c \in accTodo \cap Channels :
           /\ ~ProtoLocked(c)
           /\ accTodo' = accTodo \ {c}
           /\ server' = IF c \in poison THEN "panicked" ELSE server
           /\ UNCHANGED auth
  /\ UNCHANGED <<sessVars, acc, rosterVars, channels, swVars, finVars, history>>

\* Mutant: the readers start with the reply.
AuthReplyStartsReaders(s) ==
  /\ acc = s /\ auth[s] = "reply" /\ link[s] = "up"
  /\ auth' = [auth EXCEPT ![s] = "ka"]
  /\ tasks' = [tasks EXCEPT ![s] = Readers]
  /\ UNCHANGED <<link, user, chan, acc, accTodo, rosterVars, channels, swVars, finVars,
                 server, history>>

\* Mutant: an error on the reply is not noticed.
AuthReplyWaits(s) ==
  /\ acc = s /\ auth[s] = "reply" /\ link[s] = "up"
  /\ auth' = [auth EXCEPT ![s] = "ka"]
  /\ UNCHANGED <<sessVars, acc, accTodo, rosterVars, channels, swVars, finVars, server,
                 history>>

\* The reply and then accept_bi for the keep-alive stream; an error returns from
\* the handler with the user entered everywhere and no reader started.
AuthReply(s) ==
  /\ acc = s /\ auth[s] = "reply"
  /\ IF link[s] = "up"
     THEN auth' = [auth EXCEPT ![s] = "ka"] /\ UNCHANGED <<acc, accTodo>>
     ELSE Return /\ UNCHANGED auth
  /\ UNCHANGED <<sessVars, rosterVars, channels, swVars, finVars, server, history>>

AuthKeepAlive(s) ==
  /\ acc = s /\ auth[s] = "ka"
  /\ Return
  /\ IF link[s] = "up"
     THEN /\ auth' = [auth EXCEPT ![s] = "done"]
          /\ tasks' = [tasks EXCEPT ![s] = Readers]
     ELSE UNCHANGED <<auth, tasks>>
  /\ UNCHANGED <<link, user, chan, rosterVars, channels, swVars, finVars, server,
                 history>>

Acceptor(s) ==
  \/ Accept(s) \/ AuthReject(s) \/ AuthPanic(s) \/ (\E u \in Users : AuthAccept(s, u))
  \/ AuthBroadcast(s) \/ AuthInsert(s) \/ AuthPushClients(s) \/ AuthPushProto(s)
  \/ AuthSnapshot(s) \/ AuthReply(s) \/ AuthKeepAlive(s)

-------------------------------------------------------------------------------
(* The reliable task: handle_packet.                                           *)

\* An unwrap fails: the task is gone, the handler stays where it stood.
Panic(s) == tasks' = [tasks EXCEPT ![s] = @ \ {"rel"}]

Handling(s) == "rel" \in tasks[s]

\* The channel is looked up under channels.read(); the refusals are: no such
\* channel, the same channel, a join power below that of the CURRENT channel (the
\* local `channel` hides the requested one).
Refused(s, c) ==
  \/ channels[c] # "live"
  \/ c = chan[s]
  \/ Join[chan[s]] > Power[user[s]]

SwitchRequest(s, c) ==
  /\ Handling(s) /\ swpc[s] = "idle" /\ link[s] = "up"
  /\ asked[s] < MaxSwitch
  /\ asked' = [asked EXCEPT ![s] = @ + 1]
  /\ swpc' = [swpc EXCEPT ![s] = IF Refused(s, c) THEN "refuse" ELSE "findc"]
  /\ sw' = [sw EXCEPT ![s].to = c]
  /\ UNCHANGED <<sessVars, accVars, rosterVars, channels, finVars, server, history>>

\* The refusal is sent (unwrap).
SwitchRefuse(s) ==
  /\ Handling(s) /\ swpc[s] = "refuse"
  /\ IF link[s] = "up"
     THEN /\ swpc' = [swpc EXCEPT ![s] = "idle"]
          /\ sw' = [sw EXCEPT ![s] = NoSwitch]
          /\ UNCHANGED tasks
     ELSE Panic(s) /\ UNCHANGED <<swpc, sw>>
  /\ UNCHANGED <<link, user, chan, accVars, rosterVars, channels, asked, finVars,
                 server, history>>

\* The position in the old channel is found under the read lock ...
SwitchFindClient(s) ==
  /\ Handling(s) /\ swpc[s] = "findc"
  /\ ~ClientsLocked(chan[s])
  /\ \/ \E i \in DOMAIN clients[chan[s]] :
           /\ IsFirst(clients[chan[s]], user[s], i)
           /\ swpc' = [swpc EXCEPT ![s] = "rmc"]
           /\ sw' = [sw EXCEPT ![s].idx = i]
           /\ UNCHANGED tasks
     \/ ~Listed(clients[chan[s]], user[s]) /\ Panic(s) /\ UNCHANGED <<swpc, sw>>
  /\ UNCHANGED <<link, user, chan, accVars, rosterVars, channels, asked, finVars,
                 server, history>>

\* ... and removed under a later write lock, whoever stands there by then.
SwitchRemoveClient(s) ==
  LET old == chan[s]  i == sw[s].idx IN
  /\ Handling(s) /\ swpc[s] = "rmc"
  /\ ~ClientsLocked(old)
  /\ \/ /\ i \in DOMAIN clients[old]
        /\ clients' = [clients EXCEPT ![old] = RemoveAt(@, i)]
        /\ stale' = (stale \/ clients[old][i] # user[s] \/ ~HasClientsEntry(s, old))
        /\ swpc' = [swpc EXCEPT ![s] = "findp"]
        /\ sw' = [sw EXCEPT ![s].idx = 0]
        /\ UNCHANGED tasks
     \/ /\ i \notin DOMAIN clients[old]
        /\ Panic(s)
        /\ UNCHANGED <<clients, stale, swpc, sw>>
  /\ UNCHANGED <<link, user, chan, accVars, online, proto, poison, channels, asked,
                 finVars, server, gone>>

SwitchFindProto(s) ==
  LET old == chan[s] IN
  /\ Handling(s) /\ swpc[s] = "findp"
  /\ ~ProtoLocked(old)
  /\ \/ \E i \in DOMAIN proto[old] :
           /\ old \notin poison /\ IsFirst(proto[old], user[s], i)
           /\ swpc' = [swpc EXCEPT ![s] = "rmp"]
           /\ sw' = [sw EXCEPT ![s].idx = i]
           /\ UNCHANGED tasks
     \/ /\ old \in poison \/ ~Listed(proto[old], user[s])
        /\ Panic(s) /\ UNCHANGED <<swpc, sw>>
  /\ UNCHANGED <<link, user, chan, accVars, rosterVars, channels, asked, finVars,
                 server, history>>

\* Vec::remove past the end panics with the write guard held: poisoned.
SwitchRemoveProto(s) ==
  LET old == chan[s]  i == sw[s].idx IN
  /\ Handling(s) /\ swpc[s] = "rmp"
  /\ ~ProtoLocked(old)
  /\ \/ /\ old \notin poison /\ i \in DOMAIN proto[old]
        /\ proto' = [proto EXCEPT ![old] = RemoveAt(@, i)]
        /\ sw' = [sw EXCEPT ![s].prof = proto[old][i], ![s].idx = 0]
        /\ stale' = (stale \/ proto[old][i] # user[s] \/ ~HasProtoEntry(s, old))
        /\ swpc' = [swpc EXCEPT ![s] = "pushc"]
        /\ UNCHANGED <<poison, tasks>>
     \/ /\ old \in poison \/ i \notin DOMAIN proto[old]
        /\ poison' = poison \cup {old}
        /\ Panic(s)
        /\ UNCHANGED <<proto, sw, stale, swpc>>
  /\ UNCHANGED <<link, user, chan, accVars, online, clients, channels, asked,
                 finVars, server, gone>>

\* Mutant: the push is forgotten.
SwitchPushesNothing(s) ==
  /\ Handling(s) /\ swpc[s] = "pushc"
  /\ swpc' = [swpc EXCEPT ![s] = "pushp"]
  /\ UNCHANGED <<sessVars, accVars, rosterVars, channels, sw, asked, finVars, server,
                 history>>

SwitchPushClients(s) ==
  LET new == sw[s].to IN
  /\ Handling(s) /\ swpc[s] = "pushc"
  /\ ~ClientsLocked(new)
  /\ clients' = [clients EXCEPT ![new] = Append(@, user[s])]
  /\ swpc' = [swpc EXCEPT ![s] = "pushp"]
  /\ UNCHANGED <<sessVars, accVars, online, proto, poison, channels, sw, asked,
                 finVars, server, history>>

SwitchPushProto(s) ==
  LET new == sw[s].to IN
  /\ Handling(s) /\ swpc[s] = "pushp"
  /\ ~ProtoLocked(new)
  /\ \/ /\ new \notin poison
        /\ proto' = [proto EXCEPT ![new] = Append(@, sw[s].prof)]
        /\ swpc' = [swpc EXCEPT ![s] = "store"]
        /\ sw' = [sw EXCEPT ![s].prof = NoUser]
        /\ UNCHANGED tasks
     \/ new \in poison /\ Panic(s) /\ UNCHANGED <<proto, swpc, sw>>
  /\ UNCHANGED <<link, user, chan, accVars, online, clients, poison, channels, asked,
                 finVars, server, history>>

\* Mutant: user.channel is not stored.
SwitchStoresNothing(s) ==
  /\ Handling(s) /\ swpc[s] = "store"
  /\ swpc' = [swpc EXCEPT ![s] = "reply"]
  /\ UNCHANGED <<sessVars, accVars, rosterVars, channels, sw, asked, finVars, server,
                 history>>

SwitchStore(s) ==
  /\ Handling(s) /\ swpc[s] = "store"
  /\ chan' = [chan EXCEPT ![s] = sw[s].to]
  /\ swpc' = [swpc EXCEPT ![s] = "reply"]
  /\ UNCHANGED <<link, user, tasks, accVars, rosterVars, channels, sw, asked,
                 finVars, server, history>>

SwitchReply(s) ==
  /\ Handling(s) /\ swpc[s] = "reply"
  /\ IF link[s] = "up"
     THEN /\ swpc' = [swpc EXCEPT ![s] = "bcast"]
          /\ sw' = [sw EXCEPT ![s].todo = Users]
          /\ UNCHANGED tasks
     ELSE Panic(s) /\ UNCHANGED <<swpc, sw>>
  /\ UNCHANGED <<link, user, chan, accVars, rosterVars, channels, asked, finVars,
                 server, history>>

\* Remove and Add go to everybody online; one dead link ends the task (unwrap).
SwitchBroadcast(s) ==
  /\ Handling(s) /\ swpc[s] = "bcast"
  /\ \/ /\ sw[s].todo = {}
        /\ swpc' = [swpc EXCEPT ![s] = "idle"]
        /\ sw' = [sw EXCEPT ![s] = NoSwitch]
        /\ UNCHANGED tasks
     \/ \E u \in sw[s].todo :
           IF Unreachable(u)
           THEN Panic(s) /\ UNCHANGED <<swpc, sw>>
           ELSE /\ sw' = [sw EXCEPT ![s].todo = @ \ {u}]
                /\ UNCHANGED <<swpc, tasks>>
  /\ UNCHANGED <<link, user, chan, accVars, rosterVars, channels, asked, finVars,
                 server, history>>

Switching(s) ==
  \/ SwitchRefuse(s) \/ SwitchFindClient(s) \/ SwitchRemoveClient(s)
  \/ SwitchFindProto(s) \/ SwitchRemoveProto(s) \/ SwitchPushClients(s)
  \/ SwitchPushProto(s) \/ SwitchStore(s) \/ SwitchReply(s) \/ SwitchBroadcast(s)

\* Disconnect: whatever session of this user is online is dropped from the table.
DisconnectPacket(s) ==
  /\ StrayPackets
  /\ Handling(s) /\ swpc[s] = "idle" /\ link[s] = "up"
  /\ online[user[s]] # NoConn
  /\ online' = [online EXCEPT ![user[s]] = NoConn]
  /\ gone' = gone \cup {user[s]}
  /\ UNCHANGED <<sessVars, accVars, clients, proto, poison, channels, swVars,
                 finVars, server, stale>>

\* A second AuthRequest is unreachable!(), a ChallengeResponse is todo!().
PanicPacket(s) ==
  /\ StrayPackets
  /\ Handling(s) /\ swpc[s] = "idle" /\ link[s] = "up"
  /\ Panic(s)
  /\ UNCHANGED <<link, user, chan, accVars, rosterVars, channels, swVars, finVars,
                 server, history>>

-------------------------------------------------------------------------------
(* Closing: the readers' error paths, finish_up and close_with.                *)

\* Mutant: the keep-alive task sets the flag and leaves close() to the others.
ReaderErrorLeavesOpen(s, t) ==
  /\ t \in tasks[s] /\ (t = "rel" => swpc[s] = "idle")
  /\ tasks' = [tasks EXCEPT ![s] = @ \ {t}]
  /\ closed' = [closed EXCEPT ![s] = TRUE]
  /\ finpc' = [finpc EXCEPT ![s] =
                 IF closed[s] \/ t = "ka" \/ @ # "none" THEN @ ELSE "online"]
  /\ UNCHANGED <<link, user, chan, accVars, rosterVars, channels, swVars, fin, server,
                 history>>

\* A read fails, or a packet does not decode: the reader that wins the exchange
\* on `closed` runs close(); finish_up's own flag stops a second run.
ReaderError(s, t) ==
  /\ t \in tasks[s] /\ (t = "rel" => swpc[s] = "idle")
  /\ tasks' = [tasks EXCEPT ![s] = @ \ {t}]
  /\ closed' = [closed EXCEPT ![s] = TRUE]
  /\ finpc' = [finpc EXCEPT ![s] =
                 IF closed[s] \/ @ # "none" THEN @
                 ELSE IF user[s] = NoUser THEN "shut" ELSE "online"]
  /\ UNCHANGED <<link, user, chan, accVars, rosterVars, channels, swVars, fin,
                 server, history>>

\* The voice reader echoes a datagram once for each member (DEBUG_VOICE is set), on
\* its user's own connection.  send_datagram fails if that is lost by then, and also
\* on a live one (too large for the path, datagrams off at the peer): unwrap() ends
\* the task with `closed` unset.
VoicePanic(s) ==
  /\ "voice" \in tasks[s]
  /\ ~ClientsLocked(chan[s])
  /\ clients[chan[s]] # <<>>
  /\ tasks' = [tasks EXCEPT ![s] = @ \ {"voice"}]
  /\ UNCHANGED <<link, user, chan, accVars, rosterVars, channels, swVars, finVars,
                 server, history>>

\* A panic in finish_up ends the winning reader; its guards are released.
FinishPanic(s) == fin' = [fin EXCEPT ![s].dead = TRUE]

\* Mutant: the table is looked at but not changed.
FinishLeavesOnline(s) ==
  /\ finpc[s] = "online"
  /\ fin' = [fin EXCEPT ![s].send = online[user[s]] # NoConn]
  /\ finpc' = [finpc EXCEPT ![s] = "load"]
  /\ UNCHANGED <<sessVars, accVars, rosterVars, channels, swVars, closed, server,
                 history>>

FinishOnline(s) ==
  /\ finpc[s] = "online"
  /\ online' = [online EXCEPT ![user[s]] = NoConn]
  /\ fin' = [fin EXCEPT ![s].send = online[user[s]] # NoConn]
  /\ finpc' = [finpc EXCEPT ![s] = "load"]
  /\ UNCHANGED <<sessVars, accVars, clients, proto, poison, channels, swVars,
                 closed, server, history>>

\* user.channel.load(): a switch may have moved the user since, or may do so after.
FinishLoad(s) ==
  /\ finpc[s] = "load"
  /\ fin' = [fin EXCEPT ![s].ch = chan[s]]
  /\ finpc' = [finpc EXCEPT ![s] = "clients"]
  /\ UNCHANGED <<sessVars, accVars, rosterVars, channels, swVars, closed, server,
                 history>>

FinishClients(s) ==
  LET c == fin[s].ch IN
  /\ finpc[s] = "clients" /\ ~fin[s].dead
  /\ ~ClientsLocked(c)
  /\ \/ \E i \in DOMAIN clients[c] :
           /\ IsFirst(clients[c], user[s], i)
           /\ clients' = [clients EXCEPT ![c] = RemoveAt(@, i)]
           /\ finpc' = [finpc EXCEPT ![s] = "proto"]
           /\ stale' = (stale \/ ~HasClientsEntry(s, c))
           /\ UNCHANGED fin
     \/ /\ ~Listed(clients[c], user[s])
        /\ FinishPanic(s)
        /\ UNCHANGED <<clients, finpc, stale>>
  /\ UNCHANGED <<sessVars, accVars, online, proto, poison, channels, swVars, closed,
                 server, gone>>

FinishProto(s) ==
  LET c == fin[s].ch IN
  /\ finpc[s] = "proto" /\ ~fin[s].dead
  /\ ~ProtoLocked(c)
  /\ \/ \E i \in DOMAIN proto[c] :
           /\ c \notin poison /\ IsFirst(proto[c], user[s], i)
           /\ proto' = [proto EXCEPT ![c] = RemoveAt(@, i)]
           /\ finpc' = [finpc EXCEPT ![s] = IF fin[s].send THEN "bcast" ELSE "shut"]
           /\ fin' = [fin EXCEPT ![s].todo = IF fin[s].send THEN Users ELSE {},
                                 ![s].send = FALSE]
           /\ stale' = (stale \/ ~HasProtoEntry(s, c))
           /\ UNCHANGED poison
     \/ /\ c \in poison \/ ~Listed(proto[c], user[s])
        /\ poison' = poison \cup {c}
        /\ FinishPanic(s)
        /\ UNCHANGED <<proto, finpc, stale>>
  /\ UNCHANGED <<sessVars, accVars, online, clients, channels, swVars, closed, server,
                 gone>>

\* ClientDisconnected goes to everybody online under both guards; one dead link
\* panics, poisons the channel, and close_with never runs.
FinishBroadcast(s) ==
  /\ finpc[s] = "bcast" /\ ~fin[s].dead
  /\ \/ /\ fin[s].todo = {}
        /\ finpc' = [finpc EXCEPT ![s] = "shut"]
        /\ UNCHANGED <<fin, poison>>
     \/ \E u \in fin[s].todo :
           /\ IF Unreachable(u)
              THEN FinishPanic(s) /\ poison' = poison \cup {fin[s].ch}
              ELSE fin' = [fin EXCEPT ![s].todo = @ \ {u}] /\ UNCHANGED poison
           /\ UNCHANGED finpc
  /\ UNCHANGED <<sessVars, accVars, online, clients, proto, channels, swVars, closed,
                 server, history>>

\* close_with: the stream is finished and the connection closed.
CloseLink(s) ==
  /\ finpc[s] = "shut"
  /\ finpc' = [finpc EXCEPT ![s] = "done"]
  /\ fin' = [fin EXCEPT ![s] = NoFinish]
  /\ link' = [link EXCEPT ![s] = "down"]
  /\ UNCHANGED <<user, chan, tasks, accVars, rosterVars, channels, swVars, closed,
                 server, history>>

Finishing(s) ==
  FinishOnline(s) \/ FinishLoad(s) \/ FinishClients(s) \/ FinishProto(s)
    \/ FinishBroadcast(s) \/ CloseLink(s)

-------------------------------------------------------------------------------
(* The operator, the network, and the whole.                                   *)

CreateChannel(c) ==
  /\ "create" \in Commands
  /\ channels[c] = "absent" /\ ~ChannelsRead
  /\ channels' = [channels EXCEPT ![c] = "live"]
  /\ UNCHANGED <<sessVars, accVars, rosterVars, swVars, finVars, server, history>>

\* Members are left where they are; only config.default_channel_id is refused.
DeleteChannel(c) ==
  /\ "delete" \in Commands
  /\ channels[c] = "live" /\ c # ConfigDefault /\ ~ChannelsRead
  /\ channels' = [channels EXCEPT ![c] = "deleted"]
  /\ UNCHANGED <<sessVars, accVars, rosterVars, swVars, finVars, server, history>>

\* CommandShutdown drops every close() future unpolled, empties online_users and
\* sets shut_down; main() ends the process within 250 ms, the steps until then are
\* those of the running server.
Shutdown ==
  /\ "stop" \in Commands
  /\ server = "running"
  /\ server' = "stopping"
  /\ online' = [u \in Users |-> NoConn]
  /\ gone' = gone \cup {u \in Users : online[u] # NoConn}
  /\ UNCHANGED <<sessVars, accVars, clients, proto, poison, channels, swVars,
                 finVars, stale>>

LinkDown(s) ==
  /\ link[s] = "up"
  /\ link' = [link EXCEPT ![s] = "down"]
  /\ UNCHANGED <<user, chan, tasks, accVars, rosterVars, channels, swVars, finVars,
                 server, history>>

Session(s) ==
  \/ Acceptor(s) \/ (\E c \in Channels : SwitchRequest(s, c)) \/ Switching(s)
  \/ DisconnectPacket(s) \/ PanicPacket(s) \/ (\E t \in Readers : ReaderError(s, t))
  \/ VoicePanic(s) \/ Finishing(s) \/ LinkDown(s)

\* Nothing is left to do: the process is over, or every connection has come to
\* rest and no further one will arrive.
AtRest ==
  \/ ~Alive
  \/ /\ acc = NoConn
     /\ \A s \in Conns : link[s] = "down" /\ tasks[s] = {} 
                         /\ (finpc[s] \in {"none", "done"} \/ fin[s].dead)

Next ==
  \/ /\ Alive
     /\ \/ \E s \in Conns : Session(s)
        \/ \E c \in Channels : CreateChannel(c) \/ DeleteChannel(c)
        \/ Shutdown
  \/ AtRest /\ UNCHANGED vars

Spec == Init /\ [][Next]_vars

\* Peers are free to stay silent; the tasks of the runtime are scheduled.  Fair
\* are: the acceptor where it does not wait for its peer, a reader whose
\* connection is lost, a running handler, and finish_up.
Fairness ==
  \A s \in Conns :
    /\ WF_vars(Alive /\ Acceptor(s) /\ (auth[s] \in {"recv", "ka"} => link[s] = "down"))
    /\ WF_vars(Alive /\ Switching(s))
    /\ WF_vars(Alive /\ Finishing(s))
    /\ \A t \in Readers : WF_vars(Alive /\ link[s] = "down" /\ ReaderError(s, t))

FairSpec == Spec /\ Fairness

-------------------------------------------------------------------------------
(* Who is online.                                                              *)

\* The connection has been entered in online_users.
Inserted(s) == auth[s] \in {"pushc", "pushp", "snap", "reply", "ka", "done"}
\* finish_up has not yet taken its user out of online_users.
Present(s) == finpc[s] \in {"none", "online"}

\* Two connections are never logged in as one user, unless an entry was dropped
\* by something other than finish_up.  The handler's AlreadyOnline test
\* (main.rs:441) and the insertion (main.rs:509) are far apart, and finish_up
\* removes by user, not by connection (network.rs:311).
OneSession ==
  \A s, t \in Conns :
    (s # t /\ Inserted(s) /\ Inserted(t) /\ Present(s) /\ Present(t) /\ user[s] = user[t])
      => user[s] \in gone

\* online_users holds no connection that has been finished up, and each entry is
\* that of a connection of the very user: a broadcast or a refused login refers to
\* a session that was entered and not yet left.
OnlineIsLive ==
  \A u \in Users :
    online[u] # NoConn =>
      user[online[u]] = u /\ Inserted(online[u]) /\ Present(online[u])

\* Nobody is silently replaced: an entry of online_users leaves before another
\* connection of the same user takes the place (DashMap::insert would overwrite).
NoTakeover ==
  [][\A u \in Users : online[u] # NoConn => online'[u] \in {online[u], NoConn}]_vars

\* The code asks for this itself (network.rs:354): nothing that unwraps the user
\* cell - the readers, a packet handler, finish_up's later steps - runs before the
\* login has been handled to its end.
ReadersAfterAuth ==
  \A s \in Conns :
    tasks[s] # {} \/ swpc[s] # "idle" \/ closed[s] \/ finpc[s] \notin {"none", "done"}
      => user[s] # NoUser /\ auth[s] = "done" /\ acc # s

-------------------------------------------------------------------------------
(* Who is where.                                                               *)

\* Every place of every list; how many there are over all channels.
Places(lists) == UNION {{c} \X DOMAIN lists[c] : c \in Channels}
Entries(lists) == Cardinality(Places(lists))

Count(P(_)) == Cardinality({s \in Conns : P(s)})

\* However the steps of switches, logins and finish_ups interleave, and wherever
\* one of them panics, both lists hold over all channels one entry for each
\* session entered, not left and not in transit: none is lost, none is doubled.
EntriesConserved ==
  /\ Entries(clients) =
       Count(LAMBDA s : EnteredClients(s) /\ ~LeftClients(s)) - Count(BetweenClients)
  /\ Entries(proto) =
       Count(LAMBDA s : EnteredProto(s) /\ ~LeftProto(s)) - Count(BetweenProto)

Occurrences(seq, u) == Cardinality({i \in DOMAIN seq : seq[i] = u})

\* As long as no removal has hit the entry of another session - and none can while
\* nobody switches, whatever logins and finish_ups overlap - each channel lists
\* exactly the users whose sessions stand in it, in both lists; in particular a
\* channel that a live User.channel names lists that user (the voice reader and
\* finish_up rely on it).
RosterExact ==
  ~stale \/ (\A s \in Conns : asked[s] = 0) =>
    \A c \in Channels, u \in Users :
      /\ Occurrences(clients[c], u) =
           Count(LAMBDA s : user[s] = u /\ HasClientsEntry(s, c))
      /\ Occurrences(proto[c], u) =
           Count(LAMBDA s : user[s] = u /\ HasProtoEntry(s, c))

\* A channel cannot be deleted under a login or a switch that leads into it: both
\* hold channels.read() from the lookup to their end.
EntryIsLive ==
  /\ acc # NoConn /\ auth[acc] \notin {"recv", "rejected"} => channels[Default] = "live"
  /\ \A s \in Conns :
       Handling(s) /\ swpc[s] \notin {"idle", "refuse"} => channels[sw[s].to] = "live"

-------------------------------------------------------------------------------
(* What must eventually happen, under Fairness.                                *)

Settled(s) == finpc[s] = "done" \/ fin[s].dead \/ server = "panicked"

\* A logged-in peer that is lost is finished up, whatever its tasks were doing, and
\* a finish_up that has begun ends, although it waits for two locks and sends to
\* everybody while it holds them; or a failing send kills it on the way.
LostIsFinished ==
  \A s \in Conns :
    ((tasks[s] # {} /\ link[s] = "down") \/ finpc[s] # "none") ~> Settled(s)

\* A peer lost during its login does not hold the acceptor for ever.
AcceptorMovesOn ==
  \A s \in Conns : (acc = s /\ link[s] = "down") ~> (acc # s \/ server = "panicked")

-------------------------------------------------------------------------------
(* What the repository says and the code does not keep.                        *)

\* network.rs:314: finish_up unwraps the position of its user in its channel.
FinishFindsItsUser == \A s \in Conns : ~(finpc[s] = "clients" /\ fin[s].dead)

===============================================================================
