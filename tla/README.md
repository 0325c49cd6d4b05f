# Formal model of RustSpeak

RustSpeak is a voice chat: a server (`server/src`) that keeps users, channels and
permissions, and a client (`client/src`) that shows them and plays voice. They talk
over QUIC (quinn): one bidirectional stream of length-prefixed packets, a second one
for keep-alives, and datagrams for voice.

## 1. Inventory

| part | state | operations | interacts with |
|---|---|---|---|
| session lifecycle — `network.rs`, `main.rs:347-543` | per connection: link, user cell, `closed`, `finished`, keep-alive stream; the server's `online_users` | accept, login, three reader loops, `finish_up`, `close_with` | everything below |
| channel membership — `network.rs:363-403`, `main.rs:510-511` | `Channel.clients` (tokio `RwLock`), `Channel.proto_clients` (std `RwLock`), `User.channel` | login, `SwitchChannel`, `finish_up` | sessions, client view |
| operator commands — `main.rs:776-1130` | `Server.channels`, `shutting_down`, `shut_down` | stop, channel create / delete, user and permission commands | sessions, databases |
| client session and view — `client/src/server.rs` | `ServerState`, `channels`, `clients`, `default_channel` | connect, authenticate, apply server packets | network client, UI queue |
| client connection — `client/src/network.rs` | streams, `keep_alive_handler` | send, read, keep-alive task, close | client session |
| wire protocol — `packet.rs`, `protocol.rs` on both sides | none | `read` / `write` of each packet and field | both sides |
| concurrent vector — `conc_vec.rs` | `guard` word, `len`, `push_far`, `pop_far`, allocation | push, pop, insert, remove, iterate | not used by the server yet |
| once-cell — `conc_once_cell.rs`, `sized_box.rs` | one atomic pointer | `try_init`, `get`, drop | user cell, keep-alive stream |
| byte ring — `byte_buf_ring.rs` | two packed counters, buffer | push, pop, guard drop | client audio |
| security levels — `security_level.rs` on both sides | none (a search with a counter on the client) | generate, verify | login |
| permissions — `main.rs:632-713` | groups | `calculate_active_perms` | login |
| databases — `*_db.rs`, `config.rs`, `profile_db.rs` | files, sled trees | read or create, write, insert, get | start-up, commands |
| voice and audio — `audio.rs`, receive loop of `client/src/server.rs` | device handles, receive buffer | record, send, receive, play back | datagrams |
| user interface — `ui/` | stack of screens, atlas of glyphs | push / pop a screen, allocate, draw | message queue |

What is hard about it:

* **Concurrency.** The acceptor, three reader tasks per connection and the command
  line run on a multi-threaded runtime. They share `online_users`, the two member
  lists of every channel and the table of channels, and take locks one statement at a
  time: between two statements of a handler anything may happen.
* **Failure.** A send to a lost peer is an error; the login handler propagates it with
  `?`, the packet handler and `finish_up` `unwrap()` it, which ends the task wherever
  it stands, releases its guards and poisons a std lock it was writing.
* **Ordering.** A user may reconnect while `finish_up` of its last session still runs;
  a switch may overlap the `finish_up` of the same session, since they belong to
  different tasks.
* **Stop and delete.** The operator's commands change the same tables under the
  sessions' feet.

What makes the parts correct: at most one session per user; `online_users` refers only
to live sessions; each channel lists exactly the users who stand in it; nothing is lost
or doubled on the way between two channels; code that unwraps the user cell runs after
the login; a lost session is finished up; a lost peer does not stop the acceptor. A
client's view follows the server's lists; its user is told of a loss, once, and a client
that gives a connection up closes it. What one program encodes the other decodes,
whoever else writes to the stream; the ring and the vector hand out each element once,
the once-cell keeps its first value; a change of a file that was reported survives a
restart; the level a client has worked for is the level the server counts.

## 2. Plan

Ordered by how much of the program depends on it; 1 to 5 are done.

1. `Presence` with `PresenceProofs`: sessions, `online_users`, membership, switching,
   closing, operator commands.
2. `ClientView`: the client's handling of server packets, composed with `Presence`
   in `RustSpeak`; its theorems are in `PresenceProofs` too.
3. `ClientSession` with `ClientSessionProofs`: the tasks of one client connection.
4. The data structures, one access to shared memory at a time, each with its proofs
   and the specification it implements: `BBRing` and `Fifo`, `ConcVec` and `Pool`,
   `OnceCell` and `Once`.
5. What crosses a boundary: `Codec`, `WireServer`, `WireClient`, `Stream`, `Wire` (bytes
   between the programs), `ServerStores` and `Durable`, `Perms` (files and the server),
   `SecurityLevel` and `Identity` (proofs of work, the client's file and the server's).
6. Left: `Voice` (splitting datagrams, the receive buffer in front of `BBRing`),
   `ScreenSystem` and `Atlas` (the stack of screens, the space allocator of the glyphs).

Which module uses which:

| composition | of |
|---|---|
| `RustSpeak` | `Presence` and `ClientView` |
| `Wire` | `Stream`, with the encoder of one program and the decoder of the other (`WireServer`, `WireClient`, both over `Codec`) |
| `Identity` | `SecurityLevel` on both ends, the client's file, the login, the user database |
| `ServerStores` | the files and the commands, with `Perms` for a property of its own |

Abstract specifications: `Fifo` (what goes in comes out in order, once), implemented by
`Stream` and by `BBRing`; `Pool` (each element comes out at most once) by `ConcVec`;
`Once` (a register written once) by `OnceCell`; `Durable` (a set of entries changed one
at a time, or lost as a whole) by `ServerStores`.

There is one run for each question. Proved are, for every value of the constants: every
safety property of `Presence`, `RustSpeak`, `ClientSession`, the packet format, the
stream, the ring, the vector, the once-cell, the server's files, the permissions and
`Identity`, and every refinement. Liveness is left to the runs.

## 3. The model

### Presence (server/src/main.rs, server/src/network.rs)

| variables | code |
|---|---|
| `link`, `user`, `chan`, `tasks` | the QUIC connection, `ClientConnection.user`, `User.channel`, the reader tasks that still run |
| `auth`, `acc`, `accTodo` | where the connection handler stands (or stopped) for a connection, whom the acceptor handles, what its loop has still to visit |
| `online`, `clients`, `proto`, `poison` | `Server.online_users`, `Channel.clients`, `Channel.proto_clients` and the poison flag of its lock |
| `channels` | `Server.channels`: a channel is absent, live or deleted (its `Arc` lives on in `User.channel`) |
| `swpc`, `sw`, `asked` | the `SwitchChannel` handler of each reliable task: counter, locals, packets read |
| `closed`, `finpc`, `fin` | `ClientConnection.closed`, `finished` and where `finish_up` / `close_with` stands |
| `server` | running, stopping (`shut_down` set), panicked (the acceptor's thread owns the runtime) |
| `gone`, `stale` | history only, read by properties: users dropped from `online_users` by something else than `finish_up`; whether a removal has hit the entry of another session |

Each acquisition of a lock is an action of its own: `AuthAccept` ... `AuthKeepAlive` are
the awaits of the login handler, `SwitchFindClient` ... `SwitchBroadcast` the statements
of the switch, `FinishOnline`, `FinishLoad`, ... `CloseLink` those of `finish_up` and
`close_with` (a switch of the user may store a new channel between the removal from
`online_users` and the load of `User.channel`).
`finish_up` holds both write guards to its end; the login and the switch hold
`channels.read()` to their end. Those locks are derived from the program counters
(`ClientsLocked`, `ProtoLocked`, `ChannelsRead`); the other guards live for one
statement. A panic keeps the counter where it stands and takes the task out of `tasks`
(`Panic`) or marks the finisher (`fin.dead`); it poisons `proto_clients` where the
write guard is held.

`MCPresence` gives the constants their values: a lobby, a room and a vault that asks for
more join power than anybody has. `MCRustSpeak` does so for the composition.

### ClientView and RustSpeak (client/src/server.rs over the server)

`ClientView` has no state: a view is a record, and each handler of `handle_packet` that
changes `Server.channels`, `Server.clients` or `default_channel` is an operator from view
to view (`HandleAuthSuccess`, `HandleClientConnected`, `HandleAdd`, ...). A handler whose
`unwrap()` fails gives a view in phase "panicked", which takes no further packet.

`RustSpeak` extends `Presence`. Each action of `Presence` that writes to a reliable
stream is conjoined with what the packet does to the view of the client it goes to:
`LoginRefused`, `LoginBroadcast`, `LoginReply`, `SendRemove` and `SendAdd`,
`FarewellBroadcast`; the other actions are taken as they are (`Silent`, `Operator`). A
stream is reliable and ordered, one task reads it and a handler depends on the view alone, so what the client
makes of a packet is settled when it is written: `view[s]` is what the client shows once
it has read everything written so far, and no queue is needed.

| variable | code |
|---|---|
| `view` | `Server.channels`, `clients` and `default_channel` of the client, and whether its reader has panicked |
| `response` | the AuthResponse while it is encoded, list by list (only one login runs at a time) |
| `left` | the local `channel` of a switch handler, which the Remove packet names |
| `owed` | the entry of `online_users` that has got the Remove and not yet the Add; its shard is locked in between (`Pinned`), so it cannot be removed |
| `told` | history only, read by `ViewFollows`: for each client and user, the session that the last packet about the user was of, or none since the AuthResponse (`Tell`) |

A client asks only for channels it lists (`StartSwitch`) and opens its keep-alive stream
only once it has handled its AuthResponse (`LoginKeepAlive`).

### ClientSession (client/src/server.rs, client/src/network.rs)

One connection seen from the client: `state` is the byte of `ServerState`, `connector`,
`reader`, `sender`, `receiver`, `voice` say where the connecting task, the packet reader,
the two keep-alive tasks and the voice receiver stand, `handler` whether
`keep_alive_handler` is stored, `noticed` which tasks stand between the swap of
`try_set_disconnected` and the end of `error()`, `reports` how often the user was told,
`shown` the last screen.

### Codec, WireServer, WireClient (packet.rs and protocol.rs of both programs)

An implementation of `RWBytes` is a format: the values of the type, the function that
writes one, and the function that reads one from a place in a buffer, which may also give
an error or panic. Every implementation is a composition of the few shapes in `Codec`:
integers of a width, flags, text, lists, maps, options, structs field by field, enums by
ordinal. `WireServer` and `WireClient` compose them as the copy of each program does, so a
field that is missing or moved in one of them shows. `Todo` is an implementation that says
`todo!()`, `Split` one whose read and write have different shapes.

`Places` is how many of the bytes of a number may be other than zero; 32 is the widest
integer there is and leaves nothing out. A number that does not fit is read as `Huge`.
`Encrypted` and `Signed`, which nothing uses, are left out.

### Stream (send_reliable and the reader loops)

| variables | code |
|---|---|
| `dir` | which of the two directions is looked at; fixed at the start |
| `holder`, `left` | who holds the mutex of the send stream, the bytes it has still to hand over |
| `bytes`, `open` | what the transport has taken so far; whether the connection is closed |
| `reader`, `pos`, `size` | the reader's loop: waiting for a header, a payload or the packet handler it awaits, how far it is, the size it expects; or how it ended |
| `sent`, `starts`, `delivered` | history: the packets in the order of the mutex, where their frames begin, what was handed to the handler |

The bytes are bytes; what a packet looks like is a parameter (`Frame`, `Size`, `Decode`,
`View`), so the theorems hold for every format that round-trips. `write_all` hands a
frame over in any number of pieces. The connection may be lost between two of them. The
loop of either program awaits the handler of a packet before it reads on
(`HandlerReturns`); an `unwrap()` or `todo!()` in a handler takes the reader with it and
leaves the connection open (`HandlerPanics`, reader "died"). The
server takes a first payload of at most `SizeLimit` bytes (`Limited`).

### BBRing (client/src/data_structures/byte_buf_ring.rs)

`marker` and `rem` are the two packed words, records of `head`, `len` and `fin`; `Add` is
`fetch_add` on such a word, which carries a field's overflow into its neighbour. A push
is `Reserve`, `Check`, `GiveBack` or `WriteRecord`, `SeeTurn`, `Publish`; a pop
`PopReserve` to `PopRead`, and `DropGuard` belongs to whoever holds the guard. `log`,
`place` and `taken` are history: the payloads by ticket, where each begins, what was
popped.

The properties are claimed while the ring is `Sound`, which fails in two cases the code
does not exclude:

* `torn`: a refused push takes its ticket back (line 81) although another push has drawn
  one behind it. The numbers then no longer match, and two pushes may wait for the same
  turn for ever. The comment at line 51 allows several pushing threads; the client has
  one, its voice receiver, and with one pusher this cannot happen.
* `outside`: a record is written behind the end of the buffer. The room is computed from
  the difference of the two heads, and a pop reads at its head modulo the capacity, but a
  push writes at its head as it stands (lines 84 and 86), which only grows. As soon as the
  records accepted since the start are longer than the buffer, one of them is written
  behind it. Nothing is followed from there on.

### ConcVec (server/src/conc_vec.rs)

`guard` is the packed word: the pushes and iterations under way, the pops under way, and
the flags PUSH, POP and LOCK. `pc` names the access a thread is about to make. An
allocation is a function on its slots, and all allocations are kept in `heap`, so that a
read through an old pointer has a meaning. `len` wraps at `Word`.

Four flags are history and limit what is claimed, each for something the code does:
`leaks` (a pop of an empty vector returns without leaving, so that the POP flag stays),
`kept` (an iterator that is dropped last does not clear its flag), `missed` (a push whose slot is
the first of a later growth finds the vector smaller still, and then waits for another
push to grow it for both), `edited` (`remove` and `insert` were called: they change `len` but not
`push_far`, from which the other calls compute their slots, line 211). The module is
compiled into the server (`main.rs:63`), which does not use it yet. What happens once
the length exceeds the room is not followed.

### OnceCell (conc_once_cell.rs and sized_box.rs, the same in both programs)

`Alloc`, `Write` and `Swap` are the steps of `try_init`; `IntoInner` ends a call that has
lost, with the value given back or dropped. `get` reads the pointer, `DropCell` needs the
cell for itself. Allocations are never returned in the code, so an address is a count.

### ServerStores and Perms (server/src/*_db.rs, config.rs, main.rs)

`file` has the three files (channels, groups, configuration), each absent, cut
(`Torn`: `File::create` has truncated it and nothing is written yet) or a table. A start
loads one after the other, creates what is missing and fails on what it cannot parse. A
command is read, `Cut`, `WriteDb`, `Insert`; `channel delete` changes the memory first.
`WriteFails` is the `expect` on the write, which ends the console and leaves the server
running. `Crash` may come anywhere. `slots` is parsed as a wider number and cast to 16
bits (`Narrow`), sort ids wrap. The permissions of groups in the file are not loaded at
the start (`main.rs:191-216` fills in default ones); `Take` does as the code.

`Perms` is `calculate_active_perms`: the powers of a user raised by each of its groups, a
right counting only with its flag. `Snapshots` are the permissions that may be given.
It has no state; its property `PermsAreMaxima` stands in `ServerStores`, whose run checks
it for every user and every two groups of the sample.

### SecurityLevel and Identity (security_level.rs, profile_db.rs, user_db.rs, login)

A 256-bit number is the set of the places of its ones, xor is the symmetric difference,
the hash any function. `Identity` has the client (`pfile`, `profiles`, and `cache`, the
`internal_cache` that is written out as a whole), the requests on their way (`auth`), and
the server (`level`, `users`, and `synced`, what sled has on disk). The commands
`profiles create` and `profiles bump_sl`, the writes of the file, the logins of any
profile and the crashes of both programs interleave. A failed write leaves its entry in
the cache; the next insert writes it. Of the login only the checks of the proofs and the
user database are here; the rest is in `Presence`. The client's own
`verified_security_level` is another scheme and is called by nobody.

The definitions marked "Mutant" are deliberately wrong variants of the one that follows
them. No specification uses them; they exist to see that a property can fail.

### Abstractions

* A broadcast visits the users in any order and re-reads `online_users` at each one; the
  shard guards of the `DashMap` iterator are not modelled.
* A send to a peer whose link is up completes; a peer that stops reading, and so blocks
  the sender by flow control, is not modelled.
* The queueing order of waiting tasks in a tokio `RwLock` is not modelled: a waiter may
  enter whenever the lock is free.
* `online_users.clear()` of the stop command is one step.
* The checks of the login that only end in a refusal (size, version, proof, level, user
  already online, an error of the user database) are the one action `AuthReject`. A first
  packet that cannot be read does not fail but panics, in the acceptor (`AuthPanic`).
* Passwords, group tables, names and the contents of packets are left out; a profile is
  the id of its user. `server_groups` has no writer, so its read lock never waits.
* A server that lists a user in two channels (possible while a switch is between its two
  lists) encodes it twice; which of the two ends up in the client's `clients` is the
  decoding order, any in the model.
* The fields of a view that no property needs (names, groups, `channels_by_name`) and the
  packets no server code sends are left out.
* `finish_auth` also fails when the link goes down inside the login of a client
  (`OpenKeepAlive` of `ClientSession`); in `RustSpeak` that client simply has no link.
* The contents of datagrams and the playback are left out of `ClientSession`: a datagram
  is handled without a trace, or the task panics on it (`VoicePanic`).
* The data structures are sequentially consistent here: each action is one atomic
  access. The code uses acquire and release orderings on the words that are modelled;
  reorderings below that are not shown. An allocation does not fail.
* A file is cut, then written as a whole: a crash in the middle of a write leaves a file
  that does not parse, as a cut one does not. An error of `File::open` other than "not
  found" makes the code overwrite the file with the default; that is not modelled.
* sled writes in the background (`Sync`) and is external. `last_verified_security_level`
  of a user is stored at the first login and never updated, as in the code.
* `bump_sl` takes its level from `input[2]` though the command line declares two
  parameters; the model lets any level of `BumpLevels` be asked for.
* `DisconnectPacket`, `PanicPacket` and `AuthPanic` are packets the repository's client
  never sends; a refusal for an outdated version or a packet too large, on which the
  client panics (`Refusals`), is one it never gets. All of them need `StrayPackets`.
* A text is taken as its octets: what a program writes is valid UTF-8, so the checks of
  the readers never come up.

## 4. Runs

| run | instance | shows |
|---|---|---|
| `presence_switch` | 2 connections, 2 users, 2 channels, one switch each, create and delete | `EntriesConserved`, `RosterExact`, `EntryIsLive`, `ReadersAfterAuth` |
| `presence_live` | 2 connections, 1 user, 2 channels, fairness | `LostIsFinished`, `AcceptorMovesOn` |
| `presence_stale` | 2 connections, 1 user, 2 channels | violation of `FinishFindsItsUser` |
| `rustspeak_view` | 2 connections, 2 users, 2 channels, two switches each, create and delete | `ViewFollows`, `KnownIsListed` |
| `rustspeak_relogin` | 3 connections, 2 users, 1 channel, stray packets, stop | `ViewFollows`, `OneSession`, `OnlineIsLive`, `NoTakeover` |
| `client_session` | 1 connection, 2 keep-alives, fairness | `ReportedOnce`, `LossIsNoticed`, `GivenUpIsClosed` |
| `wire` | both directions, 2 sending tasks, 2 packets, every packet either program sends, fairness | `FramesRoundTrip`, `PrimitivesAgree`, `Faithful`, `IsQueue`, `EventuallyRead` |
| `ring` | 2 pushers and a pop, 5 records of two sizes, a buffer of 21 bytes, fairness | `NoCarry`, `PushesApart`, `GuardIntact`, `IsQueue`, `CallsReturn` |
| `conc_vec` | 3 threads, 3 elements, 4 calls of any kind, fairness | `SectionsApart`, `NothingLost`, `IsPool`, `CallsEnd` |
| `once` | 3 threads, 3 values | `EachOnce`, `IsOnce` |
| `server_stores` | 3 channel ids, 4 commands, 3 starts | `ReportedIsKept`, `LobbyStays`, `PermsAreMaxima`, `IsDurable` |
| `identity` | 3 keys, 2 names, numbers of 3 bits, 2 commands, 3 starts, 2 logins | `ProofsHold`, `ProfilesKept`, `WelcomeAgain`, `StoredIsProven`, `NeverPanics` |

Type invariants are theorems (section 5) and not repeated in the runs; the types of
`Identity` are part of its inductive invariant.

The bounds of `Presence` and its compositions. Every hazard of the list is between two
sessions (two switches, a switch and
a finish_up, a login and a finish_up), so two connections show it; a connection is never
reused, so three of them give a relogin while another user's session is broadcast to.
One switch per connection suffices for every pair of overlapping switches; a second one
only repeats a state. The connections are interchangeable (`ConnSymmetry`); so are users
of the same power (`UserSymmetry`); the liveness run uses no symmetry. `Readers` leaves
out tasks: the three notice a loss in the same way and the flag `closed` lets one of
them close, so two of them show a race between them, and a finish_up beside the switch
of the same session. The voice task may end on a datagram it cannot send on, whether the
link is up or not (`VoicePanic`); the keep-alive
task ends only on a loss, so `LostIsFinished` is checked with it: it is what notices a
loss after the reliable task has panicked. In `presence_switch` the configured default
channel is not the one the login code uses, so that the operator can delete the latter.
In `rustspeak_view` the channel "room" does not exist at the start: it is created after
one client's login and before another's, so that a switch names a channel one of them
does not list. Two keep-alives give `client_session` a first round, which meets the
missing handler, and a later one, which meets the loss.

The bounds of the others.

* `wire`: two senders are enough for one frame inside another; each direction is a start
  of its own. The samples have every variant that is sent and different values in
  neighbouring fields. A frame is cut in its header or before its last byte
  (`WirePieces`). `Places` is 3, since TLC's integers have 32 bits; the numbers in the
  samples fit. The theorems have any packets of the types, any cut and any `Places`.
* `ring`: 21 bytes have room for a long record (12 bytes) and a short one (5), not for two
  long ones, so that pushes are refused, wait for one another and come to the end of the
  buffer. `HeadMod` and
  `LenMod` are small, but wide enough for `MaxPush` records, as 2^32 and 2^16 are for
  what the buffer can hold between two resets.
* `conc_vec`: with an initial capacity of 1 (8 in the code) and a factor of 2, three
  elements grow the vector twice. Three threads are needed where one growing push waits
  for another push while a third call comes in.
* `once`: with three threads one wins, one loses and one reads meanwhile.
* `server_stores`: slots have 3 bits and sort ids 2, so that an operator can type a
  number the cast makes negative and use the last sort id. Two restarts follow a first
  start, one that finds what a crash left and one more.
* `identity`: with 3 bits the levels 1 to 3 exist and every one is reached by a search
  that may end with any fitting token; a required level 0 in the configuration is raised
  to 1.

What the passing runs show in words:

* `RosterExact`: the read of an index and its later use do not hurt as long as no
  removal has hit the entry of another session (`stale`); with logins and finish_ups
  alone that never happens, whatever overlaps. With switches it does, and
  `EntriesConserved` says what is left: no entry is lost or doubled, only whose it is
  may be wrong.
* `OneSession` and `OnlineIsLive`: although the test for AlreadyOnline and the insertion
  are far apart and finish_up removes by user, two logins of one user exclude each other,
  because the acceptor handles one connection at a time and finish_up removes the entry
  before a new login can pass the test.
* `ViewFollows`: the snapshot of a login is taken list by list, with no lock over it and
  the broadcasts. A client that has not panicked all the same shows a user who stands
  still in the right channel, since a session is entered in `online_users` before its
  snapshot is taken, and every later change is broadcast to it. What spoils it are
  packets that name users, not sessions: a farewell of an old session that comes late does
  take the newer session of that user out of `Server.clients` (and, once line 384 of the
  client's `server.rs` removes instead of inserting, out of the channel too). So where a
  user has had several sessions, the claim is made for a client whose last packet about
  the user was of the session that stands (`told`); it holds whatever that line does. The
  property leads from the server to the client: of users who have left, whom line 384 keeps
  in the member lists, it says nothing.
* `KnownIsListed`: creating and deleting channels without telling the clients may
  make them panic on a switch, but never leaves their two tables at odds.
* `ReportedOnce`, `LossIsNoticed`: the swap makes one of the tasks the reporter; each of
  reader, sender and voice receiver is enough to notice a loss.

* `FramesRoundTrip`, `Faithful`, `IsQueue`: the two copies of the format agree on all that
  is sent; with several tasks sending on a stream and a loss anywhere, packets arrive
  whole and in the order of the mutex, and the reader never takes the middle of a frame
  for a header. `EventuallyRead`: every packet sent comes to its handler unless the
  connection is closed or a handler has panicked, provided that no handler waits for ever.
* `IsQueue` and `GuardIntact` of the ring: as long as it is sound, the ring is a queue
  and the bytes behind a guard stay while others push.
* `SectionsApart`, `IsPool`, `NothingLost` of the vector: until an element is removed or
  inserted in the middle, each comes out once, also across a growth. `CallsEnd` names
  the four cases in which a call may wait for ever.
* `ReportedIsKept`, `IsDurable`: what the console has reported survives crashes and
  restarts, unless the server dies between the cut and the write of the file; then the
  whole file is lost and the server does not start again.
* `ProfilesKept`, `WelcomeAgain`: the same for the client's file, where a bumped profile
  stands behind its old entry. `best` remembers, over all runs of the client, the longest
  list of proofs that a key was ever shown with; it never shrinks (`Reported`), and a
  restart that shows less of the key violates `ProfilesKept`. Who was let in with a profile
  can be let in again.

The one violation that is run, `FinishFindsItsUser`, is described under `findings` in
`PROJECT.json`. Further disagreements met while modelling are part of the models: the two
cases of `Sound` in the ring and the four of the vector (section 3), the client's handler
of `ClientDisconnected`, which inserts the user into the channel it should leave
(`client/src/server.rs:384`), and the keep-alive task that unwraps a handler its spawner
stores afterwards (`client/src/network.rs:107`). The notes of the hazards say which
property is stated around them.

Fairness (`Fairness`). The runtime schedules its tasks, so a reader whose connection is
lost notices it, a running handler goes on, and so does finish_up; the acceptor goes on
except where it waits for its peer (the first packet, the keep-alive stream). Nothing is
assumed of peers, of links or of the operator. All of it is weak: each of these steps
stays enabled until taken, a lock that is waited for is freed by a finisher that is
itself fair and waits for no later lock. `LostIsFinished` counts a finish_up that a
failing send has killed as settled: the code really leaves it there.

`ClientSession` (`FairSpec`) assumes that a task waiting on a lost connection gets its
error, that the sender's timer ticks and that `error()` runs to its end: `finish()`
returns once the peer has acknowledged or the connection is lost. A packet that does not
decode, a panic and a loss are free to happen or not.

The fairness of the other runs (`LiveSpec`) is of the same kind: in `wire` the transport
takes bytes while the connection is open and the reader, where it is not inside a handler,
runs when it has some. Of the handlers nothing is assumed: they may return, panic or wait
for ever, and `EventuallyRead` names the last two. In `ring`
and `conc_vec` a thread inside a call goes on, and a guard or an iterator is dropped some
time. No call has to be made, and no lock or retry loop is assumed fair: a waiting
thread's step is enabled only when what it waits for has happened, and weak fairness is
enough.

The deadlock check is on in every run of `Presence` and `RustSpeak`: `AtRest` names the
states in which nothing is left to do (the process is over, or every connection has come
to rest), and any other state without a step would be reported. The other
runs switch it off, because they really may stop: a client that fails to connect, a
closed stream, a cell that was dropped, a server that is down for the last time have
nothing left to do, and the vector and the ring may come to the waits named above.

## 5. Proofs

`PresenceProofs`, for any number of connections, users and channels, from the
assumption `ConstantsOK` alone:

* `TypeCorrect`: `Spec => []TypeOK`.
* `OneSessionPerUser`, `OnlineRefersToLive`, `ReadersRunAfterAuth`: the invariants of
  that name hold in every reachable state.
* `NobodyTakenOver`: the action property `NoTakeover`.
* `NoDeleteUnderEntry`: `EntryIsLive`, on top of the first invariant.

* `EntriesAreConserved` (`EntriesConserved`) and `RosterIsExact` (`RosterExact`).

The inductive invariant has three parts. `SessionPart` joins the control state of
a connection to `online_users`: `SessInv` says what the handler's progress implies for
everything else (no reader, packet handler or finish_up before "done"), `PlaceInv` that
the place of a user stays free between the AlreadyOnline test and the insertion, and
that a session inserted and not yet left holds it. `OneSession` is not inductive
without either. `DataPart` types the lists and locals; it needs `SessionPart` to know
that a handler that pushes a user has one, and `ProfInv` for the profile that a switch
carries between two lists. Each lemma has one step per action; steps that change
little are first reduced to their effect.

`RosterPart` balances the lists against the sessions. `ClientsLedger` and `ProtoLedger`
each say two things. The number of entries in all lists is the number of sessions that
have entered less the number that have left, whatever has gone wrong. As long as no
removal has hit a wrong entry (`~stale`), each channel also lists each user as often as
there are sessions of that user which account for an entry there. `MoveInv` has what the
single steps need: a login stands in the default channel, and whoever has never asked
for a switch is finished up where it stands. A step is either calm (it touches no list and
nothing that a session accounts for; one lemma, `CalmKeeps`, serves all of them) or it
puts one entry in or takes one out, and then both sides of the balance change by one.
`RosterExact` follows where no switch has been asked for, since then nothing can be stale.

The composition (same module), from `ConstantsOK` and `ClientConstantsOK`:

* `ServerUnaffected`: `RSSpec => Spec`, so that the inductive invariant of
  `Presence` holds in the composed system without a second proof. Each action of
  `RSNext` is an action of `Presence` or leaves its variables alone (`SendRemove`).
* `ClientTypeCorrect` and `KnownUsersAreListed`: `Good(v)`, a typed view whose two tables
  agree unless the reader has panicked, is preserved by each handler (one lemma each),
  and by each step that applies one. The typing needs the profiles and channels of
  `DataPart` for what a packet may carry.
* `ClientsFollow`: `ViewFollows`, if `ConfigDefault = Default`. The client puts whoever
  logs in later into the channel that the configuration names, while the login code of the
  server uses `DEFAULT_CHANNEL_UUID`; `config.rs:42` writes the same channel into the file,
  and the two differ only where an operator edits it. Both runs of `RustSpeak` have the
  hypothesis too; without it the property is false.

`ViewFollows` speaks of states in which nothing is under way; `FollowInv` says what must
be true of a client *t* and a session *s* while something is. From the moment in which the
AuthResponse of *t* is encoded, what has been encoded counts as its view (`Table`). A
session is `Unmet` while its login has yet to be announced to *t*, `Met` afterwards;
`Told` says that *t* has heard of its last switch, and `MayShow` where *t* may show it
otherwise (what it left, where it goes, or neither between Remove and Add). Packets name
users, so of a user with several sessions the invariant follows the one that the last
packet to *t* was of (`told`): a packet of another session ends the claim, and an announcement
of a new one begins it anew.
`LinkInv` ties the variables of the composition to the counters of the server (who is
owed an Add is still online, a switch remembers what it leaves). The step that encodes a
channel uses `ProtoLedger`: who stands in the list is who accounts for an entry in it.
Steps that tell *t* nothing are one lemma; those that tell it something are split by
packet.

`ClientSessionProofs`: `SessionTypeCorrect`, and `ToldOnce` for `ReportedOnce`, which is
inductive as it stands: reports made and reports under way add up to one from the first
notice on.

`WireProofs`, from `PlacesAssumption`, `DirsAssumption`, `FormatAssumption` (the packets
are of the types both programs declare, and `Frame`, `Size`, `Decode` and `View` are what
the programs make of them) and `TrialsAssumption`. `Sendable` leaves out one variant,
`ChallengeResponse`, which nothing sends and whose reader says `todo!()`.

* The format, for every packet of every type, size and content: `FramesAlwaysRoundTrip`
  and `PrimitivesAlwaysAgree`. The bytes `e` mean `x` to a format when it reads `x`
  wherever `e` stands in a buffer, and not a byte more (`Means`); a format is `Sound` when
  what it writes of a value means that value. Each shape of `Codec` is sound if its parts
  are: numbers because division and Horner's scheme undo one another digit by digit
  (`NumberRead`), lists and structs because what several reads give, one behind the other,
  is what each of them gives (`ReadAll`), enums because no two variants have the same name.
  Most formats are the same in both copies and need no more. Where the copies differ, what
  the sender's copy writes is shown to mean the value to the reader's: the server writes the
  members of a channel as a list and the client keeps them by uuid; the copies of
  `AuthRequest` and of the challenges agree only in the half that is used (the server's own
  `write` of an `AuthRequest`, which nothing calls, puts the name before the key).
* The stream, for any format that round-trips (`ASSUME RoundTrip`), any senders and
  pieces: `StreamCorrect` (`StreamInv`, inductive: the bytes are the frames in the order
  of the mutex, the last one perhaps unfinished, and the reader stands at a frame's
  boundary or behind its header), `StreamFaithful`, `StreamTypeCorrect`, `StreamIsQueue`.
* Both together: the lemma `FormatRoundTrips` discharges that hypothesis, so that
  `WireCorrect`, `WireFaithful`, `WireTypeCorrect` (no reader ends because its decoder
  fails or panics; a handler still may) and the refinement `WireIsQueue` assume nothing of
  the format.

`BBRingProofs`, for any number of pushers, packets, capacity and widths that fit the
bound: `RingCorrect` (the tickets between the removals and the reservations have bytes of
their own, each right behind those of the ticket before; what is published is stored),
and from it `CountersStayApart`, `ReservationsApart`, `PublishedStays`, `GuardStays` and
the refinement `RingIsQueue`.

`ConcVecProofs`, for any number of threads, elements and calls, any initial capacity and
factor, from `VecAssumption` (a `usize` counts more than the calls that are made):

* `WordCorrect`, `CountsExact` (the counters of the word are exactly the threads that are
  inside or on their way, and the empty pops) and `SectionsStayApart`. The flags alone are
  not inductive; each is tied to the counter of those who hold it.
* `VectorTypes` and `VectorCorrect`: `VecInv`, which adds to that `ShapeInv` (types; who
  reads through a pointer has an allocation to read), `FarInv` (the counter a call has read
  is still right when it uses it, because the other kind of call is shut out; `pop_far`
  exceeds `push_far` by exactly the pops that are about to undo their claim) and, until
  the first `remove` or `insert`, `DataInv`: the slots claimed are apart, every slot below
  the claims has its pusher or its element, `len` lags behind the claims by the calls
  inside, and each element given to a push is with one thread, in one slot, or returned.
* `NothingIsLost`, and `VectorIsPool`: a push becomes visible when it writes its slot, a
  pop when it takes it; every other step is a stutter of `Pool`, a growth too.

That a growing push has waited for every slot in front of it (`Drain`) is a count: it has
seen `len` as high as its slot, and a push still inside would make it lower. The
branch that lowers the counters at 2^62 pushes
(`conc_vec.rs:62`) is not modelled.

`OnceCellProofs`: `CellCorrect` (`Boxes`: a box under way is nobody else's and not the
cell's; `Contents`: it holds the value it was made for), `OwnedOnce`, `ReadersSeeOne` and
the refinement `CellIsOnce`.

`ServerStoresProofs`: `StoresCorrect` (`Shapes`: what the file, the memory and the command
under way look like at each counter; `Follows`: how they agree), and from it
`MemoryIsFile`, `ReportsAreKept`, `LobbyIsThere`, `SlotsAreLegal` and the refinement
`FileIsDurable`. `ActivePermsAreMaxima` is about the loop of `calculate_active_perms`: for
any snapshot and any sequence of groups, of any length and in any order, every active
permission is the largest that the user or one of the groups has on its own.
`PermsAreAlwaysMaxima` is that property in the form in which the run checks it.

`IdentityProofs`, for any hash function, number of bits, keys, names and commands, from
`IdentityAssumption` (the levels are `u8`, as in the code, different keys have different
ids, and the two marks for a missing and a cut file are not lists of profiles):
`ProofsAlwaysHold`, `ProfilesAreKept`, `WelcomedAgain`, `StoredAlwaysProven` and
`AcceptorNeverPanics`. That `best` is not reset by a start, but only ever goes on, is what
`ProfilesAreKept` rests on: that the profiles loaded from a file go on from it has to be
shown of the file. The invariant has two halves. `ClientPart`: the best proofs ever
reported of a key are in the file, in the cache and in memory, as the console's place
allows (`Files`, `Showing`), and the entry under way extends what it replaces
(`Pending`). `ServerPart`: the requests on their way and what is stored, in memory and on
disk, are beginnings of those proofs. The lemmas below it say what a chain of hashes is:
there is one, its links are what the definition says, and a longer list of tokens has the
same links at the beginning, so that a proof which was good stays good when the level is
raised.

The recursive functions of the models (the chain, the permissions, the numbers and
sequences of the format) are treated without the
library's induction theorems: a property of all numbers up to a bound is shown through the
least number at which it would fail, which exists by `WFMin` (lemmas `LeastNumber`,
`UpTo`).

Model-checked only:

* liveness under fairness, beyond the prover: `LostIsFinished`, `AcceptorMovesOn`,
  `LossIsNoticed`, `GivenUpIsClosed`, `EventuallyRead`, `CallsReturn`, `CallsEnd`.
* `FinishFindsItsUser`, which is false, by its run.

## 6. Not modelled

* Voice and audio: devices, codecs and the playback callback are external. The split of
  datagrams and the receive buffer are planned (`Voice`).
* The user interface: `ScreenSystem` and `Atlas` are planned; drawing and layout have no
  state a property could be about, and `iced.rs` is not compiled (`ui/mod.rs:9`).
* Certificates and helpers: TLS set-up, clocks and console input.
* The client's configuration: one file, read and created like those of the server.
* QUIC itself: delivery within a stream, flow control, idle timeouts.
* `start_connect_to` of the client, which nobody calls and which sends nothing; the
  packet wrappers `Encrypted` and `Signed`.
