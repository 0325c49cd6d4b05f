---------------------------- MODULE ServerStores ----------------------------
(***************************************************************************)
(* The files of the server, its start and the commands that write the      *)
(* channels.  Every file is created when it cannot be opened and is cut to *)
(* nothing before it is written; the server may die between two steps.     *)
(* Names, descriptions and passwords are left out: two channels may have   *)
(* one name, and the commands then mean any of them.  What the server      *)
(* makes of the permissions in the files is in Perms.                      *)
(***************************************************************************)
EXTENDS Integers, FiniteSets, Perms

CONSTANTS
  Ids,          \* the ids of channels
  Lobby,        \* DEFAULT_CHANNEL_UUID
  Groups,       \* the server groups of the default file
  NoFile, Torn, \* a file that is not there, one that is cut and not yet written
  SlotArgs, SortArgs,  \* the numbers an operator types
  HalfSlot,     \* 2^15: slots are an i16
  Sorts,        \* 2^16: sort ids are a u16
  MaxCommands, MaxStarts  \* bounds

Entry == [sort : 0..(Sorts - 1), slots : -HalfSlot..(HalfSlot - 1)]

ASSUME StoresAssumption ==
  /\ Lobby \in Ids
  /\ HalfSlot \in Nat \ {0} /\ Sorts \in Nat \ {0}
  /\ SlotArgs \subseteq Int /\ SortArgs \subseteq Nat
  /\ MaxCommands \in Nat /\ MaxStarts \in Nat
  /\ NoFile # Torn /\ {NoFile, Torn} \cap Ids = {}
  /\ {NoFile, Torn} \cap UNION {[D -> Entry] : D \in SUBSET Ids} = {}

Files == {"channels", "groups", "config"}

VARIABLES
  file,       \* the content of each file
  pc,         \* where the server, or its console, stands
  at,         \* the file it loads
  channels,   \* Server.channels
  groups,     \* Server.server_groups
  default,    \* Config.default_channel_id
  db,         \* what a command has read
  job,        \* what it is to write
  known,      \* history: the channels whose creation was reported, not to be deleted since
  gone,       \* history: those whose deletion was reported, not to be created since
  commands, starts

memory == <<channels, groups, default>>
history == <<known, gone, commands, starts>>
vars == <<file, pc, at, memory, db, job, history>>

Nothing == [id \in {} |-> 0]

Default(f) ==
  CASE f = "channels" -> [id \in {Lobby} |-> [sort |-> 0, slots |-> -1]]
    [] f = "groups" -> [g \in Groups |-> "none"]
    [] f = "config" -> Lobby

\* The configuration, and the permissions of groups, may have been written by hand.
Init ==
  /\ file \in {[channels |-> NoFile, groups |-> g, config |-> c] :
                 g \in {NoFile} \cup [Groups -> {"none", "some"}], c \in {NoFile} \cup Ids}
  /\ pc = "down" /\ at = "channels"
  /\ channels = Nothing /\ groups = Nothing /\ default = Lobby
  /\ db = Nothing /\ job = Nothing
  /\ known = {} /\ gone = {} /\ commands = 0 /\ starts = 0

-----------------------------------------------------------------------------
(* The start.                                                              *)

Start ==
  /\ pc = "down"
  /\ starts < MaxStarts
  /\ starts' = starts + 1
  /\ pc' = "load" /\ at' = "channels"
  /\ UNCHANGED <<file, memory, db, job, known, gone, commands>>

\* A file that cannot be read as what it should be ends the start.
Refuse ==
  /\ pc = "load"
  /\ file[at] = Torn
  /\ pc' = "down"
  /\ UNCHANGED <<file, at, memory, db, job, history>>

\* What a file holds goes to memory; the permissions of groups do not.
Take(content) ==
  /\ channels' = IF at = "channels" THEN content ELSE channels
  /\ groups' = IF at = "groups" THEN [g \in DOMAIN content |-> "none"] ELSE groups
  /\ default' = IF at = "config" THEN content ELSE default
  /\ at' = CASE at = "channels" -> "groups" [] at = "groups" -> "config"
             [] at = "config" -> "channels"
  /\ pc' = IF at = "config" THEN "up" ELSE "load"

Load ==
  /\ pc = "load"
  /\ file[at] \notin {NoFile, Torn}
  /\ Take(file[at])
  /\ UNCHANGED <<file, db, job, history>>

MakeFile ==
  /\ pc = "load"
  /\ file[at] = NoFile
  /\ file' = [file EXCEPT ![at] = Torn]
  /\ pc' = "fill"
  /\ UNCHANGED <<at, memory, db, job, history>>

Created == Default(at)

Fill ==
  /\ pc = "fill"
  /\ file' = [file EXCEPT ![at] = Default(at)]
  /\ Take(Created)
  /\ UNCHANGED <<db, job, history>>

-----------------------------------------------------------------------------
(* The commands.  The console thread runs them one by one.                 *)

Command ==
  /\ pc = "up"
  /\ commands < MaxCommands
  /\ commands' = commands + 1

\* `as i16`
Narrow(n) == ((n + HalfSlot) % (2 * HalfSlot)) - HalfSlot

Illegal(n) == Narrow(n) < -1

\* s is the largest sort id of a database, or 0.
IsLast(s, d) ==
  /\ s = 0 \/ \E id \in DOMAIN d : d[id].sort = s
  /\ \A id \in DOMAIN d : d[id].sort <= s

\* The entry is made from the database that was just read.
Write(d, j) ==
  /\ db' = d /\ job' = j

With(d, id, entry) == [c \in DOMAIN d \cup {id} |-> IF c = id THEN entry ELSE d[c]]
Without(d, id) == [c \in DOMAIN d \ {id} |-> d[c]]

\* channel create: the id is drawn until it is new to the database.
Create(id, n, sort) ==
  /\ Command
  /\ id \notin DOMAIN file["channels"]
  /\ ~Illegal(n)
  /\ pc' = "cut"
  /\ Write(file["channels"],
           [op |-> "create", id |-> id,
            entry |-> [sort |-> sort % Sorts, slots |-> Narrow(n)]])
  /\ gone' = gone \ {id}
  /\ UNCHANGED <<file, at, memory, known, starts>>

\* Without a sort id it goes last; past the largest one a release build wraps.
CreateLast(id, n) ==
  \E s \in 0..(Sorts - 1) : Create(id, n, s + 1) /\ IsLast(s, file["channels"])

\* A panic ends the console: a slot count below -1 (a debug build: no sort id left).
Panic ==
  /\ Command
  /\ \/ \E n \in SlotArgs : Illegal(n)
     \/ IsLast(Sorts - 1, file["channels"])
  /\ pc' = "noconsole"
  /\ UNCHANGED <<file, at, memory, db, job, known, gone, starts>>

\* Mutant: any channel may be deleted.
DeletableAny(id) == id \in DOMAIN channels

Deletable(id) == id \in DOMAIN channels /\ id # default

\* channel delete: the memory first.  The entry is in the file (MemoryFollowsFile).
Delete(id) ==
  /\ Command
  /\ Deletable(id)
  /\ channels' = Without(channels, id)
  /\ known' = known \ {id}
  /\ pc' = "cut"
  /\ Write(file["channels"], [op |-> "delete", id |-> id])
  /\ UNCHANGED <<file, at, groups, default, gone, starts>>

\* File::create
Cut ==
  /\ pc = "cut"
  /\ file' = [file EXCEPT !["channels"] = Torn]
  /\ pc' = "write"
  /\ UNCHANGED <<at, memory, db, job, history>>

\* Mutant: only the new entry is written.
WrittenNew == IF job.op = "create" THEN With(Nothing, job.id, job.entry) ELSE Without(db, job.id)

\* Mutant: only what was there is written.
WrittenOld == db

Written == IF job.op = "create" THEN With(db, job.id, job.entry) ELSE Without(db, job.id)

WriteDb ==
  /\ pc = "write"
  /\ file' = [file EXCEPT !["channels"] = Written]
  /\ pc' = IF job.op = "create" THEN "insert" ELSE "up"
  /\ gone' = IF job.op = "delete" THEN gone \cup {job.id} ELSE gone
  /\ db' = Nothing /\ job' = IF job.op = "create" THEN job ELSE Nothing
  /\ UNCHANGED <<at, memory, known, commands, starts>>

Insert ==
  /\ pc = "insert"
  /\ channels' = With(channels, job.id, job.entry)
  /\ known' = known \cup {job.id}
  /\ pc' = "up" /\ job' = Nothing
  /\ UNCHANGED <<file, at, groups, default, db, gone, commands, starts>>

\* The file cannot be opened or written: expect ends the console, the server runs on.
WriteFails ==
  /\ pc \in {"cut", "write"}
  /\ pc' = "noconsole"
  /\ db' = Nothing /\ job' = Nothing
  /\ UNCHANGED <<file, at, memory, history>>

-----------------------------------------------------------------------------
\* The program is stopped or dies.
Crash ==
  /\ pc # "down"
  /\ pc' = "down" /\ at' = "channels"
  /\ channels' = Nothing /\ groups' = Nothing /\ default' = Lobby
  /\ db' = Nothing /\ job' = Nothing
  /\ UNCHANGED <<file, history>>

Next ==
  \/ Start \/ Refuse \/ Load \/ MakeFile \/ Fill
  \/ \E id \in Ids, n \in SlotArgs : CreateLast(id, n) \/ \E s \in SortArgs : Create(id, n, s)
  \/ Panic
  \/ \E id \in Ids : Delete(id)
  \/ Cut \/ WriteDb \/ Insert \/ WriteFails
  \/ Crash

Spec == Init /\ [][Next]_vars

-----------------------------------------------------------------------------
(* Properties.                                                             *)

IsTable(f, set) == DOMAIN f \subseteq Ids /\ f \in [DOMAIN f -> set]

\* The types of the variables.
TypeOK ==
  /\ file["channels"] \in {NoFile, Torn} \/ IsTable(file["channels"], Entry)
  /\ file["config"] \in Ids \cup {NoFile, Torn}
  /\ pc \in {"down", "load", "fill", "up", "cut", "write", "insert", "noconsole"}
  /\ at \in Files
  /\ IsTable(channels, Entry) /\ default \in Ids
  /\ known \subseteq Ids /\ gone \subseteq Ids

\* channel_db.rs:52: whenever a command can be typed, and after every restart, the
\* channels of the server are those of its file, with the same slots and sort ids.
MemoryFollowsFile == pc = "up" => channels = file["channels"]

\* main.rs:1040, 1065: what was reported as created is there and what was reported as
\* deleted is not, however often the server has died in between.
ReportedIsKept == pc = "up" => known \subseteq DOMAIN channels /\ gone \cap DOMAIN channels = {}

\* main.rs:476: a login unwraps the built-in channel.  It cannot be deleted as long as
\* it is the configured one.
LobbyStays == pc \in {"up", "cut", "write", "insert", "noconsole"} /\ default = Lobby
                => Lobby \in DOMAIN channels

\* channel_db.rs:21: "a value of -1 indicates unlimited users, all other negative
\* values are illegal", in memory and in the file.
SlotsLegal ==
  /\ \A id \in DOMAIN channels : channels[id].slots >= -1
  /\ \/ file["channels"] \in {NoFile, Torn}
     \/ \A id \in DOMAIN file["channels"] : file["channels"][id].slots >= -1

\* main.rs:632: whatever the order of the groups, a user may do what it, or one of its
\* groups, may do on its own, and no more: no power of one is combined with a flag of
\* another.  Nothing of it depends on the state: before the first start will do.
PermsAreMaxima ==
  starts = 0 => \A p, g, h \in Snapshots :
    calculate_active_perms(p, <<g, h>>) = MaximaOf(p, <<g, h>>)

Pairs(f) == {<<id, f[id]>> : id \in DOMAIN f}

\* The file of the channels keeps a set of entries: each command changes one of them
\* or none, unless the server dies between the cut and the write; then all is lost.
Kept == INSTANCE Durable WITH
          Entry <- Ids \X Entry,
          kept <- IF file["channels"] = NoFile THEN {}
                  ELSE IF file["channels"] = Torn THEN Pairs(db)
                  ELSE Pairs(file["channels"]),
          lost <- file["channels"] = Torn /\ pc \notin {"write", "fill"}
IsDurable == Kept!Spec
=============================================================================
