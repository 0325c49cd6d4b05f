------------------------- MODULE ServerStoresProofs -------------------------
(***************************************************************************)
(* Theorems about ServerStores, for any ids, slot counts, sort ids and any *)
(* number of commands and restarts; and about Perms, for any number of     *)
(* groups.                                                                 *)
(***************************************************************************)
EXTENDS ServerStores, SequenceTheorems, WellFoundedInduction, TLAPS

Whole(f) == IsTable(f, Entry)

\* Where a command stands: what it has read, the memory and the file.
Editing ==
  /\ job.id \in Ids /\ job.op \in {"create", "delete"}
  /\ job.op = "create" => job.entry \in Entry

Writing ==
  /\ Editing
  /\ job.op = "create" => channels = db /\ job.id \notin DOMAIN db
  /\ job.op = "delete" => channels = Without(db, job.id) /\ job.id \in DOMAIN db

Shapes ==
  /\ file = [f \in Files |-> file[f]] /\ at \in Files
  /\ pc \in {"down", "load", "fill", "up", "cut", "write", "insert", "noconsole"}
  /\ Whole(channels) /\ Whole(db)
  /\ file["channels"] \in {NoFile, Torn} \/ Whole(file["channels"])

Follows ==
  /\ pc \notin {"cut", "write"} => db = Nothing
  /\ pc = "up" \/ (pc \in {"load", "fill"} /\ at # "channels") => file["channels"] = channels
  /\ pc = "fill" /\ at = "channels" => file["channels"] = Torn
  /\ pc = "cut" => Writing /\ file["channels"] = db
  /\ pc = "write" => Writing /\ file["channels"] = Torn
  /\ pc = "insert" => /\ Editing /\ job.op = "create"
                      /\ file["channels"] = With(channels, job.id, job.entry)

StoreInv == Shapes /\ Follows

-----------------------------------------------------------------------------
\* A whole file is there and is not cut.
LEMMA WholeIsNeither ==
  ASSUME NEW f, Whole(f)
  PROVE  f # NoFile /\ f # Torn
<1>1. f \in UNION {[D -> Entry] : D \in SUBSET Ids}
  BY DEF Whole, IsTable
<1> QED
  BY <1>1, StoresAssumption

\* The empty table is whole.
LEMMA NothingWhole == Whole(Nothing) /\ Pairs(Nothing) = {}
BY DEF Whole, IsTable, Nothing, Pairs

\* So is the default file of the channels.
LEMMA DefaultWhole == Whole(Default("channels"))
<1>1. [sort |-> 0, slots |-> -1] \in Entry
  BY StoresAssumption DEF Entry
<1> QED
  BY <1>1, StoresAssumption DEF Whole, IsTable, Default

\* Adding an entry to a whole file adds that pair.
LEMMA WithWhole ==
  ASSUME NEW d, Whole(d), NEW id \in Ids, NEW e \in Entry
  PROVE  /\ Whole(With(d, id, e))
         /\ id \notin DOMAIN d => Pairs(With(d, id, e)) = Pairs(d) \cup {<<id, e>>}
                                  /\ <<id, e>> \notin Pairs(d)
<1>1. DOMAIN With(d, id, e) = DOMAIN d \cup {id}
  BY DEF With
<1>2. With(d, id, e)[id] = e
  BY DEF With
<1>3. \A c \in DOMAIN d : c # id => With(d, id, e)[c] = d[c]
  BY DEF With
<1>4. Whole(With(d, id, e))
  BY DEF With, Whole, IsTable
<1>5. ASSUME id \notin DOMAIN d
      PROVE  Pairs(With(d, id, e)) = Pairs(d) \cup {<<id, e>>} /\ <<id, e>> \notin Pairs(d)
  BY <1>1, <1>2, <1>3, <1>5 DEF Pairs
<1> QED
  BY <1>4, <1>5

\* Removing an entry from a whole file removes that pair.
LEMMA WithoutWhole ==
  ASSUME NEW d, Whole(d), NEW id \in DOMAIN d
  PROVE  /\ Whole(Without(d, id))
         /\ Pairs(Without(d, id)) = Pairs(d) \ {<<id, d[id]>>}
         /\ <<id, d[id]>> \in Pairs(d) /\ <<id, d[id]>> \in Ids \X Entry
BY DEF Without, Whole, IsTable, Pairs

\* The cast of slots gives an i16.
LEMMA NarrowFits ==
  ASSUME NEW n \in Int
  PROVE  Narrow(n) \in -HalfSlot..(HalfSlot - 1)
<1>1. ((n + HalfSlot) % (2 * HalfSlot)) \in 0..(2 * HalfSlot - 1)
  BY StoresAssumption
<1> QED
  BY <1>1, StoresAssumption DEF Narrow

\* The cast of a sort id gives a u16.
LEMMA SortFits ==
  ASSUME NEW n \in Nat
  PROVE  n % Sorts \in 0..(Sorts - 1)
BY StoresAssumption

-----------------------------------------------------------------------------
\* Before the first start.
LEMMA StoreInit == Init => StoreInv
BY NothingWhole DEF Init, StoreInv, Shapes, Follows, Files

\* channel create, with or without a sort id, begins a write of a legal entry.
LEMMA CreateInv ==
  ASSUME StoreInv, NEW id \in Ids, NEW n \in SlotArgs, NEW s \in Nat, Create(id, n, s)
  PROVE  StoreInv'
<1> DEFINE e == [sort |-> s % Sorts, slots |-> Narrow(n)]
<1>1. e \in Entry
  BY NarrowFits, SortFits, StoresAssumption DEF Entry
<1>2. /\ pc = "up" /\ pc' = "cut" /\ db' = file["channels"]
      /\ job' = [op |-> "create", id |-> id, entry |-> e]
      /\ UNCHANGED <<file, at, channels>>
      /\ id \notin DOMAIN file["channels"]
  BY DEF Create, Command, Write, memory
<1> HIDE DEF e
<1>3. file["channels"] = channels /\ Whole(channels)
  BY <1>2 DEF StoreInv, Shapes, Follows
<1>4. Writing'
  BY <1>1, <1>2, <1>3 DEF Writing, Editing
<1> QED
  BY <1>2, <1>3, <1>4 DEF StoreInv, Shapes, Follows, Whole

\* channel delete begins a write of what is left.
LEMMA DeleteInv ==
  ASSUME StoreInv, NEW id \in Ids, Delete(id)
  PROVE  StoreInv'
<1>1. /\ pc = "up" /\ pc' = "cut" /\ db' = file["channels"]
      /\ job' = [op |-> "delete", id |-> id]
      /\ UNCHANGED <<file, at>> /\ channels' = Without(channels, id)
      /\ id \in DOMAIN channels
  BY DEF Delete, Deletable, Command, Write
<1>2. file["channels"] = channels /\ Whole(channels)
  BY <1>1 DEF StoreInv, Shapes, Follows
<1>3. Whole(channels') /\ Whole(db')
  BY <1>1, <1>2, WithoutWhole
<1>4. Writing'
  BY <1>1, <1>2 DEF Writing, Editing
<1> QED
  BY <1>1, <1>2, <1>3, <1>4 DEF StoreInv, Shapes, Follows, Whole

\* What a command writes is a whole file.
LEMMA WrittenWhole ==
  ASSUME Writing, Whole(db)
  PROVE  Whole(IF job.op = "create" THEN With(db, job.id, job.entry) ELSE Without(db, job.id))
<1>1. CASE job.op = "create"
  <2>1. Whole(With(db, job.id, job.entry))
    BY <1>1, WithWhole DEF Writing, Editing
  <2> QED
    BY <1>1, <2>1
<1>2. CASE job.op # "create"
  <2>1. Whole(Without(db, job.id))
    BY <1>2, WithoutWhole DEF Writing, Editing
  <2> QED
    BY <1>2, <2>1
<1> QED
  BY <1>1, <1>2

\* The written file is what the memory is, or will be once the channel is inserted.
LEMMA WriteInv ==
  ASSUME StoreInv, WriteDb
  PROVE  StoreInv'
<1>1. /\ pc = "write" /\ db' = Nothing /\ UNCHANGED <<at, channels>>
      /\ pc' = IF job.op = "create" THEN "insert" ELSE "up"
      /\ job.op = "create" => job' = job
  BY DEF WriteDb, Written, memory
<1>2. Writing /\ Whole(db) /\ Whole(channels)
  BY <1>1 DEF StoreInv, Shapes, Follows
<1>3. /\ file' = [f \in Files |-> file'[f]]
      /\ file'["channels"] = IF job.op = "create" THEN With(db, job.id, job.entry)
                             ELSE Without(db, job.id)
  BY DEF WriteDb, Written, StoreInv, Shapes, Files
<1>4. Whole(file'["channels"])
  BY <1>2, <1>3, WrittenWhole
<1>5. Follows'
  BY <1>1, <1>2, <1>3 DEF Follows, Writing, Editing
<1> QED
  BY <1>1, <1>2, <1>3, <1>4, <1>5, NothingWhole DEF StoreInv, Shapes

\* What a file holds becomes the memory.
LEMMA TakeInv ==
  ASSUME StoreInv, NEW content, Take(content), pc \in {"load", "fill"},
         file'["channels"] = IF at = "channels" THEN content ELSE file["channels"],
         at = "channels" => Whole(content),
         file' = [f \in Files |-> file'[f]], UNCHANGED <<db, job>>
  PROVE  StoreInv'
<1>1. /\ channels' = IF at = "channels" THEN content ELSE channels
      /\ at' \in Files
      /\ at = "groups" => at' = "config" /\ pc' = "load"
      /\ at = "channels" => at' = "groups" /\ pc' = "load"
      /\ at = "config" => at' = "channels" /\ pc' = "up"
  BY DEF Take, StoreInv, Shapes, Files
<1>2. file'["channels"] = channels' /\ Whole(channels')
  BY <1>1 DEF StoreInv, Shapes, Follows
<1> QED
  BY <1>1, <1>2 DEF StoreInv, Shapes, Follows, Whole, Files

\* No step breaks the agreement.
LEMMA StoreStep == StoreInv /\ [Next]_vars => StoreInv'
<1> SUFFICES ASSUME StoreInv, [Next]_vars PROVE StoreInv'
  OBVIOUS
<1> USE DEF memory, history
<1>1. CASE Start
  BY <1>1 DEF Start, StoreInv, Shapes, Follows, Whole, Files
<1>2. CASE Refuse
  BY <1>2 DEF Refuse, StoreInv, Shapes, Follows, Whole
<1>3. CASE Load
  <2>1. at = "channels" => Whole(file[at])
    BY <1>3 DEF Load, StoreInv, Shapes
  <2> QED
    BY <1>3, <2>1, TakeInv DEF Load, StoreInv, Shapes
<1>4. CASE MakeFile
  BY <1>4 DEF MakeFile, StoreInv, Shapes, Follows, Whole, Files
<1>5. CASE Fill
  <2>1. file' = [f \in Files |-> file'[f]]
        /\ file'["channels"] = IF at = "channels" THEN Default(at) ELSE file["channels"]
    BY <1>5 DEF Fill, Created, StoreInv, Shapes, Files
  <2> QED
    BY <1>5, <2>1, TakeInv, DefaultWhole DEF Fill, Created
<1>6. CASE \E id \in Ids, n \in SlotArgs :
             CreateLast(id, n) \/ \E s \in SortArgs : Create(id, n, s)
  BY <1>6, CreateInv, StoresAssumption DEF CreateLast
<1>7. CASE Panic
  BY <1>7 DEF Panic, Command, StoreInv, Shapes, Follows, Whole
<1>8. CASE \E id \in Ids : Delete(id)
  BY <1>8, DeleteInv
<1>9. CASE Cut
  BY <1>9 DEF Cut, StoreInv, Shapes, Follows, Whole, Files, Writing, Editing
<1>10. CASE WriteDb
  BY <1>10, WriteInv
<1>11. CASE Insert
  BY <1>11, WithWhole DEF Insert, StoreInv, Shapes, Follows, Whole, Editing
<1>12. CASE WriteFails
  BY <1>12, NothingWhole DEF WriteFails, StoreInv, Shapes, Follows, Whole
<1>13. CASE Crash
  BY <1>13, NothingWhole DEF Crash, StoreInv, Shapes, Follows, Whole, Files
<1>14. CASE UNCHANGED vars
  BY <1>14 DEF vars, StoreInv, Shapes, Follows, Whole, Writing, Editing
<1> QED
  BY <1>1, <1>2, <1>3, <1>4, <1>5, <1>6, <1>7, <1>8, <1>9, <1>10, <1>11, <1>12, <1>13, <1>14
     DEF Next

\* The file, the memory and the command under way agree at every step.
THEOREM StoresCorrect == Spec => []StoreInv
<1>1. Init => StoreInv
  BY StoreInit
<1>2. StoreInv /\ [Next]_vars => StoreInv'
  BY StoreStep
<1> QED
  BY <1>1, <1>2, PTL DEF Spec

\* channel_db.rs:52: whenever the console takes commands the memory is the file.
THEOREM MemoryIsFile == Spec => []MemoryFollowsFile
<1>1. StoreInv => MemoryFollowsFile
  BY DEF StoreInv, Follows, MemoryFollowsFile
<1> QED
  BY <1>1, StoresCorrect, PTL

-----------------------------------------------------------------------------
(* What was reported, the lobby and the slots.                             *)

Channels == file["channels"]
Is(f) == f \notin {NoFile, Torn}

\* The reports, for each place the entries may be in.
Reports ==
  /\ Channels = NoFile \/ (pc = "fill" /\ at = "channels") => known = {} /\ gone = {}
  /\ Is(Channels) => known \subseteq DOMAIN Channels /\ gone \cap DOMAIN Channels = {}
  /\ pc \in {"cut", "write"} =>
       /\ known \subseteq DOMAIN db /\ gone \cap DOMAIN db = {}
       /\ job.op = "create" => job.id \notin gone
       /\ job.op = "delete" => job.id \notin known

\* The configuration protects the lobby from the first command on.
LobbyProtected ==
  file["config"] \in {NoFile, Torn, Lobby} =>
    /\ Is(Channels) => Lobby \in DOMAIN Channels
    /\ pc \in {"cut", "write"} => Lobby \in DOMAIN db /\ (job.op = "delete" => job.id # Lobby)
    /\ pc \in {"up", "cut", "write", "insert", "noconsole"} => Lobby \in DOMAIN channels

ConfigLoaded ==
  /\ pc = "fill" => file[at] = Torn
  /\ pc \in {"up", "cut", "write", "insert", "noconsole"} =>
       default = file["config"] /\ default \notin {NoFile, Torn}

Legal(f) == \A id \in DOMAIN f : f[id].slots >= -1

LegalSlots ==
  /\ Legal(channels) /\ Legal(db)
  /\ Is(Channels) => Legal(Channels)
  /\ pc \in {"cut", "write", "insert"} /\ job.op = "create" => job.entry.slots >= -1

\* The reports stay true of what is kept.
LEMMA ReportsStep == StoreInv /\ Reports /\ [Next]_vars => Reports'
<1>. SUFFICES ASSUME StoreInv, Reports, [Next]_vars PROVE Reports'
  OBVIOUS
<1>. USE DEF memory, history, Channels, Is
<1>1. CASE Start \/ Refuse
  BY <1>1 DEF Start, Refuse, Reports
<1>2. CASE Load
  BY <1>2 DEF Load, Take, Reports, StoreInv, Shapes, Files
<1>3. CASE MakeFile
  BY <1>3 DEF MakeFile, Reports, StoreInv, Shapes, Files
<1>4. CASE Fill
  BY <1>4 DEF Fill, Created, Take, Reports, StoreInv, Shapes, Follows, Files
<1>5. ASSUME NEW id \in Ids, NEW n \in SlotArgs, NEW s \in Nat, Create(id, n, s)
      PROVE  Reports'
  <2>1. Channels = channels /\ Is(Channels)
    BY <1>5, WholeIsNeither DEF Create, Command, StoreInv, Follows, Shapes
  <2>. QED  BY <1>5, <2>1 DEF Create, Command, Write, Reports
<1>6. ASSUME NEW id \in Ids, Delete(id)
      PROVE  Reports'
  <2>1. Channels = channels /\ Is(Channels)
    BY <1>6, WholeIsNeither DEF Delete, Deletable, Command, StoreInv, Follows, Shapes
  <2>. QED  BY <1>6, <2>1 DEF Delete, Deletable, Command, Write, Reports
<1>7. CASE Panic
  BY <1>7 DEF Panic, Command, Reports
<1>8. CASE Cut
  <2>1. Channels' = Torn
    BY <1>8 DEF Cut, StoreInv, Shapes, Files
  <2>. QED  BY <1>8, <2>1, StoresAssumption DEF Cut, Reports, StoreInv, Follows
<1>9. CASE WriteDb
  <2>1. CASE job.op = "create"
    <3>1. Channels' = With(db, job.id, job.entry) /\ DOMAIN Channels' = DOMAIN db \cup {job.id}
      BY <1>9, <2>1 DEF WriteDb, Written, StoreInv, Shapes, With, Files
    <3>2. Is(Channels')
      BY <1>9, <2>1, <3>1, WrittenWhole, WholeIsNeither DEF WriteDb, Written, StoreInv, Shapes, Follows
    <3>. QED  BY <1>9, <2>1, <3>1, <3>2 DEF WriteDb, Written, Reports
  <2>2. CASE job.op = "delete"
    <3>1. Channels' = Without(db, job.id) /\ DOMAIN Channels' = DOMAIN db \ {job.id}
      BY <1>9, <2>2 DEF WriteDb, Written, StoreInv, Shapes, Without, Files
    <3>2. Is(Channels')
      BY <1>9, <2>2, <3>1, WrittenWhole, WholeIsNeither DEF WriteDb, Written, StoreInv, Shapes, Follows
    <3>. QED  BY <1>9, <2>2, <3>1, <3>2 DEF WriteDb, Written, Reports
  <2>. QED  BY <1>9, <2>1, <2>2 DEF WriteDb, Written, StoreInv, Follows, Writing, Editing
<1>10. CASE Insert
  <2>1. Channels = With(channels, job.id, job.entry) /\ job.id \in DOMAIN Channels /\ Whole(Channels)
    <3>1. Channels = With(channels, job.id, job.entry) /\ Whole(channels)
          /\ job.id \in Ids /\ job.entry \in Entry
      BY <1>10 DEF Insert, StoreInv, Shapes, Follows, Editing
    <3>. HIDE DEF Channels
    <3>2. Whole(With(channels, job.id, job.entry))
      BY <3>1, WithWhole
    <3>. QED  BY <3>1, <3>2 DEF With
  <2>2. Is(Channels)
    BY <2>1, WholeIsNeither
  <2>. QED  BY <1>10, <2>1, <2>2 DEF Insert, Reports
<1>11. CASE WriteFails \/ Crash
  BY <1>11 DEF WriteFails, Crash, Reports
<1>12. CASE UNCHANGED vars
  BY <1>12 DEF vars, Reports
<1>. QED
  BY <1>1, <1>2, <1>3, <1>4, <1>5, <1>6, <1>7, <1>8, <1>9, <1>10, <1>11, <1>12, StoresAssumption
     DEF Next, CreateLast

\* main.rs:1040, 1065: a reported creation or deletion outlives every crash that leaves
\* the server able to start.
THEOREM ReportsAreKept == Spec => []ReportedIsKept
<1>1. Init => Reports
  BY DEF Init, Reports, Channels, Is
<1>2. StoreInv /\ Reports => ReportedIsKept
  BY WholeIsNeither DEF StoreInv, Shapes, Follows, Reports, ReportedIsKept, Channels, Is
<1>. QED  BY <1>1, <1>2, ReportsStep, StoresCorrect, PTL DEF Spec

\* The lobby is protected from the load of the configuration on.
LEMMA LobbyStep ==
  StoreInv /\ LobbyProtected /\ ConfigLoaded /\ [Next]_vars => LobbyProtected' /\ ConfigLoaded'
<1>. SUFFICES ASSUME StoreInv, LobbyProtected, ConfigLoaded, [Next]_vars
     PROVE  LobbyProtected' /\ ConfigLoaded'
  OBVIOUS
<1>. USE DEF memory, history, Channels, Is
<1>1. CASE Start \/ Refuse
  BY <1>1 DEF Start, Refuse, LobbyProtected, ConfigLoaded
<1>2. CASE Load
  <2>1. CASE at = "config"
    <3>1. Channels = channels /\ Whole(Channels)
      BY <1>2, <2>1 DEF Load, StoreInv, Shapes, Follows
    <3>2. Is(Channels)
      BY <3>1, WholeIsNeither
    <3>. QED  BY <1>2, <2>1, <3>1, <3>2 DEF Load, Take, LobbyProtected, ConfigLoaded
  <2>2. CASE at # "config"
    BY <1>2, <2>2 DEF Load, Take, LobbyProtected, ConfigLoaded
  <2>. QED  BY <2>1, <2>2
<1>3. CASE MakeFile
  BY <1>3 DEF MakeFile, LobbyProtected, ConfigLoaded, StoreInv, Shapes, Files
<1>4. CASE Fill
  <2>1. CASE at = "config"
    <3>1. Channels = channels /\ Whole(Channels) /\ Channels' = Channels /\ file'["config"] = Lobby
      BY <1>4, <2>1 DEF Fill, Created, StoreInv, Shapes, Follows, Files, Default
    <3>2. Is(Channels)
      BY <3>1, WholeIsNeither
    <3>3. Lobby \in DOMAIN Channels
      BY <1>4, <2>1, <3>2 DEF Fill, Created, LobbyProtected, ConfigLoaded
    <3>. QED  BY <1>4, <2>1, <3>1, <3>3, StoresAssumption
              DEF Fill, Created, Take, LobbyProtected, ConfigLoaded, Default
  <2>2. CASE at = "channels"
    <3>1. Channels' = Default("channels") /\ Lobby \in DOMAIN Channels' /\ pc' = "load"
          /\ file'["config"] = file["config"]
      BY <1>4, <2>2 DEF Fill, Created, Take, StoreInv, Shapes, Files, Default
    <3>. QED  BY <3>1 DEF LobbyProtected, ConfigLoaded
  <2>3. CASE at = "groups"
    <3>1. Channels' = Channels /\ pc' = "load" /\ file'["config"] = file["config"]
      BY <1>4, <2>3 DEF Fill, Created, Take, StoreInv, Shapes, Files
    <3>. QED  BY <3>1 DEF LobbyProtected, ConfigLoaded
  <2>. QED  BY <2>1, <2>2, <2>3 DEF StoreInv, Shapes, Files
<1>5. ASSUME NEW id \in Ids, NEW n \in SlotArgs, NEW s \in Nat, Create(id, n, s)
      PROVE  LobbyProtected' /\ ConfigLoaded'
  <2>1. Channels = channels
    BY <1>5 DEF Create, Command, StoreInv, Follows
  <2>. QED  BY <1>5, <2>1 DEF Create, Command, Write, LobbyProtected, ConfigLoaded
<1>6. ASSUME NEW id \in Ids, Delete(id)
      PROVE  LobbyProtected' /\ ConfigLoaded'
  <2>1. Channels = channels /\ Whole(Channels)
    BY <1>6 DEF Delete, Deletable, Command, StoreInv, Follows, Shapes
  <2>2. DOMAIN channels' = DOMAIN channels \ {id} /\ default = file["config"] /\ id # default
    BY <1>6 DEF Delete, Deletable, Command, Without, ConfigLoaded
  <2>3. file["config"] \in {NoFile, Torn, Lobby} => Lobby \in DOMAIN channels
    BY <1>6 DEF Delete, Deletable, Command, LobbyProtected
  <2>4. file["config"] # NoFile /\ file["config"] # Torn
    BY <1>6 DEF Delete, Deletable, Command, ConfigLoaded
  <2>. QED  BY <1>6, <2>1, <2>2, <2>3, <2>4 DEF Delete, Deletable, Command, Write, LobbyProtected, ConfigLoaded
<1>7. CASE Panic
  BY <1>7 DEF Panic, Command, LobbyProtected, ConfigLoaded
<1>8. CASE Cut
  <2>1. Channels' = Torn /\ file'["config"] = file["config"]
    BY <1>8 DEF Cut, StoreInv, Shapes, Files
  <2>. QED  BY <1>8, <2>1 DEF Cut, LobbyProtected, ConfigLoaded
<1>9. CASE WriteDb
  <2>0. pc' \in {"insert", "up"} /\ UNCHANGED <<channels, default>> /\ pc = "write"
        /\ file'["config"] = file["config"]
    BY <1>9 DEF WriteDb, Written, StoreInv, Shapes, Files
  <2>1. CASE job.op = "create"
    <3>1. DOMAIN Channels' = DOMAIN db \cup {job.id}
      BY <1>9, <2>1 DEF WriteDb, Written, StoreInv, Shapes, With, Files
    <3>. QED  BY <2>0, <2>1, <3>1 DEF LobbyProtected, ConfigLoaded
  <2>2. CASE job.op = "delete"
    <3>1. DOMAIN Channels' = DOMAIN db \ {job.id}
      BY <1>9, <2>2 DEF WriteDb, Written, StoreInv, Shapes, Without, Files
    <3>. QED  BY <2>0, <2>2, <3>1 DEF LobbyProtected, ConfigLoaded
  <2>. QED  BY <1>9, <2>1, <2>2 DEF WriteDb, Written, StoreInv, Follows, Writing, Editing
<1>10. CASE Insert
  <2>1. DOMAIN channels' = DOMAIN channels \cup {job.id}
    BY <1>10 DEF Insert, With
  <2>. QED  BY <1>10, <2>1 DEF Insert, LobbyProtected, ConfigLoaded
<1>11. CASE WriteFails \/ Crash
  BY <1>11 DEF WriteFails, Crash, LobbyProtected, ConfigLoaded
<1>12. CASE UNCHANGED vars
  BY <1>12 DEF vars, LobbyProtected, ConfigLoaded
<1>. QED
  BY <1>1, <1>2, <1>3, <1>4, <1>5, <1>6, <1>7, <1>8, <1>9, <1>10, <1>11, <1>12, StoresAssumption
     DEF Next, CreateLast

\* main.rs:476: the channel every login unwraps is there while it is the configured one.
THEOREM LobbyIsThere == Spec => []LobbyStays
<1>1. Init => LobbyProtected /\ ConfigLoaded
  BY DEF Init, LobbyProtected, ConfigLoaded, Channels, Is
<1>2. LobbyProtected /\ ConfigLoaded => LobbyStays
  BY DEF LobbyProtected, ConfigLoaded, LobbyStays
<1>. QED  BY <1>1, <1>2, LobbyStep, StoresCorrect, PTL DEF Spec

\* No entry with a slot count below -1 is made, written or loaded.
LEMMA SlotsStep == StoreInv /\ LegalSlots /\ [Next]_vars => LegalSlots'
<1>. SUFFICES ASSUME StoreInv, LegalSlots, [Next]_vars PROVE LegalSlots'
  OBVIOUS
<1>. USE DEF memory, history, Channels, Is
<1>0. Legal(Nothing)
  BY DEF Legal, Nothing
<1>1. CASE Start \/ Refuse
  BY <1>1 DEF Start, Refuse, LegalSlots
<1>2. CASE Load
  BY <1>2 DEF Load, Take, LegalSlots
<1>3. CASE MakeFile
  BY <1>3 DEF MakeFile, LegalSlots, StoreInv, Shapes, Files
<1>4. CASE Fill
  <2>1. Legal(Default("channels"))
    BY DEF Legal, Default
  <2>. QED  BY <1>4, <2>1 DEF Fill, Created, Take, LegalSlots, StoreInv, Shapes, Files
<1>5. ASSUME NEW id \in Ids, NEW n \in SlotArgs, NEW s \in Nat, Create(id, n, s)
      PROVE  LegalSlots'
  <2>1. Narrow(n) \in Int /\ Narrow(n) >= -1
    BY <1>5, NarrowFits, StoresAssumption DEF Create, Illegal
  <2>2. Channels = channels
    BY <1>5 DEF Create, Command, StoreInv, Follows
  <2>. QED  BY <1>5, <2>1, <2>2 DEF Create, Command, Write, LegalSlots
<1>6. ASSUME NEW id \in Ids, Delete(id)
      PROVE  LegalSlots'
  <2>1. Channels = channels
    BY <1>6 DEF Delete, Deletable, Command, StoreInv, Follows
  <2>2. Legal(Without(channels, id))
    BY DEF LegalSlots, Legal, Without
  <2>. QED  BY <1>6, <2>1, <2>2 DEF Delete, Deletable, Command, Write, LegalSlots
<1>7. CASE Panic
  BY <1>7 DEF Panic, Command, LegalSlots
<1>8. CASE Cut
  BY <1>8 DEF Cut, LegalSlots, StoreInv, Shapes, Files
<1>9. CASE WriteDb
  <2>1. CASE job.op = "create"
    <3>1. Legal(With(db, job.id, job.entry))
      BY <1>9, <2>1 DEF WriteDb, Written, LegalSlots, Legal, With
    <3>. QED  BY <1>0, <1>9, <2>1, <3>1 DEF WriteDb, Written, LegalSlots, StoreInv, Shapes, Files
  <2>2. CASE job.op = "delete"
    <3>1. Legal(Without(db, job.id))
      BY DEF LegalSlots, Legal, Without
    <3>. QED  BY <1>0, <1>9, <2>2, <3>1 DEF WriteDb, Written, LegalSlots, StoreInv, Shapes, Files
  <2>. QED  BY <1>9, <2>1, <2>2 DEF WriteDb, Written, StoreInv, Follows, Writing, Editing
<1>10. CASE Insert
  <2>1. Legal(With(channels, job.id, job.entry))
    BY <1>10 DEF Insert, LegalSlots, Legal, With, StoreInv, Follows
  <2>. QED  BY <1>10, <2>1 DEF Insert, LegalSlots
<1>11. CASE WriteFails \/ Crash
  BY <1>0, <1>11 DEF WriteFails, Crash, LegalSlots
<1>12. CASE UNCHANGED vars
  BY <1>12 DEF vars, LegalSlots
<1>. QED
  BY <1>1, <1>2, <1>3, <1>4, <1>5, <1>6, <1>7, <1>8, <1>9, <1>10, <1>11, <1>12, StoresAssumption
     DEF Next, CreateLast

\* channel_db.rs:21: -1 is the only negative slot count anywhere.
THEOREM SlotsAreLegal == Spec => []SlotsLegal
<1>1. Init => LegalSlots
  BY DEF Init, LegalSlots, Legal, Nothing, Channels, Is
<1>2. LegalSlots => SlotsLegal
  BY DEF LegalSlots, Legal, SlotsLegal, Channels, Is
<1>. QED  BY <1>1, <1>2, SlotsStep, StoresCorrect, PTL DEF Spec

-----------------------------------------------------------------------------
(* The file implements the abstract one.                                   *)

kept == IF file["channels"] = NoFile THEN {}
        ELSE IF file["channels"] = Torn THEN Pairs(db)
        ELSE Pairs(file["channels"])
lost == file["channels"] = Torn /\ pc \notin {"write", "fill"}

\* The file begins empty.
LEMMA FileInit == Init => Kept!Init
BY NothingWhole, StoresAssumption DEF Init, Kept!Init

\* The mapped steps, without the instance.
Same == kept' = kept /\ lost' = lost
PutStep(e) == ~lost /\ e \notin kept /\ kept' = kept \cup {e} /\ lost' = lost
DropStep(e) == ~lost /\ e \in kept /\ kept' = kept \ {e} /\ lost' = lost
LoseStep == ~lost /\ kept' = {} /\ lost' = TRUE
FileStep == Same \/ LoseStep \/ \E e \in Ids \X Entry : PutStep(e) \/ DropStep(e)

\* A step of the file is one of the abstract file.
LEMMA Mapped == FileStep => [Kept!Next]_(Kept!vars)
BY DEF FileStep, Same, PutStep, DropStep, LoseStep, kept, lost,
       Kept!Next, Kept!vars, Kept!Put, Kept!Drop, Kept!Lose

\* A whole file keeps its entries, whatever a command reads or forgets.
LEMMA StillWhole ==
  ASSUME Whole(file["channels"]), file'["channels"] = file["channels"]
  PROVE  Same
BY WholeIsNeither DEF Same, kept, lost

\* The same, for a file that is there.
LEMMA StillThere ==
  ASSUME UNCHANGED <<file, db>>, lost' = lost
  PROVE  Same
BY DEF Same, kept, lost

\* After the channels are loaded, and while the console waits, their file is whole.
LEMMA LoadedIsWhole ==
  ASSUME StoreInv, pc = "up" \/ pc = "cut" \/ (pc \in {"load", "fill"} /\ at # "channels")
                   \/ pc = "insert"
  PROVE  Whole(file["channels"])
<1>1. CASE pc = "insert"
  <2>1. Whole(channels) /\ job.id \in Ids /\ job.entry \in Entry
        /\ file["channels"] = With(channels, job.id, job.entry)
    BY <1>1 DEF StoreInv, Shapes, Follows, Editing
  <2>2. Whole(With(channels, job.id, job.entry))
    BY <2>1, WithWhole
  <2> QED
    BY <2>1, <2>2
<1>2. CASE pc # "insert"
  BY <1>2 DEF StoreInv, Shapes, Follows
<1> QED
  BY <1>1, <1>2

\* A new file is cut: nothing was in it.
LEMMA MakeFileMaps == ASSUME StoreInv, MakeFile PROVE FileStep
<1>1. CASE at = "channels"
  <2>1. file["channels"] = NoFile /\ file'["channels"] = Torn /\ pc' = "fill" /\ db' = db
        /\ db = Nothing
    BY <1>1 DEF MakeFile, StoreInv, Shapes, Follows, Files
  <2> QED
    BY <2>1, NothingWhole, StoresAssumption DEF FileStep, Same, kept, lost
<1>2. CASE at # "channels"
  <2>1. Whole(file["channels"]) /\ file'["channels"] = file["channels"]
    BY <1>2, LoadedIsWhole DEF MakeFile, StoreInv, Shapes, Files
  <2> QED
    BY <2>1, StillWhole DEF FileStep
<1> QED
  BY <1>1, <1>2

\* The default file is one entry put.
LEMMA FillMaps == ASSUME StoreInv, Fill PROVE FileStep
<1>1. CASE at = "channels"
  <2> DEFINE e == <<Lobby, [sort |-> 0, slots |-> -1]>>
  <2>1. /\ file["channels"] = Torn /\ file'["channels"] = Default("channels")
        /\ pc = "fill" /\ db = Nothing
    BY <1>1 DEF Fill, Created, StoreInv, Shapes, Follows, Files
  <2>2. kept = {} /\ ~lost
    BY <2>1, NothingWhole, StoresAssumption DEF kept, lost
  <2>3. file'["channels"] # NoFile /\ file'["channels"] # Torn
    BY <2>1, DefaultWhole, WholeIsNeither
  <2>4. Pairs(Default("channels")) = {e}
    BY DEF Pairs, Default
  <2>5. kept' = {e} /\ ~lost'
    BY <2>1, <2>3, <2>4 DEF kept, lost
  <2>6. e \in Ids \X Entry
    BY StoresAssumption DEF Entry
  <2>7. PutStep(e)
    <3> HIDE DEF e
    <3> QED
      BY <2>2, <2>5 DEF PutStep, lost
  <2> HIDE DEF e
  <2> QED
    BY <2>6, <2>7 DEF FileStep
<1>2. CASE at # "channels"
  <2>1. Whole(file["channels"]) /\ file'["channels"] = file["channels"]
    BY <1>2, LoadedIsWhole DEF Fill, Created, StoreInv, Shapes, Files
  <2> QED
    BY <2>1, StillWhole DEF FileStep
<1> QED
  BY <1>1, <1>2

\* While it is cut the file is what the command has read.
LEMMA CutMaps == ASSUME StoreInv, Cut PROVE FileStep
<1>1. /\ Whole(file["channels"]) /\ file["channels"] = db /\ db' = db
      /\ file'["channels"] = Torn /\ pc' = "write"
  BY LoadedIsWhole DEF Cut, StoreInv, Shapes, Follows, Files
<1> QED
  BY <1>1, WholeIsNeither, StoresAssumption DEF FileStep, Same, kept, lost

\* The write is one entry put or dropped.
LEMMA WriteMaps == ASSUME StoreInv, WriteDb PROVE FileStep
<1>1. pc = "write" /\ file["channels"] = Torn /\ Writing /\ Whole(db)
  BY DEF WriteDb, Written, StoreInv, Shapes, Follows
<1>2. file'["channels"] = IF job.op = "create" THEN With(db, job.id, job.entry)
                          ELSE Without(db, job.id)
  BY DEF WriteDb, Written, StoreInv, Shapes, Files
<1>3. kept = Pairs(db) /\ ~lost
  BY <1>1, StoresAssumption DEF kept, lost
<1>4. Whole(file'["channels"])
  BY <1>1, <1>2, WrittenWhole
<1>5. kept' = Pairs(file'["channels"]) /\ ~lost'
  BY <1>4, WholeIsNeither DEF kept, lost
<1>6. CASE job.op = "create"
  <2> DEFINE e == <<job.id, job.entry>>
  <2>1. e \in Ids \X Entry /\ e \notin Pairs(db)
        /\ Pairs(With(db, job.id, job.entry)) = Pairs(db) \cup {e}
    BY <1>1, <1>6, WithWhole DEF Writing, Editing
  <2>2. PutStep(e)
    <3> HIDE DEF e
    <3> QED
      BY <1>2, <1>3, <1>5, <1>6, <2>1 DEF PutStep, lost
  <2> HIDE DEF e
  <2> QED
    BY <2>1, <2>2 DEF FileStep
<1>7. CASE job.op # "create"
  <2> DEFINE e == <<job.id, db[job.id]>>
  <2>1. e \in Ids \X Entry /\ e \in Pairs(db)
        /\ Pairs(Without(db, job.id)) = Pairs(db) \ {e}
    BY <1>1, <1>7, WithoutWhole DEF Writing, Editing
  <2>2. DropStep(e)
    <3> HIDE DEF e
    <3> QED
      BY <1>2, <1>3, <1>5, <1>7, <2>1 DEF DropStep, lost
  <2> HIDE DEF e
  <2> QED
    BY <2>1, <2>2 DEF FileStep
<1> QED
  BY <1>6, <1>7

\* The program or the console ends: in the middle of a write everything is lost.
LEMMA EndMaps ==
  ASSUME StoreInv, UNCHANGED file, db' = Nothing, pc' \in {"down", "noconsole"}
  PROVE  FileStep
<1>1. CASE file["channels"] = Torn /\ pc \in {"write", "fill"}
  <2>1. kept' = {} /\ lost' /\ ~lost
    BY <1>1, NothingWhole, StoresAssumption DEF kept, lost
  <2> QED
    BY <2>1 DEF FileStep, LoseStep, lost
<1>2. CASE file["channels"] = Torn /\ pc \notin {"write", "fill"}
  <2>1. db = Nothing
    BY <1>2, LoadedIsWhole, WholeIsNeither DEF StoreInv, Shapes, Follows
  <2> QED
    BY <1>2, <2>1 DEF FileStep, Same, kept, lost
<1>3. CASE file["channels"] # Torn
  BY <1>3 DEF FileStep, Same, kept, lost
<1> QED
  BY <1>1, <1>2, <1>3

\* Every step of the server is one of the file or none.
LEMMA FileMaps == StoreInv /\ [Next]_vars => FileStep
<1> SUFFICES ASSUME StoreInv, [Next]_vars PROVE FileStep
  OBVIOUS
<1> USE DEF memory, history
<1>1. CASE Start \/ Refuse \/ Load
  <2>1. UNCHANGED <<file, db>> /\ lost' = lost
    BY <1>1 DEF Start, Refuse, Load, Take, lost
  <2> QED
    BY <2>1, StillThere DEF FileStep
<1>2. CASE MakeFile
  BY <1>2, MakeFileMaps
<1>3. CASE Fill
  BY <1>3, FillMaps
<1>4. CASE \/ \E id \in Ids, n \in SlotArgs :
                CreateLast(id, n) \/ \E s \in SortArgs : Create(id, n, s)
           \/ Panic \/ Insert
           \/ \E id \in Ids : Delete(id)
  <2>1. pc \in {"up", "insert"} /\ UNCHANGED file
    BY <1>4 DEF CreateLast, Create, Command, Panic, Insert, Delete, Deletable
  <2> QED
    BY <2>1, LoadedIsWhole, StillWhole DEF FileStep
<1>5. CASE Cut
  BY <1>5, CutMaps
<1>6. CASE WriteDb
  BY <1>6, WriteMaps
<1>7. CASE WriteFails \/ Crash
  BY <1>7, EndMaps DEF WriteFails, Crash
<1>8. CASE UNCHANGED vars
  BY <1>8 DEF vars, FileStep, Same, kept, lost
<1> QED
  BY <1>1, <1>2, <1>3, <1>4, <1>5, <1>6, <1>7, <1>8 DEF Next

\* The file of the channels implements the abstract one: whatever the commands, the
\* failures and the restarts, it changes by one entry at a time or is lost for good.
THEOREM FileIsDurable == Spec => IsDurable
<1>1. Init => Kept!Init
  BY FileInit
<1>2. StoreInv /\ [Next]_vars => [Kept!Next]_(Kept!vars)
  BY FileMaps, Mapped
<1> QED
  BY <1>1, <1>2, StoresCorrect, PTL DEF Spec, IsDurable, Kept!Spec

-----------------------------------------------------------------------------
(***************************************************************************)
(* The permissions.  calculate_active_perms is a recursive function of the *)
(* number of groups; that it is defined for every number of them, and what *)
(* it is, is shown by the least number at which it would fail.             *)
(***************************************************************************)
LessThan == {q \in Nat \X Nat : q[1] < q[2]}

\* What holds at 0 and is passed on holds up to N.
LEMMA UpTo ==
  ASSUME NEW N \in Nat, NEW T, 0 \in T, \A n \in 0..N : n \in T /\ n < N => n + 1 \in T
  PROVE  0..N \subseteq T
<1> SUFFICES ASSUME NEW x \in 0..N, x \notin T PROVE FALSE
  OBVIOUS
<1> DEFINE Bad == {n \in 0..N : n \notin T}
<1>1. IsWellFoundedOn(LessThan, Nat)
  BY NatLessThanWellFounded DEF OpToRel, LessThan
<1>2. Bad \subseteq Nat /\ Bad # {}
  OBVIOUS
<1>3. PICK n \in Bad : \A k \in Bad : <<k, n>> \notin LessThan
  BY <1>1, <1>2, WFMin
<1>4. n # 0 /\ n - 1 \in 0..N /\ n - 1 < N /\ n - 1 + 1 = n
  BY <1>3
<1>5. n - 1 \notin T
  <2> SUFFICES ASSUME n - 1 \in T PROVE FALSE
    OBVIOUS
  <2>1. n \in T
    BY <1>4
  <2> QED
    BY <1>3, <2>1
<1>6. n - 1 \in Bad /\ <<n - 1, n>> \in LessThan
  BY <1>4, <1>5 DEF LessThan
<1> QED
  BY <1>3, <1>6

\* What has been raised by the first groups of `given`, f by how many.
Raised(p, given, f) ==
  f = [i \in 0..Len(given) |-> IF i = 0 THEN Own(p) ELSE Raise(f[i - 1], given[i])]

LEMMA RaisedExists ==
  ASSUME NEW p, NEW given \in Seq(Snapshot)
  PROVE  \E f : Raised(p, given, f)
<1> DEFINE upto(n) == \E f : f = [i \in 0..n |-> IF i = 0 THEN Own(p)
                                                 ELSE Raise(f[i - 1], given[i])]
           T == {n \in Nat : upto(n)}
<1>1. Len(given) \in Nat
  OBVIOUS
<1>2. 0 \in T
  <2> DEFINE f == [i \in 0..0 |-> Own(p)]
  <2>1. f = [i \in 0..0 |-> IF i = 0 THEN Own(p) ELSE Raise(f[i - 1], given[i])]
    OBVIOUS
  <2> QED
    BY <2>1
<1>3. ASSUME NEW n \in Nat, upto(n) PROVE upto(n + 1)
  <2>1. PICK f : f = [i \in 0..n |-> IF i = 0 THEN Own(p) ELSE Raise(f[i - 1], given[i])]
    BY <1>3
  <2> DEFINE h == [i \in 0..(n + 1) |-> IF i = n + 1 THEN Raise(f[n], given[n + 1]) ELSE f[i]]
  <2>2. \A i \in 0..(n + 1) : h[i] = IF i = 0 THEN Own(p) ELSE Raise(h[i - 1], given[i])
    <3>1. \A i \in 0..n : f[i] = IF i = 0 THEN Own(p) ELSE Raise(f[i - 1], given[i])
      BY <2>1
    <3>2. \A i \in 0..n : h[i] = f[i]
      OBVIOUS
    <3>3. h[n + 1] = Raise(h[n], given[n + 1])
      BY <3>2
    <3> HIDE DEF h
    <3> QED
      BY <3>1, <3>2, <3>3
  <2>3. h = [i \in 0..(n + 1) |-> h[i]]
    OBVIOUS
  <2> HIDE DEF h
  <2>4. h = [i \in 0..(n + 1) |-> IF i = 0 THEN Own(p) ELSE Raise(h[i - 1], given[i])]
    BY <2>2, <2>3
  <2> QED
    BY <2>4
<1> HIDE DEF upto
<1>4. \A n \in 0..Len(given) : n \in T /\ n < Len(given) => n + 1 \in T
  BY <1>1, <1>3
<1>5. 0..Len(given) \subseteq T
  <2> HIDE DEF T
  <2> QED
    BY <1>1, <1>2, <1>4, UpTo
<1>6. upto(Len(given))
  BY <1>1, <1>5
<1> QED
  BY <1>6 DEF upto, Raised

Active == [Powers \cup Rights -> Nat]

LEMMA OwnActive == ASSUME NEW s \in Snapshot PROVE Own(s) \in Active
BY DEF Snapshot, Own, Active, Base, Powers, Rights

\* A group raises to what it gives on its own; a flag that is not set gives 0.
LEMMA RaiseIsMax ==
  ASSUME NEW a \in Active, NEW g \in Snapshot
  PROVE  /\ Raise(a, g) \in Active
         /\ \A n \in Powers \cup Rights :
              Raise(a, g)[n] = IF Own(g)[n] > a[n] THEN Own(g)[n] ELSE a[n]
<1>1. DOMAIN a = Powers \cup Rights /\ \A n \in Powers \cup Rights : a[n] \in Nat
  BY DEF Active
<1>2. Powers \cap Rights = {} /\ \A r : Base(r) \in Powers
  BY DEF Powers, Rights, Base
<1>3. \A n \in Powers : g.power[n] \in Nat
  BY DEF Snapshot
<1>4. ASSUME NEW n \in Powers \cup Rights
      PROVE  /\ Raise(a, g)[n] \in Nat
             /\ Raise(a, g)[n] = IF Own(g)[n] > a[n] THEN Own(g)[n] ELSE a[n]
  <2>1. CASE n \in Powers
    BY <1>1, <1>2, <1>3, <2>1 DEF Raise, Own
  <2>2. CASE n \in Rights
    BY <1>1, <1>2, <1>3, <2>2 DEF Raise, Own
  <2> QED
    BY <2>1, <2>2
<1>5. Raise(a, g) = [n \in Powers \cup Rights |-> Raise(a, g)[n]]
  BY <1>1 DEF Raise
<1> QED
  BY <1>4, <1>5 DEF Active

\* main.rs:632-713: for any user and any number of groups in any order, an active
\* permission is the largest of what the user and each of its groups have on their own.
THEOREM ActivePermsAreMaxima ==
  ASSUME NEW p \in Snapshot, NEW given \in Seq(Snapshot)
  PROVE  calculate_active_perms(p, given) = MaximaOf(p, given)
<1> DEFINE f == CHOOSE h : Raised(p, given, h)
           those(k) == {p} \cup {given[i] : i \in 1..k}
           Maximum(k, n) == /\ \E s \in those(k) : f[k][n] = Own(s)[n]
                            /\ \A s \in those(k) : Own(s)[n] <= f[k][n]
           Right(k) == f[k] \in Active /\ \A n \in Powers \cup Rights : Maximum(k, n)
           T == {k \in Nat : Right(k)}
           N == Len(given)
<1>1. N \in Nat /\ \A i \in 1..N : given[i] \in Snapshot
  OBVIOUS
<1>2. f = [i \in 0..N |-> IF i = 0 THEN Own(p) ELSE Raise(f[i - 1], given[i])]
  <2>1. Raised(p, given, f)
    BY RaisedExists
  <2> HIDE DEF f
  <2> QED
    BY <2>1 DEF Raised
<1>3. calculate_active_perms(p, given) = f[N]
  BY DEF calculate_active_perms, Raised
<1> HIDE DEF f
<1>4. f[0] = Own(p) /\ \A i \in 0..(N - 1) : f[i + 1] = Raise(f[i], given[i + 1])
  BY <1>1, <1>2
<1>5. 0 \in T
  <2>1. those(0) = {p}
    OBVIOUS
  <2>2. \A n \in Powers \cup Rights : Own(p)[n] \in Nat
    BY OwnActive DEF Active
  <2>3. \A n \in Powers \cup Rights : Maximum(0, n)
    BY <1>4, <2>1, <2>2
  <2> QED
    BY <1>4, <2>3, OwnActive
<1>6. ASSUME NEW k \in 0..N, Right(k), k < N PROVE Right(k + 1)
  <2> DEFINE g == given[k + 1]
  <2>1. g \in Snapshot /\ f[k + 1] = Raise(f[k], g) /\ f[k] \in Active
    BY <1>1, <1>4, <1>6
  <2>2. those(k + 1) = those(k) \cup {g}
    OBVIOUS
  <2>3. /\ f[k + 1] \in Active
        /\ \A n \in Powers \cup Rights :
             f[k + 1][n] = IF Own(g)[n] > f[k][n] THEN Own(g)[n] ELSE f[k][n]
    <3> HIDE DEF g
    <3>1. Raise(f[k], g) \in Active
      BY <2>1, RaiseIsMax
    <3>2. \A n \in Powers \cup Rights :
            Raise(f[k], g)[n] = IF Own(g)[n] > f[k][n] THEN Own(g)[n] ELSE f[k][n]
      BY <2>1, RaiseIsMax
    <3> QED
      BY <2>1, <3>1, <3>2
  <2>4. ASSUME NEW n \in Powers \cup Rights PROVE Maximum(k + 1, n)
    <3>1. Maximum(k, n) /\ f[k][n] \in Nat /\ Own(g)[n] \in Nat
      BY <1>6, <2>1, OwnActive DEF Active
    <3>2. \A s \in those(k) : Own(s)[n] \in Nat
      <4>1. those(k) \subseteq Snapshot
        BY <1>1
      <4> QED
        BY <4>1, OwnActive DEF Active
    <3> HIDE DEF those, g
    <3>3. CASE Own(g)[n] > f[k][n]
      BY <2>2, <2>3, <3>1, <3>2, <3>3
    <3>4. CASE ~(Own(g)[n] > f[k][n])
      BY <2>2, <2>3, <3>1, <3>2, <3>4
    <3> QED
      BY <3>3, <3>4
  <2> QED
    BY <2>3, <2>4
<1>7. 0..N \subseteq T
  <2>1. \A k \in 0..N : k \in T /\ k < N => k + 1 \in T
    <3> HIDE DEF Right
    <3> QED
      BY <1>1, <1>6
  <2> HIDE DEF T
  <2> QED
    BY <1>1, <1>5, <2>1, UpTo
<1>8. Right(N)
  <2> HIDE DEF Right
  <2> QED
    BY <1>1, <1>7
<1>9. those(N) = {p} \cup {given[i] : i \in DOMAIN given}
  OBVIOUS
<1>10. ASSUME NEW n \in Powers \cup Rights
       PROVE  f[N][n] = Max({Own(s)[n] : s \in {p} \cup {given[i] : i \in DOMAIN given}})
  <2> DEFINE S == {Own(s)[n] : s \in those(N)}
  <2>1. f[N][n] \in S /\ \A v \in S : v <= f[N][n]
    BY <1>8
  <2>2. S \subseteq Nat
    <3>1. those(N) \subseteq Snapshot
      BY <1>1
    <3> QED
      BY <3>1, OwnActive DEF Active
  <2>3. ASSUME NEW m \in S, \A v \in S : m >= v PROVE m = f[N][n]
    <3> HIDE DEF S
    <3>1. m \in Nat /\ f[N][n] \in Nat /\ m >= f[N][n] /\ m <= f[N][n]
      BY <2>1, <2>2, <2>3
    <3> QED
      BY <3>1
  <2>4. Max(S) = f[N][n]
    <3> HIDE DEF S
    <3> QED
      BY <2>1, <2>2, <2>3 DEF Max
  <2> QED
    BY <1>9, <2>4
<1>11. f[N] = [n \in Powers \cup Rights |-> f[N][n]]
  BY <1>8 DEF Active
<1> QED
  BY <1>3, <1>10, <1>11 DEF MaximaOf

\* The same in every state of the server, of the permissions it finds in its files.
THEOREM PermsAreAlwaysMaxima == Spec => []PermsAreMaxima
<1>1. ASSUME NEW p \in Snapshots, NEW g \in Snapshots, NEW h \in Snapshots
      PROVE  calculate_active_perms(p, <<g, h>>) = MaximaOf(p, <<g, h>>)
  <2>1. p \in Snapshot /\ <<g, h>> \in Seq(Snapshot)
    BY SnapshotsAssumption
  <2> QED
    BY <2>1, ActivePermsAreMaxima
<1>2. PermsAreMaxima
  BY <1>1 DEF PermsAreMaxima
<1> QED
  BY <1>2, PTL
=============================================================================
