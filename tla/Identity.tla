------------------------------ MODULE Identity ------------------------------
(***************************************************************************)
(* An identity in the two programs: the client finds proofs of work for    *)
(* its profiles and keeps them in a file, logs in with them, and the       *)
(* server counts them and remembers the user.  Both may die at any time.   *)
(* What else a login does is in Presence.                                  *)
(***************************************************************************)
EXTENDS SecurityLevel, FiniteSets, SequencesExt

CONSTANTS
  Keys,         \* private keys, each generated once
  Uuid,         \* the hash of the public key
  Names,        \* the names of profiles; "default" is the first one
  NoFile, Torn, \* as in ServerStores
  DEFAULT_SECURITY_LEVEL,
  ConfigLevels, \* req_security_level, as it may stand in the configuration
  BumpLevels,   \* the levels a user asks for
  MaxCommands, MaxStarts, MaxAttempts  \* bounds

ASSUME IdentityAssumption ==
  /\ Bits \in Nat /\ Sha \in [U256 -> U256]
  /\ Uuid \in [Keys -> U256]
  /\ \A k, l \in Keys : Uuid[k] = Uuid[l] => k = l
  /\ "default" \in Names
  \* all of them are u8; the first one is 12 (security_level.rs:75)
  /\ DEFAULT_SECURITY_LEVEL \in 1..255
  /\ ConfigLevels \subseteq 0..255 /\ BumpLevels \subseteq 0..255
  /\ NoFile # Torn
  /\ \A L \in {NoFile, Torn} : L \notin Seq([name : Names, key : Keys, proofs : Seq(U256)])

VARIABLES
  \* the client
  pfile,     \* the file of the profiles
  cpc,       \* where the client, or its console, stands
  profiles,  \* ProfileDb.profiles: name -> profile
  cache,     \* ProfileDb.internal_cache: everything ever inserted
  drawn,     \* the keys generated so far
  \* between the two
  auth,      \* the AuthRequests on their way
  \* the server
  up,        \* the server runs
  level,     \* req_security_level in its file, and in memory once it runs
  users,     \* UserDb: key -> what was stored at the first login
  synced,    \* what of it sled has on disk
  panicked,  \* the acceptor has unwrapped the last of no proofs
  \* history and bounds
  best,      \* the most proofs a key was ever shown with, in any run of the client
  admitted,  \* the keys that were let in
  commands, starts, attempts

client == <<pfile, cpc, profiles, cache, drawn>>
server == <<up, level, users, synced, panicked>>
bounds == <<commands, starts, attempts>>
vars == <<client, auth, server, best, admitted, bounds>>

None == [x \in {} |-> 0]

Init ==
  /\ pfile = NoFile /\ cpc = "down" /\ profiles = None /\ cache = <<>> /\ drawn = {}
  /\ auth = {}
  /\ up = FALSE /\ level \in ConfigLevels /\ users = None /\ synced = None /\ panicked = FALSE
  /\ best = [k \in Keys |-> <<>>] /\ admitted = {}
  /\ commands = 0 /\ starts = 0 /\ attempts = 0

Level(p) == verified_security_level(Uuid[p.key], p.proofs)

-----------------------------------------------------------------------------
(* The client.                                                             *)

\* A new key, and the proofs for it.
NewProfile(name) ==
  LET k == CHOOSE l \in Keys \ drawn : TRUE
  IN  {[name |-> name, key |-> k, proofs |-> ps] :
         ps \in generate_token_num(DEFAULT_SECURITY_LEVEL, Uuid[k], <<>>)}

\* Mutant: the first entry of a name wins.
ByNameFirst(entries) ==
  [n \in {entries[i].name : i \in DOMAIN entries} |->
     entries[CHOOSE i \in DOMAIN entries :
               /\ entries[i].name = n
               /\ \A j \in DOMAIN entries : entries[j].name = n => i <= j]]

\* The last entry of a name wins.
ByName(entries) ==
  [n \in {entries[i].name : i \in DOMAIN entries} |->
     entries[CHOOSE i \in DOMAIN entries :
               /\ entries[i].name = n
               /\ \A j \in DOMAIN entries : entries[j].name = n => j <= i]]

\* The most proofs that a key was ever shown with.  A list that does not go on from
\* these is not one that was kept, and leaves them as they are.
Reported(ps) ==
  [k \in Keys |->
     LET shown == {ps[n].proofs : n \in {m \in DOMAIN ps :
                                          ps[m].key = k /\ IsPrefix(best[k], ps[m].proofs)}}
     IN  IF shown = {} THEN best[k] ELSE CHOOSE proofs \in shown : TRUE]

ClientStart ==
  /\ cpc = "down"
  /\ starts < MaxStarts /\ starts' = starts + 1
  /\ \/ /\ pfile = NoFile
        /\ Keys # drawn
        /\ \E p \in NewProfile("default") :
             drawn' = drawn \cup {p.key} /\ cache' = <<p>>
        /\ pfile' = Torn
        /\ cpc' = "fill"
        /\ UNCHANGED <<profiles, best>>
     \/ /\ pfile \notin {NoFile, Torn}
        /\ cache' = pfile /\ profiles' = ByName(pfile)
        /\ best' = Reported(profiles')
        /\ cpc' = "up"
        /\ UNCHANGED <<pfile, drawn>>
  /\ UNCHANGED <<auth, server, admitted, commands, attempts>>

Fill ==
  /\ cpc = "fill"
  /\ pfile' = cache
  /\ profiles' = ByName(cache)
  /\ best' = Reported(profiles')
  /\ cpc' = "up"
  /\ UNCHANGED <<cache, drawn, auth, server, admitted, bounds>>

\* Mutant: the profile can be used before it is in the file.
ShownEarly(p) ==
  /\ profiles' = [n \in DOMAIN profiles \cup {p.name} |-> IF n = p.name THEN p ELSE profiles[n]]
  /\ best' = Reported(profiles')

Shown(p) == UNCHANGED <<profiles, best>>

\* ProfileDb::insert begins with the cache.
InsertEntry(p) ==
  /\ cpc = "up"
  /\ commands < MaxCommands /\ commands' = commands + 1
  /\ cache' = Append(cache, p)
  /\ Shown(p)
  /\ cpc' = "cut"
  /\ UNCHANGED <<pfile, auth, server, admitted, starts, attempts>>

\* profiles create
CreateProfile(name) ==
  /\ name \notin DOMAIN profiles
  /\ Keys # drawn
  /\ \E p \in NewProfile(name) : InsertEntry(p) /\ drawn' = drawn \cup {p.key}

\* profiles bump_sl: an entry of the same name behind the old one.
Bump(name, req_lvl) ==
  /\ name \in DOMAIN profiles
  /\ \E ps \in generate_token_num(req_lvl, Uuid[profiles[name].key], profiles[name].proofs) :
       InsertEntry([profiles[name] EXCEPT !.proofs = ps])
  /\ UNCHANGED drawn

Cut ==
  /\ cpc = "cut"
  /\ pfile' = Torn
  /\ cpc' = "write"
  /\ UNCHANGED <<profiles, cache, drawn, auth, server, best, admitted, bounds>>

WriteFile ==
  /\ cpc = "write"
  /\ pfile' = cache
  /\ cpc' = "insert"
  /\ UNCHANGED <<profiles, cache, drawn, auth, server, best, admitted, bounds>>

InsertProfile ==
  /\ cpc = "insert"
  /\ LET p == Last(cache)
     IN  profiles' = [n \in DOMAIN profiles \cup {p.name} |-> IF n = p.name THEN p ELSE profiles[n]]
  /\ best' = Reported(profiles')
  /\ cpc' = "up"
  /\ UNCHANGED <<pfile, cache, drawn, auth, server, admitted, bounds>>

\* The file cannot be opened or written: the command returns the error, the cache
\* keeps the entry.
WriteFails ==
  /\ cpc \in {"cut", "write"}
  /\ cpc' = "up"
  /\ UNCHANGED <<pfile, profiles, cache, drawn, auth, server, best, admitted, bounds>>

ClientCrash ==
  /\ cpc # "down"
  /\ cpc' = "down"
  /\ profiles' = None /\ cache' = <<>>
  /\ UNCHANGED <<pfile, drawn, auth, server, best, admitted, bounds>>

\* A profile is drawn for a connection, while the console may be at anything.
Connect(name) ==
  /\ cpc \notin {"down", "fill"}
  /\ name \in DOMAIN profiles
  /\ attempts < MaxAttempts /\ attempts' = attempts + 1
  /\ auth' = auth \cup {[key |-> profiles[name].key, proofs |-> profiles[name].proofs]}
  /\ UNCHANGED <<client, server, best, admitted, commands, starts>>

\* A peer whose request has no proofs; start_connect_to encodes such a one, and does
\* not send it.
ConnectWithout(k) ==
  /\ attempts < MaxAttempts /\ attempts' = attempts + 1
  /\ auth' = auth \cup {[key |-> k, proofs |-> <<>>]}
  /\ UNCHANGED <<client, server, best, admitted, commands, starts>>

-----------------------------------------------------------------------------
(* The server.                                                             *)

\* Mutant: the level is taken as it stands.
LoadedLevelAsIs(n) == n

\* Config::load_or_create
LoadedLevel(n) == IF n < 1 THEN 1 ELSE n

ServerStart ==
  /\ ~up
  /\ starts < MaxStarts /\ starts' = starts + 1
  /\ up' = TRUE
  /\ UNCHANGED <<client, auth, level, users, synced, panicked, best, admitted,
                 commands, attempts>>

\* sled writes what was inserted after a while.
Sync ==
  /\ synced # users
  /\ synced' = users
  /\ UNCHANGED <<client, auth, up, level, users, panicked, best, admitted, bounds>>

ServerCrash ==
  /\ up
  /\ up' = FALSE /\ users' = synced
  /\ UNCHANGED <<client, auth, level, synced, panicked, best, admitted, bounds>>

\* The request is refused: the proofs are wrong or too few.
Refused(a) == Level(a) = Invalid \/ LoadedLevel(level) > Level(a)

Refuse(a) ==
  /\ up /\ ~panicked
  /\ a \in auth /\ Refused(a)
  /\ auth' = auth \ {a}
  /\ UNCHANGED <<client, server, best, admitted, bounds>>

\* Mutant: the level is what the configuration asks for.
StoredLevelAsked(a) == LoadedLevel(level)

StoredLevel(a) == Level(a)

\* A user that is not known is stored; what is known is left as it is.
Admit(a) ==
  /\ up /\ ~panicked
  /\ a \in auth /\ ~Refused(a)
  /\ auth' = auth \ {a}
  /\ panicked' = (a.key \notin DOMAIN users /\ a.proofs = <<>>)
  /\ users' = IF a.key \in DOMAIN users \/ a.proofs = <<>> THEN users
              ELSE [k \in DOMAIN users \cup {a.key} |->
                      IF k = a.key THEN [proof |-> Last(a.proofs), level |-> StoredLevel(a)]
                      ELSE users[k]]
  /\ admitted' = admitted \cup {a.key}
  /\ UNCHANGED <<client, up, level, synced, best, bounds>>

-----------------------------------------------------------------------------
Next ==
  \/ ClientStart \/ Fill \/ Cut \/ WriteFile \/ InsertProfile \/ WriteFails \/ ClientCrash
  \/ \E n \in Names : CreateProfile(n) \/ Connect(n) \/ \E l \in BumpLevels : Bump(n, l)
  \/ \E k \in Keys : ConnectWithout(k)
  \/ ServerStart \/ Sync \/ ServerCrash
  \/ \E a \in auth : Refuse(a) \/ Admit(a)

Spec == Init /\ [][Next]_vars

-----------------------------------------------------------------------------
(* Properties.                                                             *)

\* security_level.rs:55: what the client finds, extends, saves and loads again, the
\* server counts in full.
ProofsHold ==
  \A p \in Range(cache) \cup (IF pfile \in {NoFile, Torn} THEN {} ELSE Range(pfile)) :
    Level(p) = Len(p.proofs) /\ Level(p) >= DEFAULT_SECURITY_LEVEL

\* profile_db.rs:60: a profile that was ever shown is there after every restart that
\* can read the file, and its proofs go on from the most it ever had: of the entries
\* of one name, the one that raised it last wins, and no failed write leaves one out.
ProfilesKept ==
  cpc = "up" =>
    \A k \in Keys : best[k] # <<>> =>
      \E n \in DOMAIN profiles : profiles[n].key = k /\ IsPrefix(best[k], profiles[n].proofs)

\* main.rs:425: who was let in once can be let in again, whatever died in between.
WelcomeAgain ==
  \A n \in DOMAIN profiles :
    profiles[n].key \in admitted => Level(profiles[n]) >= LoadedLevel(level)

\* user_db.rs:46: what the server keeps of a user is a proof of that user, and the
\* level is the one this proof has reached.
StoredIsProven ==
  \A k \in DOMAIN users :
    /\ users[k].level <= Len(best[k])
    /\ users[k].proof = best[k][users[k].level]

\* main.rs:466: the acceptor unwraps the last proof of a new user.
NeverPanics == ~panicked
=============================================================================
